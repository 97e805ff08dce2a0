--------------------------- MODULE UartReplayProofs ---------------------------
(***************************************************************************)
(* Theorems about UartReplay: the packet main() holds always fits its      *)
(* buffers, whatever bytes arrive; and when no name of an input has the    *)
(* length MAX_NAME, which the header cannot express, and the shell takes   *)
(* no byte, main() reads exactly the packets that were sent.               *)
(***************************************************************************)
EXTENDS UartReplay, SequenceTheorems, TLAPS

(* A leaf is tried with the SMT solver, then with Zenon, then with the SMT    *)
(* solver and more time, unless it names its prover.                          *)
USE SMTT(10), Zenon, SMTT(60)

(* The header stores the length of a name modulo MAX_NAME, so that it can  *)
(* only give back the shorter ones.                                        *)
ShortNames == \A n \in NameLens : n < MAX_NAME

Term == <<EXIT, 0, 0, 0>>
HeaderOf(q) == <<q[1], Len(q[2]), Len(q[3]) \div Base, Len(q[3]) % Base>>

(* What remains to be read from the name on, and from the data on. *)
FromData(q) == q[3] \o Term
FromName(q) == q[2] \o FromData(q)

Packets == [op : Byte, name_len : 0 .. MAX_NAME - 1, data_len : 0 .. MAX_DATA,
            name : Seq(Byte), data : Seq(Byte)]
Sendable == Byte \X {s \in Seq(Byte) : Len(s) < MAX_NAME} \X {s \in Seq(Byte) : Len(s) <= MAX_DATA}

(* The types; between two runs of the platform nothing is left of either. *)
Types ==
  /\ TypeOK
  /\ packet \in Packets
  /\ ~Reading => buf = << >>
  /\ pc = "off" => log = {} /\ done = << >> /\ ~stolen
  /\ pc # "off" => todo > 0

HeaderRead == packet.op = sent[1] /\ packet.name_len = Len(sent[2]) /\ packet.data_len = Len(sent[3])

(* Where main() is in the two packets of a run: reading the header, the name *)
(* or the data of the input's packet, at work on it, reading the termination *)
(* packet, done.  What it has of the current field and what is still on the  *)
(* line are together the rest of what was sent.                              *)
InHeader == pc = "header" /\ done = << >> /\ buf \o line = HeaderOf(sent) \o FromName(sent)
InName == pc = "name" /\ done = << >> /\ HeaderRead /\ packet.data = << >> /\ buf \o line = FromName(sent)
InData == pc = "data" /\ done = << >> /\ HeaderRead /\ packet.name = sent[2] /\ buf \o line = FromData(sent)
AtWork == /\ pc \in {"start", "use", "halted", "exit"} /\ done = << >>
          /\ Request(packet) = sent /\ buf = << >> /\ line = Term
InTerm == pc = "header" /\ done = <<sent>> /\ buf \o line = Term
AtEnd == /\ pc \in {"start", "exit"} /\ done = <<sent>>
         /\ packet.op = EXIT /\ buf = << >> /\ line = << >>

InStep ==
  /\ sent \in Sendable
  /\ InHeader \/ InName \/ InData \/ AtWork \/ InTerm \/ AtEnd
  /\ "OP_DONE" \in log => done # << >>

Inv == Types /\ (pc # "off" /\ ~stolen => InStep)

-----------------------------------------------------------------------------
(* Arithmetic and sequences                                                *)

LEMMA Facts ==
  /\ Base \in Nat \ {0} /\ MAX_NAME \in Nat \ {0}
  /\ Base \in Nat /\ Base > 3 /\ MAX_NAME \in Nat /\ MAX_NAME > 0 /\ MAX_NAME < Base
  /\ MAX_DATA \in Nat /\ MAX_DATA > 0 /\ EXIT = Base - 1
  /\ Byte = 0 .. Base - 1 /\ 0 \in Byte /\ EXIT \in Byte
BY Sizes DEF EXIT, Byte

LEMMA DivMod ==
  ASSUME NEW a \in Nat, NEW b \in Nat \ {0}
  PROVE  /\ a \div b \in Nat /\ a % b \in 0 .. b - 1
         /\ a = (a \div b) * b + (a % b)
OBVIOUS

LEMMA Times ==
  ASSUME NEW i \in Nat, NEW n \in Nat, NEW b \in Nat, n <= i
  PROVE  n * b <= i * b
<1>1. PICK k \in Nat : i = n + k
  BY i - n \in Nat
<1>2. i * b = n * b + k * b /\ k * b >= 0
  BY <1>1
<1> QED
  BY <1>2

(* The two bytes of a data length are bytes, and give it back. *)
LEMMA LengthBytes ==
  ASSUME NEW d \in 0 .. MAX_DATA
  PROVE  /\ d \div Base \in Byte /\ d % Base \in Byte
         /\ DataLength(d \div Base, d % Base) = d
<1> DEFINE q == d \div Base
           r == d % Base
<1>0. d \in Nat
  BY Facts
<1>1. q \in Nat /\ r \in 0 .. Base - 1 /\ d = q * Base + r
  BY Zenon, <1>0, DivMod, Facts
<1>2. d \in Nat /\ d < Base * Base /\ Base * Base \in Nat
  BY Sizes
<1> HIDE DEF q, r
<1>3. q < Base
  <2>1. CASE Base <= q
    <3>1. Base * Base <= q * Base /\ q * Base \in Nat
      BY <1>1, <2>1, Times, Facts
    <3> QED
      BY <3>1, <1>1, <1>2
  <2> QED
    BY <2>1, <1>1, Facts
<1>4. q \in Byte /\ r \in Byte
  BY <1>1, <1>3, Facts
<1>5. DataLength(q, r) = d
  BY <1>1, Facts DEF DataLength
<1> QED
  BY <1>4, <1>5 DEF q, r

(* Any two bytes give a length that fits. *)
LEMMA LengthFits ==
  ASSUME NEW hi \in Byte, NEW lo \in Byte
  PROVE  DataLength(hi, lo) \in 0 .. MAX_DATA
<1>1. hi * Base \in Nat /\ lo \in Nat
  BY Facts
<1> QED
  BY <1>1, Facts DEF DataLength

LEMMA NameFits ==
  ASSUME NEW b \in Nat
  PROVE  NameLength(b) \in 0 .. MAX_NAME - 1 /\ (b < MAX_NAME => NameLength(b) = b)
<1>1. NameLength(b) \in 0 .. MAX_NAME - 1
  BY Zenon, DivMod, Facts DEF NameLength
<1>2. ASSUME b < MAX_NAME PROVE NameLength(b) = b
  <2> DEFINE q == b \div MAX_NAME
             r == b % MAX_NAME
  <2>1. q \in Nat /\ r \in 0 .. MAX_NAME - 1 /\ b = q * MAX_NAME + r
    BY Zenon, DivMod, Facts
  <2> HIDE DEF q, r
  <2>2. q = 0
    <3>1. CASE 1 <= q
      <4>1. 1 * MAX_NAME <= q * MAX_NAME /\ q * MAX_NAME \in Nat
        BY <2>1, <3>1, Times, Facts
      <4> QED
        BY <4>1, <2>1, <1>2, Facts
    <3> QED
      BY <3>1, <2>1
  <2>3. q * MAX_NAME = 0
    BY <2>2, Facts
  <2>4. r = b
    BY <2>1, <2>3
  <2> QED
    BY <2>4 DEF r, NameLength
<1> QED
  BY <1>1, <1>2

(* Two ways to write a sequence as a beginning and a rest, the beginnings of *)
(* one length, are the same.                                                 *)
LEMMA Cancel ==
  ASSUME NEW S, NEW s \in Seq(S), NEW t \in Seq(S), NEW u \in Seq(S), NEW v \in Seq(S),
         s \o t = u \o v, Len(s) = Len(u)
  PROVE  s = u /\ t = v
<1> DEFINE w == s \o t
<1>a. /\ Len(w) = Len(s) + Len(t)
      /\ \A i \in 1 .. Len(s) + Len(t) : w[i] = IF i <= Len(s) THEN s[i] ELSE t[i - Len(s)]
  BY ZenonT(60), ConcatProperties
<1>w. w = u \o v
  OBVIOUS
<1> HIDE DEF w
<1>b. /\ Len(w) = Len(u) + Len(v)
      /\ \A i \in 1 .. Len(u) + Len(v) : w[i] = IF i <= Len(u) THEN u[i] ELSE v[i - Len(u)]
  BY ZenonT(60), <1>w, ConcatProperties
<1>1. Len(s) + Len(t) = Len(w) /\ Len(u) + Len(v) = Len(w)
  BY Zenon, <1>a, <1>b
<1>2. Len(s) \in Nat /\ Len(t) \in Nat /\ Len(v) \in Nat
  OBVIOUS
<1>3. \A i \in 1 .. Len(s) : s[i] = u[i]
  BY <1>a, <1>b, <1>2
<1>4. Len(t) = Len(v)
  BY <1>1, <1>2
<1>5. \A i \in 1 .. Len(t) : t[i] = v[i]
  <2>1. TAKE i \in 1 .. Len(t)
  <2>2. Len(s) + i \in 1 .. Len(w) /\ Len(s) + i > Len(s) /\ (Len(s) + i) - Len(s) = i
    BY <1>1, <1>2
  <2>3. /\ Len(s) + i \in 1 .. Len(s) + Len(t) /\ Len(s) + i \in 1 .. Len(u) + Len(v)
        /\ ~(Len(s) + i <= Len(s)) /\ ~(Len(s) + i <= Len(u)) /\ (Len(s) + i) - Len(u) = i
    BY <2>2, <1>1, <1>2
  <2>4. w[Len(s) + i] = t[i]
    BY Zenon, <2>2, <2>3, <1>a
  <2>5. w[Len(s) + i] = v[i]
    BY Zenon, <2>3, <1>b
  <2> QED
    BY Zenon, <2>4, <2>5
<1> QED
  BY <1>3, <1>4, <1>5, SeqEqual

(* A byte read moves from the line to the buffer. *)
LEMMA Moved ==
  ASSUME NEW b \in Seq(Byte), NEW l \in Seq(Byte), l # << >>
  PROVE  /\ Append(b, Head(l)) \in Seq(Byte) /\ Tail(l) \in Seq(Byte)
         /\ Len(Append(b, Head(l))) = Len(b) + 1
         /\ Append(b, Head(l)) \o Tail(l) = b \o l
<1>1. Head(l) \in Byte /\ Tail(l) \in Seq(Byte)
  BY HeadTailProperties
<1>2. Append(b, Head(l)) \in Seq(Byte) /\ Len(Append(b, Head(l))) = Len(b) + 1
      /\ Append(b, Head(l)) = b \o <<Head(l)>>
  BY <1>1, AppendProperties, AppendIsConcat
<1>3. <<Head(l)>> \in Seq(Byte)
  BY <1>1
<1>4. <<Head(l)>> \o Tail(l) = l
  BY <1>1
<1>5. (b \o <<Head(l)>>) \o Tail(l) = b \o (<<Head(l)>> \o Tail(l))
  BY <1>1, <1>3, ConcatAssociative
<1> QED
  BY <1>1, <1>2, <1>4, <1>5

(* The name and the data of an input once send_packet.py has cut them. *)
LEMMA SentFits ==
  ASSUME NEW n \in NameLens, NEW name \in [1 .. n -> NameByte],
         NEW d \in 0 .. MAX_DATA, NEW data \in [1 .. d -> Byte]
  PROVE  /\ Cut(name, MAX_NAME) \in Seq(Byte) /\ Len(Cut(name, MAX_NAME)) <= MAX_NAME
         /\ ShortNames => Len(Cut(name, MAX_NAME)) < MAX_NAME
         /\ data \in Seq(Byte) /\ Len(data) = d
<1>1. n \in Nat /\ d \in Nat
  BY Sizes, Facts
<1>2. name \in Seq(Byte) /\ Len(name) = n
  <2>1. NameByte \subseteq Byte
    BY Facts DEF NameByte
  <2>2. name \in [1 .. n -> Byte]
    BY <2>1
  <2> QED
    BY <1>1, <2>2
<1>3. data \in Seq(Byte) /\ Len(data) = d
  BY <1>1
<1>4. CASE n > MAX_NAME
  <2>1. MAX_NAME \in 0 .. Len(name) /\ Cut(name, MAX_NAME) = SubSeq(name, 1, MAX_NAME)
    BY <1>1, <1>2, <1>4, Facts DEF Cut
  <2>2. SubSeq(name, 1, MAX_NAME) \in Seq(Byte) /\ Len(SubSeq(name, 1, MAX_NAME)) = MAX_NAME
    BY <1>2, <2>1, Facts
  <2>3. ~ShortNames
    BY <1>1, <1>4, Facts DEF ShortNames
  <2> QED
    BY <1>3, <2>1, <2>2, <2>3, Facts
<1>5. CASE ~(n > MAX_NAME)
  <2>1. Cut(name, MAX_NAME) = name
    BY <1>2, <1>5 DEF Cut
  <2> QED
    BY <2>1, <1>1, <1>2, <1>3, <1>5, Facts DEF ShortNames
<1> QED
  BY <1>4, <1>5

LEMMA TermSeq == Term \in Seq(Byte) /\ Len(Term) = 4 /\ Term[1] = EXIT /\ Term[2] = 0 /\ Term[3] = 0 /\ Term[4] = 0
BY Facts DEF Term

LEMMA BytesAssociative ==
  ASSUME NEW s \in Seq(Byte), NEW t \in Seq(Byte), NEW u \in Seq(Byte)
  PROVE  (s \o t) \o u = s \o (t \o u)
BY ConcatAssociative

(* What is sent is the header and what follows it. *)
LEMMA Streamed ==
  ASSUME NEW op \in Byte, NEW name \in Seq(Byte), Len(name) <= MAX_NAME,
         NEW data \in Seq(Byte), Len(data) <= MAX_DATA
  PROVE  /\ Stream(op, name, data) = HeaderOf(<<op, name, data>>) \o FromName(<<op, name, data>>)
         /\ HeaderOf(<<op, name, data>>) \in Seq(Byte) /\ Len(HeaderOf(<<op, name, data>>)) = 4
         /\ FromName(<<op, name, data>>) \in Seq(Byte) /\ FromName(<<op, name, data>>) = name \o FromData(<<op, name, data>>)
         /\ FromData(<<op, name, data>>) \in Seq(Byte) /\ FromData(<<op, name, data>>) = data \o Term
         /\ Stream(op, name, data) \in Seq(Byte)
<1> DEFINE h == <<op, Len(name), Len(data) \div Base, Len(data) % Base>>
<1>1. HeaderOf(<<op, name, data>>) = h /\ FromData(<<op, name, data>>) = data \o Term /\ FromName(<<op, name, data>>) = name \o (data \o Term)
  BY DEF HeaderOf, FromData, FromName
<1>2. Len(name) \in Byte /\ Len(data) \in 0 .. MAX_DATA
  BY Facts
<1>3. Len(data) \div Base \in Byte /\ Len(data) % Base \in Byte
  BY Zenon, <1>2, LengthBytes
<1>4. h \in Seq(Byte) /\ Len(h) = 4
  BY <1>2, <1>3
<1>5. Stream(op, name, data) = ((h \o name) \o data) \o Term
  BY Zenon DEF Stream, Term
<1> HIDE DEF h
<1>6. h \o name \in Seq(Byte) /\ data \o Term \in Seq(Byte)
  BY Zenon, <1>4, TermSeq, ConcatProperties
<1>7. ((h \o name) \o data) \o Term = (h \o name) \o (data \o Term)
  <2> DEFINE g == h \o name
  <2>1. g \in Seq(Byte) /\ Term \in Seq(Byte)
    BY Zenon, <1>6, TermSeq
  <2> HIDE DEF g
  <2>2. (g \o data) \o Term = g \o (data \o Term)
    BY ZenonT(60), <2>1, BytesAssociative
  <2> QED
    BY Zenon, <2>2 DEF g
<1>8. (h \o name) \o (data \o Term) = h \o (name \o (data \o Term))
  BY ZenonT(60), <1>4, <1>6, BytesAssociative
<1>9. name \o (data \o Term) \in Seq(Byte)
  BY <1>6
<1>10. h \o (name \o (data \o Term)) \in Seq(Byte)
  BY <1>4, <1>9
<1> QED
  BY Zenon, <1>1, <1>4, <1>5, <1>6, <1>7, <1>8, <1>9, <1>10

-----------------------------------------------------------------------------
(* The types                                                               *)

LEMMA FieldCases ==
  /\ pc = "header" => FieldLen = 4
  /\ pc = "name" => FieldLen = packet.name_len
  /\ pc = "data" => FieldLen = packet.data_len
BY DEF FieldLen

(* The packet a complete field makes, and the field read after it. *)
LEMMA FilledFits ==
  ASSUME packet \in Packets, Reading, NEW s \in Seq(Byte), Len(s) = FieldLen
  PROVE  /\ Filled(s) \in Packets
         /\ pc = "header" => /\ Filled(s).op = s[1] /\ Filled(s).name_len = NameLength(s[2])
                             /\ Filled(s).data_len = DataLength(s[3], s[4])
                             /\ Filled(s).name = << >> /\ Filled(s).data = << >>
         /\ pc = "name" => Filled(s) = [packet EXCEPT !.name = s]
         /\ pc = "data" => Filled(s) = [packet EXCEPT !.data = s]
<1>1. CASE pc = "header"
  <2>1. s[1] \in Byte /\ s[2] \in Byte /\ s[3] \in Byte /\ s[4] \in Byte
    <3>1. Len(s) = 4
      BY Zenon, <1>1, FieldCases
    <3>2. \A i \in 1 .. Len(s) : s[i] \in Byte
      OBVIOUS
    <3> QED
      BY <3>1, <3>2
  <2>0. s[2] \in Nat
    BY <2>1 DEF Byte
  <2>2. NameLength(s[2]) \in 0 .. MAX_NAME - 1
    BY Zenon, <2>0, NameFits
  <2>3. DataLength(s[3], s[4]) \in 0 .. MAX_DATA
    BY Zenon, <2>1, LengthFits
  <2>4. Filled(s) = [op |-> s[1], name_len |-> NameLength(s[2]), data_len |-> DataLength(s[3], s[4]),
                     name |-> << >>, data |-> << >>]
    BY <1>1 DEF Filled, Blank
  <2> QED
    BY <1>1, <2>1, <2>2, <2>3, <2>4 DEF Packets
<1>2. CASE pc = "name"
  BY <1>2 DEF Filled, Packets
<1>3. CASE pc = "data"
  BY <1>3 DEF Filled, Packets
<1> QED
  BY <1>1, <1>2, <1>3 DEF Reading

LEMMA AfterFits ==
  ASSUME NEW f \in {"header", "name", "data"}, NEW p \in Packets
  PROVE  /\ After(f, p) \in {"name", "data", "start"}
         /\ After(f, p) = "name" <=> f = "header" /\ p.name_len > 0
         /\ After(f, p) = "data" <=> p.data_len > 0 /\ (f = "name" \/ (f = "header" /\ p.name_len = 0))
BY DEF After, Packets

(* What uart_getc does to the field being read. *)
LEMMA ByteRead ==
  ASSUME TypeOK, GetByte
  PROVE  \E s \in Seq(Byte) :
           /\ Len(s) = Len(buf) + 1 /\ Len(s) <= FieldLen
           /\ line' \in Seq(Byte) /\ s \o line' = buf \o line
           /\ \/ Len(s) < FieldLen /\ buf' = s /\ UNCHANGED <<pc, packet, log>>
              \/ /\ Len(s) = FieldLen /\ buf' = << >> /\ packet' = Filled(s)
                 /\ pc' = After(pc, packet')
                 /\ log' = IF pc' = "start" THEN log \cup {"OP_START"} ELSE log
<1> DEFINE s == Append(buf, Head(line))
<1>0. buf \in Seq(Byte) /\ line \in Seq(Byte) /\ line # << >> /\ line' = Tail(line)
  BY Zenon DEF TypeOK, GetByte
<1>1. s \in Seq(Byte) /\ Len(s) = Len(buf) + 1 /\ line' \in Seq(Byte) /\ s \o line' = buf \o line
  BY Zenon, <1>0, Moved
<1>2. Len(buf) \in Nat /\ FieldLen \in Nat /\ Len(buf) < FieldLen
  <2>1. Len(buf) < FieldLen /\ Len(buf) \in Nat
    BY <1>0 DEF TypeOK, GetByte
  <2>2. FieldLen \in Nat
    <3>1. packet.name_len \in Nat /\ packet.data_len \in Nat
      BY Facts DEF TypeOK
    <3>2. pc \in {"header", "name", "data"}
      BY Zenon DEF GetByte, Reading
    <3> QED
      BY <3>1, <3>2, FieldCases
  <2> QED
    BY <2>1, <2>2
<1>3. \/ Len(s) < FieldLen /\ buf' = s /\ UNCHANGED <<pc, packet, log>>
      \/ /\ ~(Len(s) < FieldLen) /\ buf' = << >> /\ packet' = Filled(s)
         /\ pc' = After(pc, packet')
         /\ log' = IF pc' = "start" THEN log \cup {"OP_START"} ELSE log
  BY Zenon DEF GetByte
<1> HIDE DEF s
<1>4. Len(s) <= FieldLen /\ (~(Len(s) < FieldLen) => Len(s) = FieldLen)
  BY <1>1, <1>2
<1> QED
  BY Zenon, <1>1, <1>3, <1>4

LEMMA TypesGetByte ==
  ASSUME Types, GetByte
  PROVE  Types'
<1>0. TypeOK /\ packet \in Packets /\ Reading /\ pc # "off"
  BY Zenon DEF Types, GetByte, Reading
<1>1. UNCHANGED <<todo, sent, mounted, done, results, stolen>>
  BY Zenon DEF GetByte
<1>2. PICK s \in Seq(Byte) :
           /\ Len(s) = Len(buf) + 1 /\ Len(s) <= FieldLen
           /\ line' \in Seq(Byte) /\ s \o line' = buf \o line
           /\ \/ Len(s) < FieldLen /\ buf' = s /\ UNCHANGED <<pc, packet, log>>
              \/ /\ Len(s) = FieldLen /\ buf' = << >> /\ packet' = Filled(s)
                 /\ pc' = After(pc, packet')
                 /\ log' = IF pc' = "start" THEN log \cup {"OP_START"} ELSE log
  BY Zenon, <1>0, ByteRead
<1>3. /\ packet' \in Packets /\ buf' \in Seq(Byte)
      /\ pc' \in {"header", "name", "data", "start"}
      /\ Reading' => Len(buf') < FieldLen'
      /\ ~Reading' => buf' = << >>
      /\ log' \subseteq log \cup {"OP_START"}
  <2>1. CASE Len(s) < FieldLen /\ buf' = s /\ UNCHANGED <<pc, packet, log>>
    <3>1. FieldLen' = FieldLen
      BY <2>1 DEF FieldLen
    <3> QED
      BY <2>1, <3>1, <1>0 DEF Reading
  <2>2. CASE /\ Len(s) = FieldLen /\ buf' = << >> /\ packet' = Filled(s)
             /\ pc' = After(pc, packet')
             /\ log' = IF pc' = "start" THEN log \cup {"OP_START"} ELSE log
    <3>1. packet' \in Packets /\ pc \in {"header", "name", "data"}
      BY <2>2, <1>0, FilledFits DEF Reading
    <3>2. /\ pc' \in {"name", "data", "start"}
          /\ pc' = "name" => packet'.name_len > 0
          /\ pc' = "data" => packet'.data_len > 0
      BY <2>2, <3>1, AfterFits
    <3>3. Reading' => FieldLen' > 0
      BY <3>2 DEF Reading, FieldLen
    <3>4. Len(buf') = 0 /\ buf' \in Seq(Byte)
      BY <2>2
    <3> QED
      BY <2>2, <3>1, <3>2, <3>3, <3>4
  <2> QED
    BY Zenon, <2>1, <2>2, <1>2
<1>4. TypeOK'
  BY <1>0, <1>1, <1>2, <1>3 DEF TypeOK, Packets, Reading
<1>5. pc' # "off"
  BY <1>3
<1> QED
  BY Zenon, <1>0, <1>1, <1>3, <1>4, <1>5 DEF Types

LEMMA OutcomeKind == Outcome \in {"CHERI_FAULT_CAUGHT", "CLEAN", "STUCK"}
BY DEF Outcome

(* The packet between two runs. *)
LEMMA BlankFits == Blank \in Packets
BY Facts DEF Blank, Packets

LEMMA TypesBoot ==
  ASSUME Types, Boot
  PROVE  Types'
<1>1. PICK op \in Byte, n \in NameLens, d \in 0 .. MAX_DATA :
        \E name \in [1 .. n -> NameByte], data \in [1 .. d -> Byte] :
          line' = Stream(op, Cut(name, MAX_NAME), data)
  BY Zenon DEF Boot
<1>2. PICK name \in [1 .. n -> NameByte], data \in [1 .. d -> Byte] :
        line' = Stream(op, Cut(name, MAX_NAME), data)
  BY Zenon, <1>1
<1>3. /\ Cut(name, MAX_NAME) \in Seq(Byte) /\ Len(Cut(name, MAX_NAME)) <= MAX_NAME
      /\ data \in Seq(Byte) /\ Len(data) = d
  BY Zenon, SentFits
<1>4. Len(data) <= MAX_DATA
  BY <1>3, Facts
<1>5. line' \in Seq(Byte)
  BY Zenon, <1>2, <1>3, <1>4, Streamed
<1>6. /\ pc = "off" /\ pc' = "header" /\ log' = {"FUZZ_READY"} /\ todo > 0
      /\ UNCHANGED <<todo, buf, packet, mounted, done, results, stolen>>
  BY Zenon DEF Boot
<1>7. TypeOK /\ packet \in Packets /\ buf = << >>
  BY <1>6 DEF Types, Reading
<1>8. Reading' => Len(buf') < FieldLen'
  BY <1>6, <1>7 DEF FieldLen
<1>9. TypeOK'
  BY <1>5, <1>6, <1>7, <1>8 DEF TypeOK, Reading
<1> QED
  BY <1>6, <1>7, <1>9 DEF Types, Reading

(* The end of a run leaves nothing behind. *)
LEMMA TypesClassify ==
  ASSUME Types, Classify
  PROVE  Types'
<1>1. /\ pc # "off" /\ pc' = "off" /\ results' = Append(results, Outcome) /\ todo' = todo - 1
      /\ line' = << >> /\ buf' = << >> /\ packet' = Blank
      /\ mounted' = FALSE /\ log' = {} /\ done' = << >> /\ stolen' = FALSE
  BY Zenon DEF Classify
<1>2. TypeOK /\ todo > 0
  BY Zenon, <1>1 DEF Types
<1>3. results' \in Seq({"CHERI_FAULT_CAUGHT", "CLEAN", "STUCK"})
  BY <1>1, <1>2, OutcomeKind DEF TypeOK
<1>4. todo' \in 0 .. Files
  BY <1>1, <1>2, Sizes DEF TypeOK
<1>5. packet' \in Packets
  BY Zenon, <1>1, BlankFits
<1>6. ~Reading'
  BY <1>1 DEF Reading
<1>7. TypeOK'
  <2>1. line' \in Seq(Byte) /\ buf' \in Seq(Byte)
    BY <1>1
  <2>2. /\ packet'.op \in Byte /\ packet'.name_len \in 0 .. MAX_NAME - 1
        /\ packet'.data_len \in 0 .. MAX_DATA
    BY <1>5 DEF Packets
  <2>3. mounted' \in BOOLEAN /\ stolen' \in BOOLEAN /\ log' \subseteq {"FUZZ_READY", "OP_START", "OP_DONE", "FUZZ_EXIT", "FATAL"}
    BY Zenon, <1>1
  <2> QED
    BY Zenon, <2>1, <2>2, <2>3, <1>1, <1>3, <1>4, <1>6 DEF TypeOK
<1> QED
  BY Zenon, <1>1, <1>5, <1>7 DEF Types

(* The steps of main() at work on a packet touch neither the line nor what  *)
(* is read of it.                                                           *)
Working == Start \/ NoUse \/ Exit \/ Finish \/ Fault

LEMMA WorkingEffect ==
  ASSUME Types, Working
  PROVE  /\ pc \in {"start", "use"} /\ pc' \in {"header", "use", "exit", "halted"}
         /\ UNCHANGED <<line_vars, buf, packet>>
         /\ mounted' \in BOOLEAN
         /\ \/ OpDone
            \/ pc' # "header" /\ done' = done /\ log' \subseteq log \cup {"FUZZ_EXIT", "FATAL"}
         /\ pc = "start" /\ packet.op = EXIT => pc' = "exit"
<1>0. mounted \in BOOLEAN
  BY Zenon DEF Types, TypeOK
<1>x. EXIT # OP_CLEAN /\ EXIT # OP_MOUNT_RAW
  BY Facts DEF OP_CLEAN, OP_MOUNT_RAW
<1>1. CASE Start
  BY Zenon, <1>1, <1>x DEF Start
<1>2. CASE NoUse
  BY Zenon, <1>0, <1>2 DEF NoUse, OpDone
<1>3. CASE Exit
  BY Zenon, <1>0, <1>3 DEF Exit
<1>4. CASE Finish
  BY Zenon, <1>4 DEF Finish, OpDone, Unmount
<1>5. CASE Fault
  BY Zenon, <1>0, <1>5, <1>x DEF Fault
<1> QED
  BY Zenon, <1>1, <1>2, <1>3, <1>4, <1>5 DEF Working

LEMMA TypesWorking ==
  ASSUME Types, Working
  PROVE  Types'
<1>1. /\ pc \in {"start", "use"} /\ pc' \in {"header", "use", "exit", "halted"}
      /\ UNCHANGED <<line_vars, buf, packet>>
      /\ mounted' \in BOOLEAN
      /\ log' \subseteq log \cup {"OP_DONE", "FUZZ_EXIT", "FATAL"}
  BY Zenon, WorkingEffect DEF OpDone
<1>2. TypeOK /\ packet \in Packets /\ todo > 0 /\ buf = << >>
  BY <1>1 DEF Types, Reading
<1>3. pc' # "off" /\ UNCHANGED <<todo, line, results, stolen, buf, packet>>
  BY <1>1 DEF line_vars
<1>4. Reading' => Len(buf') < FieldLen'
  BY <1>1, <1>2, <1>3 DEF Reading, FieldLen
<1>5. TypeOK'
  BY <1>1, <1>2, <1>3, <1>4 DEF TypeOK
<1> QED
  BY Zenon, <1>2, <1>3, <1>5 DEF Types

LEMMA TypesShellGets ==
  ASSUME Types, ShellGets
  PROVE  Types'
<1>1. /\ pc # "off" /\ line # << >> /\ line' = Tail(line) /\ stolen' = TRUE
      /\ UNCHANGED <<todo, sent, pc, buf, packet, mounted, log, done, results>>
  BY Zenon DEF ShellGets
<1>2. TypeOK /\ packet \in Packets /\ todo > 0 /\ (~Reading => buf = << >>)
  BY Zenon, <1>1 DEF Types
<1>3. line' \in Seq(Byte)
  BY <1>1, <1>2 DEF TypeOK
<1>4. (Reading' <=> Reading) /\ FieldLen' = FieldLen
  BY <1>1 DEF Reading, FieldLen
<1>5. TypeOK'
  BY Zenon, <1>1, <1>2, <1>3, <1>4 DEF TypeOK
<1> QED
  BY Zenon, <1>1, <1>2, <1>4, <1>5 DEF Types

LEMMA TypesNext == Types /\ [Next]_vars => Types'
<1> SUFFICES ASSUME Types, [Next]_vars PROVE Types'
  OBVIOUS
<1>1. CASE UNCHANGED vars
  BY Zenon, <1>1 DEF vars, Types, TypeOK, Reading, FieldLen
<1> QED
  BY Zenon, <1>1, TypesGetByte, TypesBoot, TypesClassify, TypesWorking, TypesShellGets
     DEF Next, Working, Timeout

LEMMA TypesInit == Init => Types
<1> SUFFICES ASSUME Init PROVE Types
  OBVIOUS
<1>1. packet \in Packets /\ ~Reading /\ pc = "off" /\ buf = << >> /\ log = {} /\ done = << >> /\ stolen = FALSE
  BY BlankFits DEF Init, Reading
<1>2. TypeOK
  <2>1. line \in Seq(Byte) /\ buf \in Seq(Byte) /\ todo \in 0 .. Files
        /\ results \in Seq({"CHERI_FAULT_CAUGHT", "CLEAN", "STUCK"})
    BY Sizes DEF Init
  <2>2. /\ packet.op \in Byte /\ packet.name_len \in 0 .. MAX_NAME - 1
        /\ packet.data_len \in 0 .. MAX_DATA
    BY <1>1 DEF Packets
  <2> QED
    BY Zenon, <2>1, <2>2, <1>1 DEF TypeOK, Init
<1> QED
  BY Zenon, <1>1, <1>2 DEF Types

(* The packet that main() holds fits name_buf and data_buf in every state,   *)
(* whatever was sent and whichever bytes the shell takes.                    *)
THEOREM UartTypes == Spec => []TypeOK
<1>1. Types => TypeOK
  BY Zenon DEF Types
<1> QED
  BY <1>1, TypesInit, TypesNext, PTL DEF Spec

-----------------------------------------------------------------------------
(* The packets of a run, undisturbed                                       *)

(* The packet sent and its parts. *)
LEMMA SentParts ==
  ASSUME sent \in Sendable
  PROVE  /\ sent = <<sent[1], sent[2], sent[3]>>
         /\ sent[1] \in Byte
         /\ sent[2] \in Seq(Byte) /\ Len(sent[2]) \in Nat /\ Len(sent[2]) < MAX_NAME
         /\ sent[3] \in Seq(Byte) /\ Len(sent[3]) \in 0 .. MAX_DATA
BY Facts DEF Sendable

LEMMA SentStream ==
  ASSUME sent \in Sendable
  PROVE  /\ HeaderOf(sent) \in Seq(Byte) /\ Len(HeaderOf(sent)) = 4
         /\ HeaderOf(sent)[1] = sent[1] /\ HeaderOf(sent)[2] = Len(sent[2])
         /\ HeaderOf(sent)[3] = Len(sent[3]) \div Base /\ HeaderOf(sent)[4] = Len(sent[3]) % Base
         /\ FromName(sent) \in Seq(Byte) /\ FromName(sent) = sent[2] \o FromData(sent)
         /\ FromData(sent) \in Seq(Byte) /\ FromData(sent) = sent[3] \o Term
<1>1. PICK op \in Byte, name \in Seq(Byte), data \in Seq(Byte) :
        sent = <<op, name, data>> /\ Len(name) <= MAX_NAME /\ Len(data) <= MAX_DATA
  BY Facts DEF Sendable
<1>2. sent[1] = op /\ sent[2] = name /\ sent[3] = data
  BY <1>1
<1> DEFINE q == <<op, name, data>>
<1>l. Len(name) <= MAX_NAME /\ Len(data) <= MAX_DATA
  BY Zenon, <1>1
<1>3. HeaderOf(q) \in Seq(Byte) /\ Len(HeaderOf(q)) = 4
  BY Zenon, <1>l, Streamed
<1>5. HeaderOf(q)[1] = op /\ HeaderOf(q)[2] = Len(name)
  BY DEF HeaderOf
<1>6. HeaderOf(q)[3] = Len(data) \div Base /\ HeaderOf(q)[4] = Len(data) % Base
  BY DEF HeaderOf
<1>7. FromName(q) \in Seq(Byte) /\ FromName(q) = name \o FromData(q)
  BY Zenon, <1>l, Streamed
<1>8. FromData(q) \in Seq(Byte) /\ FromData(q) = data \o Term
  BY Zenon, <1>l, Streamed
<1>4. sent = q
  BY <1>1
<1> HIDE DEF q
<1> QED
  BY Zenon, <1>2, <1>3, <1>4, <1>5, <1>6, <1>7, <1>8

(* The lengths in the header are those of the name and of the data. *)
LEMMA HeaderLengths ==
  ASSUME sent \in Sendable
  PROVE  /\ NameLength(HeaderOf(sent)[2]) = Len(sent[2])
         /\ DataLength(HeaderOf(sent)[3], HeaderOf(sent)[4]) = Len(sent[3])
<1>1. NameLength(Len(sent[2])) = Len(sent[2])
  BY Zenon, SentParts, NameFits
<1>2. DataLength(Len(sent[3]) \div Base, Len(sent[3]) % Base) = Len(sent[3])
  BY Zenon, SentParts, LengthBytes
<1> QED
  BY Zenon, <1>1, <1>2, SentStream

LEMMA TermLengths == NameLength(Term[2]) = 0 /\ DataLength(Term[3], Term[4]) = 0
<1>1. NameLength(0) = 0
  BY NameFits, Facts
<1>2. DataLength(0, 0) = 0
  BY Facts DEF DataLength
<1> QED
  BY Zenon, <1>1, <1>2, TermSeq

LEMMA CancelBytes ==
  ASSUME NEW s \in Seq(Byte), NEW t \in Seq(Byte), NEW u \in Seq(Byte), NEW v \in Seq(Byte),
         s \o t = u \o v, Len(s) = Len(u)
  PROVE  s = u /\ t = v
BY Zenon, Cancel

LEMMA Empty ==
  ASSUME NEW s \in Seq(Byte)
  PROVE  << >> \o s = s /\ s \o << >> = s /\ (Len(s) = 0 => s = << >>)
BY ConcatEmptySeq, EmptySeq

LEMMA ConcatLength ==
  ASSUME NEW s \in Seq(Byte), NEW t \in Seq(Byte)
  PROVE  Len(s \o t) = Len(s) + Len(t) /\ Len(s) \in Nat /\ Len(t) \in Nat
OBVIOUS

(* The phase after the header and after the name, empty fields skipped. *)
LEMMA EnterName ==
  ASSUME sent \in Sendable, sent' = sent, packet' \in Packets, buf' = << >>, done' = << >>,
         line' = FromName(sent), HeaderRead', packet'.name = << >>, packet'.data = << >>,
         pc' = After("header", packet')
  PROVE  InName' \/ InData' \/ AtWork'
<1>0. /\ packet'.op = sent[1] /\ packet'.name_len = Len(sent[2]) /\ packet'.data_len = Len(sent[3])
  BY Zenon DEF HeaderRead
<1>1. CASE Len(sent[2]) > 0
  <2>1. pc' = "name"
    BY <1>0, <1>1, AfterFits
  <2>2. buf' \o line' = FromName(sent)
    BY Zenon, SentStream, Empty
  <2> QED
    BY Zenon, <2>1, <2>2 DEF InName, FromName, FromData
<1>2. CASE Len(sent[2]) = 0 /\ Len(sent[3]) > 0
  <2>1. pc' = "data"
    BY <1>0, <1>2, AfterFits
  <2>2. sent[2] = << >>
    BY Zenon, <1>2, SentParts, Empty
  <2>3. FromName(sent) = FromData(sent)
    BY Zenon, <2>2, SentStream, Empty
  <2>4. buf' \o line' = FromData(sent)
    BY Zenon, <2>3, SentStream, Empty
  <2> QED
    BY Zenon, <2>1, <2>2, <2>4 DEF InData, FromData
<1>3. CASE Len(sent[2]) = 0 /\ Len(sent[3]) = 0
  <2>1. pc' = "start"
    BY <1>0, <1>3, AfterFits
  <2>2. sent[2] = << >> /\ sent[3] = << >>
    BY Zenon, <1>3, SentParts, Empty
  <2>5. FromData(sent) = << >> \o Term /\ FromName(sent) = << >> \o FromData(sent)
    BY Zenon, <2>2, SentStream
  <2>6. << >> \o Term = Term
    BY Zenon, Empty, TermSeq
  <2>3. line' = Term
    BY Zenon, <2>5, <2>6
  <2>4. Request(packet') = sent
    BY Zenon, <1>0, <2>2, SentParts DEF Request
  <2> QED
    BY Zenon, <2>1, <2>3, <2>4 DEF AtWork
<1> QED
  BY <1>1, <1>2, <1>3, SentParts

LEMMA EnterData ==
  ASSUME sent \in Sendable, sent' = sent, packet' \in Packets, buf' = << >>, done' = << >>,
         line' = FromData(sent), HeaderRead', packet'.name = sent[2], packet'.data = << >>,
         pc' = After("name", packet')
  PROVE  InData' \/ AtWork'
<1>0. /\ packet'.op = sent[1] /\ packet'.name_len = Len(sent[2]) /\ packet'.data_len = Len(sent[3])
  BY Zenon DEF HeaderRead
<1>1. CASE Len(sent[3]) > 0
  <2>1. pc' = "data"
    BY <1>0, <1>1, AfterFits
  <2>2. buf' \o line' = FromData(sent)
    BY Zenon, SentStream, Empty
  <2> QED
    BY Zenon, <2>1, <2>2 DEF InData, FromData
<1>2. CASE Len(sent[3]) = 0
  <2>1. pc' = "start"
    BY <1>0, <1>2, AfterFits
  <2>2. sent[3] = << >>
    BY Zenon, <1>2, SentParts, Empty
  <2>3. line' = Term
    BY Zenon, <2>2, SentStream, Empty, TermSeq
  <2>4. Request(packet') = sent
    BY Zenon, <1>0, <2>2, SentParts DEF Request
  <2> QED
    BY Zenon, <2>1, <2>3, <2>4 DEF AtWork
<1> QED
  BY <1>1, <1>2, SentParts

LEMMA StepBoot ==
  ASSUME ShortNames, Types, Boot
  PROVE  InStep'
<1>1. PICK op \in Byte, n \in NameLens, d \in 0 .. MAX_DATA :
        \E name \in [1 .. n -> NameByte], data \in [1 .. d -> Byte] :
          /\ sent' = <<op, Cut(name, MAX_NAME), data>>
          /\ line' = Stream(op, Cut(name, MAX_NAME), data)
  BY Zenon DEF Boot
<1>2. PICK name \in [1 .. n -> NameByte], data \in [1 .. d -> Byte] :
          /\ sent' = <<op, Cut(name, MAX_NAME), data>>
          /\ line' = Stream(op, Cut(name, MAX_NAME), data)
  BY Zenon, <1>1
<1> DEFINE cut == Cut(name, MAX_NAME)
<1>3. cut \in Seq(Byte) /\ Len(cut) < MAX_NAME /\ data \in Seq(Byte) /\ Len(data) = d
  BY Zenon, SentFits
<1>e. sent' = <<op, cut, data>> /\ line' = Stream(op, cut, data)
  BY Zenon, <1>2
<1> HIDE DEF cut
<1>4. Len(data) <= MAX_DATA /\ Len(cut) <= MAX_NAME
  BY <1>3, Facts
<1>5. sent' \in Sendable
  BY <1>e, <1>3, <1>4 DEF Sendable
<1> DEFINE q == <<op, cut, data>>
<1>q. Stream(op, cut, data) = HeaderOf(q) \o FromName(q) /\ Stream(op, cut, data) \in Seq(Byte)
  BY Zenon, <1>3, <1>4, Streamed
<1>s. sent' = q
  BY <1>e
<1> HIDE DEF q
<1>6. line' = HeaderOf(sent') \o FromName(sent') /\ line' \in Seq(Byte)
  BY Zenon, <1>e, <1>q, <1>s
<1>7. pc = "off" /\ pc' = "header" /\ log' = {"FUZZ_READY"} /\ buf' = buf /\ done' = done
  BY Zenon DEF Boot
<1>8. buf = << >> /\ done = << >>
  BY <1>7 DEF Types, Reading
<1>9. buf' \o line' = line'
  BY Zenon, <1>6, <1>7, <1>8, Empty
<1>10. InHeader'
  BY Zenon, <1>6, <1>7, <1>8, <1>9 DEF InHeader, HeaderOf, FromName, FromData
<1>11. "OP_DONE" \notin log'
  BY <1>7
<1> QED
  BY Zenon, <1>5, <1>10, <1>11 DEF InStep

LEMMA StepWorking ==
  ASSUME Types, InStep, Working
  PROVE  InStep'
<1>1. /\ pc \in {"start", "use"} /\ pc' \in {"header", "use", "exit", "halted"}
      /\ UNCHANGED <<line_vars, buf, packet>>
      /\ \/ OpDone
         \/ pc' # "header" /\ done' = done /\ log' \subseteq log \cup {"FUZZ_EXIT", "FATAL"}
      /\ pc = "start" /\ packet.op = EXIT => pc' = "exit"
  BY Zenon, WorkingEffect
<1>2. sent' = sent /\ line' = line /\ buf' = buf /\ packet' = packet
  BY <1>1 DEF line_vars
<1>3. AtWork \/ AtEnd
  BY <1>1 DEF InStep, InHeader, InName, InData, InTerm
<1>4. CASE AtWork
  <2>1. done = << >> /\ Request(packet) = sent /\ buf = << >> /\ line = Term
    BY Zenon, <1>4 DEF AtWork
  <2>2. CASE OpDone
    <3>1. pc' = "header" /\ done' = Append(<< >>, sent)
      BY Zenon, <2>1, <2>2 DEF OpDone
    <3>2. done' = <<sent>>
      BY <3>1
    <3>3. buf' \o line' = Term
      BY Zenon, <1>2, <2>1, TermSeq, Empty
    <3>4. InTerm' /\ done' # << >>
      BY <3>1, <3>2, <3>3, <1>2 DEF InTerm, Term, EXIT
    <3> QED
      BY Zenon, <3>4, <1>2 DEF InStep
  <2>3. CASE pc' # "header" /\ done' = done /\ log' \subseteq log \cup {"FUZZ_EXIT", "FATAL"}
    <3>1. AtWork'
      BY Zenon, <1>1, <1>2, <2>1, <2>3 DEF AtWork, Request, Term, EXIT
    <3>2. "OP_DONE" \notin log'
      BY <2>1, <2>3 DEF InStep
    <3> QED
      BY Zenon, <3>1, <3>2, <1>2 DEF InStep
  <2> QED
    BY Zenon, <2>2, <2>3, <1>1
<1>5. CASE AtEnd
  <2>1. done = <<sent>> /\ packet.op = EXIT /\ buf = << >> /\ line = << >> /\ pc \in {"start", "exit"}
    BY Zenon, <1>5 DEF AtEnd
  <2>2. pc' = "exit"
    BY <1>1, <2>1
  <2>3. done' = done
    BY <1>1, <2>2 DEF OpDone
  <2>4. AtEnd' /\ done' # << >>
    BY <1>2, <2>1, <2>2, <2>3 DEF AtEnd, EXIT
  <2> QED
    BY Zenon, <2>4, <1>2 DEF InStep
<1> QED
  BY Zenon, <1>3, <1>4, <1>5

(* The field being read gets one byte more, or is complete. *)
LEMMA StepGetByte ==
  ASSUME Types, InStep, GetByte
  PROVE  InStep'
<1>0. /\ TypeOK /\ packet \in Packets /\ Reading /\ sent \in Sendable
      /\ sent' = sent /\ done' = done
  BY Zenon DEF Types, GetByte, InStep
<1>1. PICK s \in Seq(Byte) :
           /\ Len(s) = Len(buf) + 1 /\ Len(s) <= FieldLen
           /\ line' \in Seq(Byte) /\ s \o line' = buf \o line
           /\ \/ Len(s) < FieldLen /\ buf' = s /\ UNCHANGED <<pc, packet, log>>
              \/ /\ Len(s) = FieldLen /\ buf' = << >> /\ packet' = Filled(s)
                 /\ pc' = After(pc, packet')
                 /\ log' = IF pc' = "start" THEN log \cup {"OP_START"} ELSE log
  BY Zenon, <1>0, ByteRead
<1>2. line' \in Seq(Byte) /\ s \o line' = buf \o line
  BY Zenon, <1>1
<1>3. "OP_DONE" \in log' => done' # << >>
  <2>1. log' \subseteq log \cup {"OP_START"}
    BY Zenon, <1>1
  <2> QED
    BY <2>1, <1>0 DEF InStep
<1>4. InHeader \/ InName \/ InData \/ InTerm
  BY <1>0 DEF InStep, Reading, AtWork, AtEnd
<1> DEFINE G == InHeader \/ InName \/ InData \/ AtWork \/ InTerm \/ AtEnd
<1> SUFFICES G'
  BY Zenon, <1>0, <1>3 DEF InStep
<1>5. CASE buf' = s /\ UNCHANGED <<pc, packet, log>>
  <2>1. buf' \o line' = buf \o line
    BY Zenon, <1>2, <1>5
  <2>2. pc' = pc /\ packet' = packet /\ sent' = sent /\ done' = done
    BY Zenon, <1>0, <1>5
  <2>3. InHeader => InHeader'
    BY Zenon, <2>1, <2>2 DEF InHeader, HeaderOf, FromName, FromData, Term, EXIT
  <2>4. InName => InName'
    BY Zenon, <2>1, <2>2 DEF InName, HeaderRead, FromName, FromData, Term, EXIT
  <2>5. InData => InData'
    BY Zenon, <2>1, <2>2 DEF InData, HeaderRead, FromData, Term, EXIT
  <2>6. InTerm => InTerm'
    BY Zenon, <2>1, <2>2 DEF InTerm, Term, EXIT
  <2> QED
    BY Zenon, <1>4, <2>3, <2>4, <2>5, <2>6
<1>6. CASE Len(s) = FieldLen /\ buf' = << >> /\ packet' = Filled(s) /\ pc' = After(pc, packet')
  <2>1. packet' \in Packets
    BY Zenon, <1>0, <1>6, FilledFits
  <2>2. CASE InHeader
    <3>1. pc = "header" /\ done = << >> /\ s \o line' = HeaderOf(sent) \o FromName(sent)
      BY Zenon, <2>2, <1>2 DEF InHeader
    <3>2. Len(s) = Len(HeaderOf(sent))
      BY Zenon, <3>1, <1>0, <1>6, SentStream, FieldCases
    <3>3. s = HeaderOf(sent) /\ line' = FromName(sent)
      BY Zenon, <3>1, <3>2, <1>0, <1>2, SentStream, CancelBytes
    <3>4. /\ packet'.op = s[1] /\ packet'.name_len = NameLength(s[2])
          /\ packet'.data_len = DataLength(s[3], s[4])
          /\ packet'.name = << >> /\ packet'.data = << >>
      BY Zenon, <3>1, <1>0, <1>6, FilledFits
    <3>5. HeaderRead'
      BY Zenon, <3>3, <3>4, <1>0, SentStream, HeaderLengths DEF HeaderRead
    <3> QED
      BY Zenon, <3>1, <3>3, <3>4, <3>5, <2>1, <1>0, <1>6, EnterName
  <2>3. CASE InName
    <3>1. /\ pc = "name" /\ done = << >> /\ s \o line' = sent[2] \o FromData(sent)
          /\ HeaderRead /\ packet.data = << >>
      BY Zenon, <2>3, <1>2, <1>0, SentStream DEF InName
    <3>2. Len(s) = Len(sent[2])
      BY Zenon, <3>1, <1>6, FieldCases DEF HeaderRead
    <3>3. s = sent[2] /\ line' = FromData(sent)
      BY ZenonT(60), <3>1, <3>2, <1>0, <1>2, SentStream, SentParts, CancelBytes
    <3>4. packet' = [packet EXCEPT !.name = s]
      BY Zenon, <3>1, <1>0, <1>6, FilledFits
    <3>5. /\ packet'.op = packet.op /\ packet'.name_len = packet.name_len
          /\ packet'.data_len = packet.data_len /\ packet'.name = s /\ packet'.data = packet.data
      BY <3>4, <1>0 DEF Packets
    <3>6. HeaderRead'
      BY Zenon, <3>1, <3>5, <1>0 DEF HeaderRead
    <3> QED
      BY Zenon, <3>1, <3>3, <3>5, <3>6, <2>1, <1>0, <1>6, EnterData
  <2>4. CASE InData
    <3>1. /\ pc = "data" /\ done = << >> /\ s \o line' = sent[3] \o Term
          /\ HeaderRead /\ packet.name = sent[2]
      BY Zenon, <2>4, <1>2, <1>0, SentStream DEF InData
    <3>2. Len(s) = Len(sent[3])
      BY Zenon, <3>1, <1>6, FieldCases DEF HeaderRead
    <3>3. s = sent[3] /\ line' = Term
      BY Zenon, <3>1, <3>2, <1>0, <1>2, SentParts, TermSeq, CancelBytes
    <3>4. packet' = [packet EXCEPT !.data = s]
      BY Zenon, <3>1, <1>0, <1>6, FilledFits
    <3>5. packet'.op = packet.op /\ packet'.name = packet.name /\ packet'.data = s
      BY <3>4, <1>0 DEF Packets
    <3>6. pc' = "start"
      BY <3>1, <1>6, <2>1, AfterFits
    <3>7. Request(packet') = sent
      BY Zenon, <3>1, <3>3, <3>5, <1>0, SentParts DEF Request, HeaderRead
    <3>8. AtWork'
      BY Zenon, <3>1, <3>3, <3>6, <3>7, <1>0, <1>6 DEF AtWork, Request, Term, EXIT
    <3> QED
      BY Zenon, <3>8
  <2>5. CASE InTerm
    <3>1. pc = "header" /\ done = <<sent>> /\ s \o line' = Term
      BY Zenon, <2>5, <1>2 DEF InTerm
    <3>2. Len(s) = Len(Term)
      BY Zenon, <3>1, <1>6, FieldCases, TermSeq
    <3>3. << >> \in Seq(Byte) /\ Term \o << >> = Term
      BY TermSeq, Empty
    <3>4. s = Term /\ line' = << >>
      BY Zenon, <3>1, <3>2, <3>3, <1>2, TermSeq, CancelBytes
    <3>5. packet'.op = EXIT /\ packet'.name_len = 0 /\ packet'.data_len = 0
      BY ZenonT(60), <3>1, <3>4, <1>0, <1>6, FilledFits, TermSeq, TermLengths
    <3>6. pc' = "start"
      BY <3>1, <3>5, <1>6, <2>1, AfterFits
    <3>7. AtEnd'
      BY Zenon, <3>1, <3>4, <3>5, <3>6, <1>0, <1>6 DEF AtEnd, EXIT
    <3> QED
      BY Zenon, <3>7
  <2> QED
    BY Zenon, <1>4, <2>2, <2>3, <2>4, <2>5
<1> QED
  BY Zenon, <1>1, <1>5, <1>6

LEMMA InvNext == ShortNames /\ Inv /\ [Next]_vars => Inv'
<1> SUFFICES ASSUME ShortNames, Inv, [Next]_vars PROVE Inv'
  OBVIOUS
<1>0. Types /\ (pc # "off" /\ ~stolen => InStep)
  BY Zenon DEF Inv
<1>1. Types'
  BY Zenon, <1>0, TypesNext
<1> SUFFICES ASSUME pc' # "off", ~stolen' PROVE InStep'
  BY Zenon, <1>1 DEF Inv
<1>2. CASE UNCHANGED vars
  BY Zenon, <1>0, <1>2 DEF vars, InStep, InHeader, InName, InData, AtWork, InTerm, AtEnd, HeaderRead,
     Sendable, HeaderOf, FromName, FromData, Term, EXIT, Request
<1>3. CASE Boot
  BY Zenon, <1>0, <1>3, StepBoot
<1>4. CASE GetByte
  <2>1. pc # "off" /\ ~stolen
    BY <1>4 DEF GetByte, Reading
  <2> QED
    BY Zenon, <2>1, <1>0, <1>4, StepGetByte
<1>5. CASE ShellGets
  BY Zenon, <1>5 DEF ShellGets
<1>6. CASE Working
  <2>1. pc \in {"start", "use"} /\ UNCHANGED <<line_vars, buf, packet>>
    BY Zenon, <1>0, <1>6, WorkingEffect
  <2>2. pc # "off" /\ ~stolen
    BY <2>1 DEF line_vars
  <2> QED
    BY Zenon, <2>2, <1>0, <1>6, StepWorking
<1>7. CASE Classify
  BY Zenon, <1>7 DEF Classify
<1> QED
  BY Zenon, <1>2, <1>3, <1>4, <1>5, <1>6, <1>7 DEF Next, Working, Timeout

(* The inductive invariant, of every run in which no name has the length     *)
(* that the header takes for zero.                                           *)
THEOREM UartInvariant == ShortNames => (Spec => []Inv)
<1>1. Init => Inv
  BY Zenon, TypesInit DEF Inv, Init
<1> SUFFICES ASSUME ShortNames PROVE Spec => []Inv
  OBVIOUS
<1>2. Inv /\ [Next]_vars => Inv'
  BY Zenon, InvNext
<1> QED
  BY <1>1, <1>2, PTL DEF Spec

(* Unless the shell takes a byte, main() never waits for bytes nobody sends. *)
THEOREM UartNeverStarved == ShortNames => (Spec => []NeverStarved)
<1>1. Inv => NeverStarved
  <2> SUFFICES ASSUME Inv, ~stolen, pc # "off", line = << >>, Reading PROVE FALSE
    BY Zenon DEF NeverStarved
  <2>1. Types /\ TypeOK /\ InStep /\ sent \in Sendable
    BY Zenon DEF Inv, Types, InStep
  <2>2. Len(buf) < FieldLen /\ buf \in Seq(Byte) /\ Len(buf) \in Nat
    BY <2>1 DEF TypeOK
  <2>3. buf \o line = buf
    BY Zenon, <2>2, Empty
  <2>4. CASE InHeader
    <3>1. pc = "header" /\ buf = HeaderOf(sent) \o FromName(sent)
      BY Zenon, <2>3, <2>4 DEF InHeader
    <3>2. Len(buf) = 4 + Len(FromName(sent)) /\ Len(FromName(sent)) \in Nat
      BY Zenon, <3>1, <2>1, SentStream, ConcatLength
    <3> QED
      BY <3>1, <3>2, <2>2, FieldCases
  <2>5. CASE InName
    <3>1. pc = "name" /\ buf = sent[2] \o FromData(sent) /\ packet.name_len = Len(sent[2])
      BY Zenon, <2>1, <2>3, <2>5, SentStream DEF InName, HeaderRead
    <3>2. Len(buf) = Len(sent[2]) + Len(FromData(sent)) /\ Len(FromData(sent)) \in Nat /\ Len(sent[2]) \in Nat
      BY Zenon, <3>1, <2>1, SentStream, SentParts, ConcatLength
    <3> QED
      BY <3>1, <3>2, <2>2, FieldCases
  <2>6. CASE InData
    <3>1. pc = "data" /\ buf = sent[3] \o Term /\ packet.data_len = Len(sent[3])
      BY Zenon, <2>1, <2>3, <2>6, SentStream DEF InData, HeaderRead
    <3>2. Len(buf) = Len(sent[3]) + 4 /\ Len(sent[3]) \in Nat
      BY Zenon, <3>1, <2>1, TermSeq, SentParts, ConcatLength
    <3> QED
      BY <3>1, <3>2, <2>2, FieldCases
  <2>7. CASE InTerm
    <3>1. pc = "header" /\ Len(buf) = 4
      BY Zenon, <2>3, <2>7, TermSeq DEF InTerm
    <3> QED
      BY <3>1, <2>2, FieldCases
  <2> QED
    BY <2>1, <2>4, <2>5, <2>6, <2>7 DEF InStep, AtWork, AtEnd, Reading
<1> SUFFICES ASSUME ShortNames PROVE Spec => []NeverStarved
  OBVIOUS
<1>2. Spec => []Inv
  BY UartInvariant
<1> QED
  BY <1>1, <1>2, PTL

(* A run of the platform in which the shell takes no byte is filed as CLEAN  *)
(* only if the operation sent, and no other, was carried out, once.          *)
THEOREM UartClean == ShortNames => (Spec => CleanUndisturbed)
<1>1. Inv /\ [Next]_vars => [~stolen /\ Classify /\ Outcome = "CLEAN" => done = <<sent>>]_vars
  <2> SUFFICES ASSUME Inv, ~stolen, Classify, Outcome = "CLEAN" PROVE done = <<sent>>
    OBVIOUS
  <2>1. "OP_DONE" \in log
    BY DEF Outcome
  <2>2. InStep
    BY Zenon DEF Inv, Classify
  <2>3. done # << >>
    BY Zenon, <2>1, <2>2 DEF InStep
  <2> QED
    BY Zenon, <2>2, <2>3 DEF InStep, InHeader, InName, InData, AtWork, InTerm, AtEnd
<1> SUFFICES ASSUME ShortNames PROVE Spec => CleanUndisturbed
  OBVIOUS
<1>2. Spec => []Inv
  BY UartInvariant
<1> QED
  BY <1>1, <1>2, PTL DEF Spec, CleanUndisturbed
===============================================================================
