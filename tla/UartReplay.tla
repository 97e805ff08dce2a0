------------------------------ MODULE UartReplay ------------------------------
(***************************************************************************)
(* The replay of fuzz inputs over the serial line.  For each input file    *)
(* replay_uart.sh boots the virtual platform, pipes the packet made by     *)
(* send_packet.py into its UART and, when `timeout` ends the platform,     *)
(* files the outcome by what the log holds.  The firmware (main.c) reads   *)
(* packets byte by byte, runs the operation on a freshly mounted RAM disk  *)
(* and acknowledges it.  The Zephyr shell, started on the same UART by     *)
(* prj.conf, takes bytes from it as well.                                  *)
(*                                                                         *)
(* A byte is a number below Base, and the constants of the code keep their *)
(* relations: the exit code is the largest byte, the data length has two   *)
(* bytes, the name length is taken modulo MAX_NAME.                        *)
(***************************************************************************)
EXTENDS Integers, Sequences

CONSTANTS
  Base,       \* bytes are 0 .. Base - 1
  MAX_NAME,
  MAX_DATA,
  NameLens,   \* lengths of the names given to send_packet.py
  Files       \* number of inputs to replay

ASSUME Sizes ==
  /\ Base \in Nat /\ Base > 3 /\ MAX_NAME \in 1 .. Base - 1
  /\ MAX_DATA \in 1 .. Base * Base - 1
  /\ NameLens \subseteq Nat /\ Files \in Nat

VARIABLES
  todo,       \* inputs not yet classified
  sent,       \* the packet of the current replay
  line,       \* bytes in the pipe and the UART
  pc,         \* where main() is; "off": no platform runs; "halted": a fault
  buf,        \* the bytes of the field being read
  packet,     \* op, name_len, data_len, name and data as main() has them
  mounted,    \* the RAM disk is mounted
  log,        \* the kinds of lines the log holds
  done,       \* the operations completed since boot
  results,    \* the outcomes written to the CSV file
  stolen      \* history: the shell has taken a byte since boot

vars == <<todo, sent, line, pc, buf, packet, mounted, log, done, results, stolen>>
line_vars == <<todo, sent, line, results, stolen>>

Byte == 0 .. Base - 1
OP_CLEAN == 1                 \* any of OP_WRITE .. OP_TRUNCATE
OP_MOUNT_RAW == 2
EXIT == Base - 1              \* 0xFF
NameByte == 1 .. Base - 2     \* an argument of a command: no NUL, no 0xFF in UTF-8
Blank == [op |-> 0, name_len |-> 0, data_len |-> 0, name |-> << >>, data |-> << >>]
Request(p) == <<p.op, p.name, p.data>>

-----------------------------------------------------------------------------
(* send_packet.py: the name and the data are cut to 32 and 4096 bytes, and a *)
(* termination packet follows.                                               *)
Cut(s, n) == IF Len(s) > n THEN SubSeq(s, 1, n) ELSE s

(* Faulty variant: no termination packet. *)
Stream_f(op, name, data) ==
  <<op, Len(name), Len(data) \div Base, Len(data) % Base>> \o name \o data

Stream(op, name, data) ==
  <<op, Len(name), Len(data) \div Base, Len(data) % Base>> \o name \o data \o <<EXIT, 0, 0, 0>>

Init ==
  /\ todo = Files /\ sent = << >> /\ line = << >>
  /\ pc = "off" /\ buf = << >> /\ packet = Blank
  /\ mounted = FALSE /\ log = {} /\ done = << >> /\ results = << >>
  /\ stolen = FALSE

(* One turn of the loop of replay_uart.sh begins: the platform boots and the *)
(* packet goes into the pipe.                                                *)
Boot ==
  /\ pc = "off" /\ todo > 0
  /\ \E op \in Byte, n \in NameLens, d \in 0 .. MAX_DATA :
       \E name \in [1 .. n -> NameByte], data \in [1 .. d -> Byte] :
         /\ sent' = <<op, Cut(name, MAX_NAME), data>>
         /\ line' = Stream(op, Cut(name, MAX_NAME), data)
  /\ pc' = "header" /\ log' = {"FUZZ_READY"}
  /\ UNCHANGED <<todo, buf, packet, mounted, done, results, stolen>>

-----------------------------------------------------------------------------
(* Faulty variant: the remainder is taken of one too many. *)
NameLength_f(b) == b % (MAX_NAME + 1)
NameLength(b) == b % MAX_NAME

(* The two bytes of the data length, clipped to the buffer. *)
DataLength(hi, lo) ==
  LET n == hi * Base + lo IN IF n > MAX_DATA THEN MAX_DATA ELSE n

(* Faulty variant: a packet without a name has no data. *)
After_f(f, p) ==
  IF f = "header" /\ p.name_len > 0 THEN "name"
  ELSE IF f = "name" /\ p.data_len > 0 THEN "data"
  ELSE "start"

(* The field read next after field f of packet p; empty fields are skipped. *)
After(f, p) ==
  IF f = "header" /\ p.name_len > 0 THEN "name"
  ELSE IF f \in {"header", "name"} /\ p.data_len > 0 THEN "data"
  ELSE "start"

FieldLen == CASE pc = "header" -> 4
              [] pc = "name"   -> packet.name_len
              [] pc = "data"   -> packet.data_len

(* The packet once the bytes s of the field at pc are read. *)
Filled(s) ==
  CASE pc = "header" -> [Blank EXCEPT !.op = s[1], !.name_len = NameLength(s[2]),
                                      !.data_len = DataLength(s[3], s[4])]
    [] pc = "name"   -> [packet EXCEPT !.name = s]
    [] pc = "data"   -> [packet EXCEPT !.data = s]

Reading == pc \in {"header", "name", "data"}

(* uart_getc in uart_read_exact: one byte arrives; the last byte of a field  *)
(* lets main() go on, the last one of a packet prints OP_START.              *)
GetByte ==
  /\ Reading /\ line # << >>
  /\ line' = Tail(line)
  /\ LET s == Append(buf, Head(line)) IN
     IF Len(s) < FieldLen
     THEN buf' = s /\ UNCHANGED <<pc, packet, log>>
     ELSE /\ buf' = << >> /\ packet' = Filled(s) /\ pc' = After(pc, packet')
          /\ log' = IF pc' = "start" THEN log \cup {"OP_START"} ELSE log
  /\ UNCHANGED <<todo, sent, mounted, done, results, stolen>>

(* The shell's poll of the same UART takes a byte. *)
ShellGets ==
  /\ pc # "off" /\ line # << >>
  /\ line' = Tail(line) /\ stolen' = TRUE
  /\ UNCHANGED <<todo, sent, pc, buf, packet, mounted, log, done, results>>

-----------------------------------------------------------------------------
(* The operation is over: OP_DONE and FUZZ_ACK are printed and main() reads  *)
(* the next header.                                                          *)
OpDone ==
  /\ pc' = "header"
  /\ log' = log \cup {"OP_DONE"}
  /\ done' = Append(done, Request(packet))

(* The switch on op. mount_clean zeroes the disk and mounts it, whatever     *)
(* fs_mount says; OP_MOUNT_RAW goes on only when its image could be mounted. *)
Start ==
  /\ pc = "start" /\ pc' = "use"
  /\ \/ packet.op = OP_CLEAN /\ mounted' \in BOOLEAN
     \/ packet.op = OP_MOUNT_RAW /\ mounted' = TRUE
  /\ UNCHANGED <<line_vars, buf, packet, log, done>>

(* An image that cannot be mounted, and an unknown operation. *)
NoUse ==
  /\ pc = "start" /\ packet.op \notin {OP_CLEAN, EXIT}
  /\ OpDone
  /\ UNCHANGED <<line_vars, buf, packet, mounted>>

Exit ==
  /\ pc = "start" /\ packet.op = EXIT
  /\ pc' = "exit" /\ log' = log \cup {"FUZZ_EXIT"}
  /\ UNCHANGED <<line_vars, buf, packet, mounted, done>>

Unmount == mounted' = FALSE

(* The file system calls of the operation return, with or without an error, *)
(* and the disk is unmounted.                                               *)
Finish ==
  /\ pc = "use"
  /\ Unmount
  /\ OpDone
  /\ UNCHANGED <<line_vars, buf, packet>>

(* A capability fault in a file system call stops the firmware. *)
Fault ==
  /\ pc \in {"start", "use"} /\ packet.op \in {OP_CLEAN, OP_MOUNT_RAW}
  /\ pc' = "halted" /\ log' = log \cup {"FATAL"}
  /\ UNCHANGED <<line_vars, buf, packet, mounted, done>>

-----------------------------------------------------------------------------
(* What the script greps for in the log.  OP_START also prints the name of  *)
(* the request (main.c:115), which is fuzz.txt and has neither word in it.  *)
Outcome ==
  IF "FATAL" \in log THEN "CHERI_FAULT_CAUGHT"
  ELSE IF "OP_DONE" \in log THEN "CLEAN" ELSE "STUCK"

(* `timeout` ends the platform, at any moment of its run, and the script    *)
(* files the outcome; the next run has a platform and a log of its own.     *)
Classify ==
  /\ pc # "off"
  /\ pc' = "off"
  /\ results' = Append(results, Outcome)
  /\ todo' = todo - 1
  /\ sent' = << >> /\ line' = << >> /\ buf' = << >> /\ packet' = Blank
  /\ mounted' = FALSE /\ log' = {} /\ done' = << >> /\ stolen' = FALSE

(* Faulty variant: the script waits for the firmware's exit. *)
Timeout_f == pc = "exit" /\ Classify
Timeout == Classify

Next == Boot \/ GetByte \/ ShellGets \/ Start \/ NoUse \/ Exit \/ Finish \/ Fault \/ Timeout

(* The script's loop goes on and `timeout` ends every run; nothing is asked  *)
(* of the firmware.                                                          *)
Spec == Init /\ [][Next]_vars /\ WF_vars(Boot) /\ WF_vars(Timeout)

-----------------------------------------------------------------------------
(* The packet main() holds fits its buffers, name_buf and data_buf, whatever *)
(* bytes the header had.                                                     *)
TypeOK ==
  /\ todo \in 0 .. Files
  /\ line \in Seq(Byte) /\ buf \in Seq(Byte)
  /\ pc \in {"off", "header", "name", "data", "start", "use", "exit", "halted"}
  /\ packet.op \in Byte /\ packet.name_len \in 0 .. MAX_NAME - 1
  /\ packet.data_len \in 0 .. MAX_DATA
  /\ Reading => Len(buf) < FieldLen
  /\ mounted \in BOOLEAN /\ stolen \in BOOLEAN
  /\ log \subseteq {"FUZZ_READY", "OP_START", "OP_DONE", "FUZZ_EXIT", "FATAL"}
  /\ results \in Seq({"CHERI_FAULT_CAUGHT", "CLEAN", "STUCK"})

(* Unless the shell takes a byte, main() never waits for bytes that nobody   *)
(* will send: when all are read it has met the termination packet or is at   *)
(* work.                                                                     *)
NeverStarved == ~stolen /\ pc # "off" /\ line = << >> => ~Reading

Carried == \E i \in DOMAIN done : done[i] = sent

(* An input is filed as CLEAN only if its operation was carried out.         *)
CleanMeansDone == [][Classify /\ Outcome = "CLEAN" => Carried]_vars

(* In a run of the platform in which the shell takes no byte an input is     *)
(* filed as CLEAN only if its operation was carried out once and no other    *)
(* was: bytes of one packet are never taken for those of another.            *)
CleanUndisturbed == [][~stolen /\ Classify /\ Outcome = "CLEAN" => done = <<sent>>]_vars

(* Every input is classified in the end, whatever the firmware does. *)
AllFiled == <>(todo = 0 /\ Len(results) = Files)
===============================================================================
