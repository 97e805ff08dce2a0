# A verification project for the FatFs build and its UART replay

This directory holds TLA+ models of the code in `src/`, the TLC configurations
that check them on small instances, and theorems about them with proofs checked
by TLAPS. `PROJECT.json` lists components, runs, the source lines behind every
definition, hazards, findings and theorems.

## The system

The repository fuzzes FatFs (`src/filesystem_code/ff.c`) on the host with AFL++
and replays the inputs on a CHERI-Zephyr firmware.

- **FatFs.** Layers, from the bottom: a RAM disk (`diskio_fuzz.c`); the disk
  access window (`move_window`, `sync_window`, `sync_fs`), a single sector
  buffer shared by FAT, directories and file data because both builds set
  `FF_FS_TINY`; FAT entries (`get_fat`, `put_fat`); cluster chains
  (`create_chain`, `remove_chain`); directories (`dir_*`); path names
  (`create_name`, `follow_path`); the volume (`mount_volume`, `f_mount`,
  `f_mkfs`); and the calls: `f_open`, `f_read`, `f_write`, `f_lseek`,
  `f_truncate`, `f_sync`, `f_close`, `f_stat`, `f_unlink`, `f_mkdir`,
  `f_rename`, `f_opendir`, `f_readdir`, `f_getfree`.
- **Harnesses.** `harness*.c` call these in fixed sequences on a fresh image.
- **Replay.** `replay_uart.sh` boots the virtual platform once per input, pipes
  a packet of `send_packet.py` into its UART, and classifies the log. The
  firmware's `main.c` reads packets, runs one operation on a fresh RAM disk and
  acknowledges it. `replay_shell.sh` and `run_qemu_replay.sh` are variants.

The host configuration (`ffconf.h` with `ffconf_fuzz_override.h`) leaves out
exFAT, long names, file locks, re-entrancy, fast seek, trim and relative paths.
FatFs runs one call at a time: concurrency enters only as the order of calls, as
disk calls that fail, as power loss and remount, and, in the replay, as two
threads on one UART.

## Modules

| Module | Models | Checked by |
|---|---|---|
| `SectorWindow` | window, write-back, FAT mirror, direct transfers, mount | `window_*` runs, proofs |
| `LogicalVolume` | abstract: an array of sectors, one may be pending | `SectorWindow` implements it |
| `ClusterChain` | `create_chain`, `remove_chain`, free count, FSInfo | `chain_*` runs, proofs |
| `ClusterPool` | abstract: a pool of clusters, a sequence per object | `ClusterChain` implements it |
| `FileIO` | one open file: `f_open` … `f_close` | `file_*` runs, proofs |
| `ByteFile` | abstract: a byte sequence with a pointer | `FileIO` implements it |
| `FatTable` | `get_fat`, `put_fat` over bytes, 12, 16 and 32 bits | `volume_life`, proofs |
| `Volume` | `f_mkfs`, `f_mount`, `mount_volume`, `validate`, `put_fat` on a mounted FAT | `volume_life`, proofs |
| `PathName` | `create_name`, `get_fileinfo` | `directory_tree`, `path_signed` |
| `Directory` | `dir_*`, `follow_path`, the calls that work on names, a listing under way | `directory_tree`, `path_signed` |
| `Durability` | window, FAT, directories and files together, one step per write, power loss | `durability_cuts` |
| `UartReplay` | packets, firmware loop, shell, classification | `uart_*` runs, proofs |
| `MC*` | values of constants, initial disks, symmetry sets | |
| `SectorWindowProofs`, `ClusterChainProofs`, `ClusterChainRefinement`, `FileIOProofs`, `FileIORefinement`, `VolumeProofs`, `VolumeFormat`, `UartReplayProofs` | theorems | TLAPS |

The layers are linked through their interfaces: `ClusterChain` reads and writes
FAT entries as whole values because `SectorWindow` shows a sector reads as what
was last stored in it and `FatTable` that an entry does; `FileIO` takes clusters
in the way `ClusterChain` shows they can be taken, a cluster lost at a disk error
included. `Durability` puts window, FAT, directories and files into one model,
each reduced to what the order of disk writes depends on.

Operators ending in `_f` are faulty variants of the operator after them. No action
uses them. Substituting one shows that a property can fail.

### SectorWindow

`win`, `winsect`, `wflag` and `fsi_flag` are the fields of `FATFS`. One action per
way the code uses the window: `Access` (`move_window` to look), `Modify`
(`move_window`, change bytes, `wflag = 1`; `put_fat` and every update of an
entry), `WriteHead` (`f_write` of part of a sector from its start, with the
growing edge that is not loaded), `WriteThrough` (whole sectors past the window),
`DirClear`, `SyncFs`, `Mount`. Each takes the disk's answers as a parameter.
A refused call leaves the disk as it was, which is what `diskio_fuzz.c` does.
The history variable `dropped` holds the sectors whose write was refused and
whose contents the code does not keep: the second FAT copy (result ignored,
ff.c:1069), FSInfo (ignored, ff.c:1130), the rest of a cluster in `dir_clear`.
Properties say what holds outside `dropped`. A mount whose read of the boot sector
is refused is no step: it leaves no volume to work on, and the next mount starts
like it.

### ClusterChain

One step per FAT access of `create_chain` (`Stretch`, `Probe`, `Scan`, `Mark`,
`Link`) and `remove_chain` (`RemoveAll`, `RemoveTail`, `FreeOne`), each of which
may return a disk error and abandon the call. `owner` and `pos` are history: whose
chain a cluster is in, and where. `Mount` reloads the counts from FSInfo; a volume
is mounted anew only when no allocation change waits for `sync_fs`, so an unclean
remount is outside this module. An access that fails leaves the entry as it was.
That is so on FAT16 and FAT32, and on FAT12 where the entry lies in one sector, as
all entries do on the 128-sector disk of both builds; a FAT12 entry across two
sectors may be left half written, which `Volume` has and this module has not.

### FileIO

One step per turn of the loops of `f_read`, `f_write` and `f_lseek`; the other
calls are one step. A sector is `<<cluster, index>>`. Bytes the program has not
written are `Junk`. `Others` lets another file take and return clusters between
calls. `MaxDword` stands for 0xFFFFFFFF. A write that fails may spoil the sectors
it was writing. The file found by name is fixed: the lookup is in `Directory`.
Modes are read-only and read-write; the read permission test of a
file opened for writing only is left out.

### FatTable and Volume

`FatTable` has the arithmetic of `get_fat` and `put_fat`; a `DWORD` is the sequence
of its four bytes. `put_fat` is cut at its second `move_window`, where a 12-bit
entry may continue in the next sector.

`Volume` runs `f_mkfs` step by step: `f_mkfs` takes the parameters, `MkfsSize` is one
turn of the loop that looks for a cluster size, then boot sector and FSInfo,
FATs, root directory and partition table are written in the code's order. Any
write may be refused (`MkfsRefused`), possibly after part of an area; a power loss
leaves the same disk. Numbers are the code's own: 512-byte sectors, the limits of
the FAT types, `N_SEC_TRACK` 63. `Wrapped` stands for a `DWORD` difference below
zero, which the code only compares. Of the disk the model keeps the boot sectors,
FSInfo, and the layout the FATs and the root were last cleared for. `mount_volume`
is `check_fs`, `find_volume`, `Geometry` and `Accepted`. `obj` is one open object
with its FATFS and mount ID, `fresh` the history of whether it is of this mount.
`Probe` bounds the clusters whose entries are looked at: the first ones, those at
a sector boundary and the last.

### PathName and Directory

A character stands for a class the code tells apart: a letter in both cases, an
extended letter in both cases, 0xE5 and its replacement 0x05, an illegal one, dot,
separator, blank. `SignedChar` is the sign of `char`, on which ff.c:3060 depends: it is
signed on the host (x86) and unsigned on the firmware (RISC-V). The fields of a name
have `Body` and `Full` characters.

A table is a sequence of slots (`end`, `del`, `dot`, `used`). One action per call,
with the whole of `follow_path`, `dir_find`, `dir_alloc`, `dir_register` and
`dir_remove` in it: FatFs runs a call to its end and the disk does not fail here.
The listing `rd` is an open `DIR` object that is read between other calls. `since`
and `seen` are history: what was there all the time, what was shown. A directory
that is removed has no reader, and only one file object and one reader are used,
as FatFs asks for when `FF_FS_LOCK` is 0.

### Durability

`vol` is the volume as FatFs sees it, `dur` what is on the disk; they differ in the
sector of the window only. A call is the sequence of its writes (`call.todo`), each
made by one `Step`, which first writes the window back when it has to move. `Crash`
may come between any two, `DiskError` ends the call and runs its error path.
`Read` is any lookup that moves the window. `kept` is the length of a file at its
last successful `f_sync`. `hurt` says that power went, or a disk error came, at one of
the places where the code leaves the volume damaged; from there nothing more is
claimed. `Exposed` names these places: from the first move of the window after
`f_rename` made the second entry to its `sync_fs`, from linking to clearing a cluster
in `dir_next`, from `f_truncate` to the write of the entry. The first is marked in the
code (ff.c:5227) on the path of a directory that gets another parent; a file, or a new
name in another sector of the same directory, is exposed too and not marked. For
each of them TLC reports a damaged volume when it is taken out of `Exposed` or of
`hurt`. A directory cluster has one entry and a file cluster one sector.

### UartReplay

Bytes are numbers below `Base`, and the constants keep the relations of the code:
the exit code is the largest byte, the length has two bytes, the name length is
taken modulo `MAX_NAME`. `send_packet.py` cuts names to `MAX_NAME` bytes. A name of
exactly that many would be read as an empty one; the runs use shorter names
(`NameLens`), as `replay_uart.sh` does, which always sends `fuzz.txt`. All seven
operations on a clean disk are one, since their file system calls change nothing
the replay depends on. The log is the set of words the script greps for; the name that
`OP_START` prints (main.c:115) has none of them in it. The shell is external: prj.conf
starts its polling backend on the UART that `main()` polls.

## Runs

Passing runs:

| Run | Instance | Shows |
|---|---|---|
| `window_faults` | 4 sectors of 2 bytes, two FATs, failing disk | coherence, mirror, reads, durability, no stray write |
| `window_fat32` | 5 two-byte sectors, FSInfo, one FAT, a cluster of 2 sectors | refinement of `LogicalVolume` |
| `chain_faults` | 3 clusters, 2 objects, FSInfo, failing FAT accesses | chains sound, no internal error, no leak, full means full, no foreign change, calls end, refinement of `ClusterPool` |
| `file_calls` | 2 clusters of two 2-byte sectors, size limit 5, transfers up to 4, failing disk | refinement of `ByteFile` with runs of sectors, position, size and entry backed by the chain |
| `volume_life` | drives of 7 sizes, 15 parameter sets, 2 formats, 4 calls, failing disk | what is formatted mounts as laid out, areas fit, half formats, stale objects, `put_fat`, `f_mkfs` ends |
| `directory_tree` | 2 files, 2 directories, root of 2 slots, clusters of 3, unsigned `char` | tables and tree sound, listings, names, paths |
| `durability_cuts` | 3 clusters, 2 files, 2 names, 5 calls, 1 cut | what a power loss or disk error leaves |
| `uart_replay` | 2 inputs, names of 0 and 1 bytes, data up to 2 | no starvation and CLEAN means that exactly the request sent was done, while the shell takes nothing; buffers, every input filed in any case |

The bounds let the interesting cases happen. Two sectors per cluster are the
least that tell a sector boundary from a cluster boundary, two bytes per sector
the least for a partial sector. Three clusters and two objects give fragmented
chains, a full volume, and a search that wraps around. A size limit that is not a
multiple of the cluster size makes the pointer wrap-around reachable, as
0xFFFFFFFF is. `Val` has one member in the `FileIO` runs; with `Junk`, what was never
written, there are two values to tell apart. The drive sizes are the RAM disk's,
the least that can be formatted, and sizes next to a limit of a FAT type, a
cluster size or a 16-bit field. A root of two slots and clusters of three (two dot
entries and one more) make full tables and stretching common; the five paths given
to the calls have both cases, doubled separators, the character of the deletion
mark, a `.` segment and the root, and `PathMeans` looks up all paths of up to three
characters. The paths given to the calls have no extended character behind a separator,
so the sign of `char` changes no step of the run, only what `PathMeans` looks up. One
cut reaches every interruption of a history; four calls with two cuts were checked
too.

Symmetry: clusters and byte values of `FileIO`, files and directories of `Directory`,
names, files and the two clusters of one FAT sector of `Durability` are
interchangeable, since no expression orders them; those runs check no liveness.
`directory_tree` identifies states that differ only in what the last call returned,
which no step and no property reads. Of the two causes of a failing
free count, `chain_faults` has failing FAT accesses; failing accesses to FSInfo are
the subject of `chain_stale`.

Runs that end in a violation, each showing a disagreement between the code and
what it says of itself:

- `chain_stale`: a lost FSInfo update makes `create_chain` answer "No free
  cluster" while one is free.
- `file_resync`: `f_sync` clears `FA_MODIFIED` even when `sync_fs` failed, so a
  retry, or `f_close`, reports `FR_OK` without flushing.
- `path_signed`: where `char` is signed, `create_name` takes a separator with a byte above
  127 behind it for the end of the path ("Set last segment flag if end of the path",
  ff.c:3060), and the call works on the path before it. The property is the one that
  holds in `directory_tree`, where `char` is unsigned; here it fails before any call,
  since `A/x` with `x` such a byte is answered like `A`.
- `uart_stolen`: a byte taken by the shell makes the firmware run another
  request, and the input is filed as `CLEAN`.

### Fairness

`ClusterChain` and `Volume` assume weak fairness of the steps of a running call: FatFs
is called as a function and nothing else runs meanwhile. `UartReplay` assumes it of
the script's next turn and of `timeout`, which ends every platform run; nothing
is assumed of the firmware or the shell. Deadlock checking is off in the
`UartReplay` runs because the script ends, and in `volume_life` and
`durability_cuts` because the number of calls is bounded. The other models have no
fairness and no liveness property.

## Proofs

For every value of the constants that satisfies the assumptions stated with them
(`Geometry` in `SectorWindow`, `Params` in `ClusterChain`, `Sizes` in `FileIO` and in
`UartReplay`, `Kinds` and `NullApart` in `Volume`):

- **`SectorWindowProofs`.** The inductive invariant is `TypeOK /\ Coherent /\
  FatMirror`. `Coherent` needs the part about dirty windows (never on a reserved
  sector or the second FAT), without which a write-back could break the mirror.
  From it follow `WindowReadsAgree`, the action property `WindowNoStrayWrite`,
  `WindowSyncDurable`, and, when the disk refuses nothing, `WindowRefinement`:
  each action maps to a step of `LogicalVolume`. The refinement adds no invariant
  of its own. It needs the assumption because a refused FAT or FSInfo write
  is lost.
- **`ClusterChainProofs`.** The inductive invariant `Inv` adds `Cursor` to
  `ChainsSound`: what the running function knows of its locals (the cluster to be
  marked is free, the marked one is linked from nowhere, the cluster to be freed
  is nobody's and linked from nowhere). It gives `ChainsAreSound`,
  `ChainNoInternalError` and `ChainNoForeignChange` with any disk errors that leave a
  FAT entry whole, old or new (so for every FAT16 and FAT32 volume, and FAT12 ones
  without an entry across two sectors, like the RAM disk's). On top of
  it `CountInv` counts a marked but unlinked cluster as still counted free, and
  relates FSInfo to the count; `SearchInv` says that every cluster the search has
  passed is in use. They give `ChainCountNotUnder` and `ChainFullMeansFull` under
  `Trusted`: FSInfo is not used, or accesses to it do not fail. Accesses to the
  FAT may fail as they like. The run `chain_stale` shows that the condition is
  needed.
- **`ClusterChainRefinement`.** `ChainNoLeak` needs to know more than that chains are
  sound. `EndLast` says that the end mark of a chain is at its last place. `Strays`
  says which clusters may be in use and in no chain while a function runs: the one
  `create_chain` has marked and not linked, and in `remove_chain` the rest of the
  chain, which lies from the cluster to be freed on, in one piece, so that freeing
  stops at its end and not before. Once a FAT access has failed nothing is claimed.
  `ChainRefinement` holds with failing accesses too. The abstract sequence of an
  object is read off `owner` and `pos`; that it is one needs `NoGap` (every place up
  to that of a cluster is taken) and `HasEnd` (a chain has an end mark), which with
  the invariants above are `Places`. `StepEffect` reduces the actions to seven
  effects on FAT, owners and places (nothing, mark, found, extend, drop, trim, free);
  each effect keeps `Places` and maps to a step of `ClusterPool` or to none.
- **`FileIOProofs`.** The inductive invariant `Inv` ties the file object to the chain
  and to the entry on the disk, inside the loops too. `ChainOK`: no cluster is in the
  chain twice or free. `Fits`: an open file is not longer than its chain, without
  which the walks could run off it. `Running`: what the loop of the running call has
  still to do stays inside the file (`f_read`), below the size limit (`f_write`) or
  inside the chain walked so far (`f_lseek`). `Position` is needed as it stands,
  since a turn starts from the current cluster and sector. `EntryOK` says, for
  running and failed calls too, what `EntryFollows` and `EntryBacked` say between
  calls and after `f_close`. Disk calls may fail at every turn. The arithmetic of
  clusters, sectors and bytes is in lemmas of its own (`Place`, `InCluster`), since
  it multiplies unknowns.
- **`FileIORefinement`.** `FileRefinement`: every step of `FileIO` maps to a step of
  `ByteFile` or to none. A turn of `f_write` is the hard one. `StoreEffect` says which
  bytes of the clusters it changes, `Apart` that two positions of a file never share
  a byte of the disk, and from these `KeptBytes` and `NewBytes` say that the bytes
  before and after the turn's range stay and those in it are what was given.
- **`VolumeProofs`, FAT entries.** No state: the packing of FAT entries, for every
  cluster, every table of bytes and every value. `PutGet`: `get_fat` returns what
  both halves of `put_fat` stored. `PutOther`: no other entry changes, after the
  first half as after both. 12-bit entries rest on three facts about the byte that
  two entries share (`LowHalf`, `HighHalf`, `Nibbles`) and on where entries start
  (`Bytes12`).
- **`VolumeProofs`, mounts.** Two invariants over any sequence of formats, mounts
  and calls. `MountInv` is `Objects` (only the registered FATFS is mounted), `Counted`
  (every new ID used up an `f_mount` or an `f_mkfs`) and `Older` (a stale object has
  a smaller ID than the mounted volume). It gives `VolumeStaleRefused` under
  `NoWrap`, fewer calls than the `WORD` counter has values; after 65536 mounts an
  old object may be taken for a new one. `FatInv` says that the FAT of a mounted
  volume has the entries of its geometry, is as `f_mkfs` left it until the first
  `put_fat`, and inside `put_fat` is what the first half made of such a FAT. With
  `PutGet` and `PutOther` it gives `VolumeFatOwnEntry`, for drives of any size
  and whichever moves fail.
- **`VolumeFormat`.** `VolumeFormatMounts`, `VolumeMountedComplete` and
  `VolumeAreasFit`, for drives of every size, every parameter set and whichever
  writes are refused. The inductive invariant `FormatInv` says that the loop of
  `f_mkfs` runs on good parameters (`GoodParm`), that whatever it goes on with is a
  good layout (`GoodLayout`: the number of clusters is that of its FAT type, its FAT
  has an entry for each, its areas fill the volume), how much of it is on the disk
  at each step, and that a mounted FATFS has the geometry of the last complete
  format. `LayoutGood` is the heart: the FAT is sized for the clusters of the whole
  volume, before the FATs are taken off, and the alignment of the data area makes
  FATs or reserved area larger, so the entries suffice; and a difference below zero,
  which is a huge `DWORD`, passes no test of the loop (`WrappedLarge`). `VbrGeometry`
  takes the layout through the 8-, 16- and 32-bit fields of the boot sector and
  back.
- **`UartReplayProofs`.** `UartTypes` holds for any bytes and any thefts of the shell:
  remainder and clipping keep the lengths within the buffers. The two other theorems
  are under `ShortNames`, no name as long as `MAX_NAME`, and their invariant says where
  `main()` is in what was sent (`InStep`): in the header, the name or the data of the
  input's packet, at work on it, in the termination packet, or past it. In each
  phase the bytes read of the field and those still on the line are together the
  rest of what was sent. From it follow `UartNeverStarved`, since a field is never
  longer than the rest, and `UartClean`.

Only model-checked:

- `Directory`: a path is walked by a fold over its segments, and what a fold
  computes for every path needs an induction that the provers do not do by
  themselves; carried out by hand it makes proofs too long to be checked in
  reasonable time, and they are not kept here;
- `Durability`: what a power loss leaves is defined by following chains and
  directories to their end, recursively, and needs such an induction too;
- liveness (`Terminates`, `FormatEnds`, `AllFiled`), out of the prover's reach.

## What the models showed besides

These are consequences of the code that no text of the repository contradicts, so
no run states them as a disagreement:

- `f_mkfs` can report `FR_OK` for a volume without a single cluster: the alignment of
  the data area eats up what the test at `ff.c:6249` had left. `mount_volume` refuses
  that volume (`ff.c:3555`). `FormatMounts` therefore speaks of layouts with a cluster.
- A segment that is a single dot passes `create_name` (`ff.c:3057`) as a blank name.
  Such an entry can be made, and a listing shows it with an empty name.
- `f_rename` moves a directory into its own subtree and reports `FR_OK` (`ff.c:5214`).
  The directory is then out of reach from the root. `TreeSound` excludes exactly
  this call.

## Not modelled

- Malformed volumes: all models start from a formatted or an empty disk, and from
  what errors and power cuts make of it. Images the fuzzer damages are the business
  of the harnesses.
- Code the configuration removes: exFAT, long names, locks, re-entrancy, fast seek,
  `f_expand`, `f_forward`, the string functions, labels, `f_chmod`, relative paths. It
  is about two thirds of `ff.c`. Of the roughly 1570 lines that are left, the modules
  stand for nine in ten; the rest are declarations, the loads and stores of
  little-endian words, and `get_ldnumber` (the drive number in front of a path, of
  which the build has one).
- Timestamps, and attributes other than those that steer control; CHS fields and
  serial number of the boot sector; `disk_status`, which the RAM disk always
  answers with ready.
- The AFL++ harnesses: straight-line sequences of calls which, on a sound volume, are
  actions of `FileIO`, `Directory` or `Volume`.
- `replay_shell.sh`, `run_qemu_replay.sh`: scripts of the same shape as
  `replay_uart.sh` around an expect script that is not in the repository.
- Disk images as C arrays, seed images and the generated build tree of the firmware.
  They are the bulk of the lines under `src/` and have no behaviour of their own, so
  the lines that are modelled are a small share of all lines there.

## Plan

What is left are proofs: `Directory`, and the part of `Durability` that needs no induction
(`vol` and `dur` differ in the sector of the window only).
