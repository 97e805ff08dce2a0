------------------------------ MODULE Durability ------------------------------
(***************************************************************************)
(* What a power loss or a disk error in the middle of a function of ff.c   *)
(* leaves of the volume.  FAT and directories share the one window sector, *)
(* as SectorWindow shows: a change is seen at once (vol) and reaches the   *)
(* disk (dur) when the window moves to another sector.  A function is the  *)
(* sequence of the sector changes it makes, one step for each; it may be   *)
(* cut before any of them.                                                 *)
(***************************************************************************)
EXTENDS Integers, Sequences, SequencesExt, FiniteSets

CONSTANTS
  Clus,       \* clusters of the volume, of one sector each
  FatSect,    \* the FAT sector of each cluster
  Id,         \* files that may exist
  Name,       \* names of entries
  NRoot,      \* entries of the root directory; the others have one per cluster
  MaxLen,     \* clusters of a file
  MaxCalls,   \* calls made
  MaxCuts,    \* power losses and disk errors
  Root, Free, EOC, Null

ASSUME Sizes ==
  /\ IsFiniteSet(Clus) /\ NRoot \in Nat \ {0} /\ {MaxLen, MaxCalls, MaxCuts} \subseteq Nat
  /\ DOMAIN FatSect = Clus
  /\ {Root, Free, EOC, Null} \cap (Clus \cup Id \cup Name) = {}

VARIABLES
  vol, dur,   \* the FAT and the sectors, as FatFs sees them and on the disk
  win,        \* the sector in the window
  call,       \* the running function: changes left to make, what it then leaves
  fil,        \* an open file object
  owes,       \* whether the entry on the disk names clusters f_truncate freed
  kept,       \* history: length of each file at its last successful f_sync
  hurt,       \* history: a cut or an error came where the code is exposed
  calls, cuts

disks == <<vol, dur, win>>
vars == <<disks, call, fil, owes, kept, hurt, calls, cuts>>

Table(up, n) == [kind |-> "table", up |-> up, slot |-> [j \in 1 .. n |-> Null]]
Data(id) == [kind |-> "data", by |-> id]
Wild == [kind |-> "wild"]
Entry(name, id, c, n) == [name |-> name, id |-> id, sclust |-> c, len |-> n]
IsDir(e) == e.id = Null

-------------------------------------------------------------------------------
(* Reading a volume                                                         *)

\* The chain that begins at a cluster, and whether it ends properly.
Trail(v, c) ==
  LET n == Cardinality(Clus)
      at[k \in 0 .. n] ==
        IF k = 0 THEN c ELSE LET b == at[k - 1] IN IF b \in Clus THEN v.fat[b] ELSE b
  IN [k \in 1 .. n + 1 |-> at[k - 1]]
Chain(v, c) == SelectSeq(Trail(v, c), LAMBDA x : x \in Clus)
Ends(v, c) == c = Null \/ Last(Trail(v, c)) = EOC

\* The slots of a directory in the order of dir_next, and those in use.
Slots(v, t) ==
  IF t = Root THEN [j \in 1 .. NRoot |-> <<Root, j>>]
  ELSE LET chain == Chain(v, t) IN [k \in DOMAIN chain |-> <<chain[k], 1>>]
At(v, x) == v.sec[x[1]].slot[x[2]]
Used(v, t) == {x \in ToSet(Slots(v, t)) : v.sec[x[1]].kind = "table" /\ At(v, x) # Null}

\* A directory and those below it.
Below(v, t) ==
  LET in(T) == {At(v, x).sclust : x \in {x \in UNION {Used(v, u) : u \in T} : IsDir(At(v, x))}}
      r[k \in 0 .. Cardinality(Clus)] ==
        IF k = 0 THEN {t} ELSE LET T == r[k - 1] IN T \cup (in(T) \cap Clus)
  IN r[Cardinality(Clus)]
Entries(v) == UNION {{t} \X Used(v, t) : t \in Below(v, Root)}
Ids(v) == {At(v, x[2]).id : x \in Entries(v)}
FreeIn(v) == {c \in Clus : v.fat[c] = Free}

-------------------------------------------------------------------------------
(* Sector changes                                                           *)

\* A change of a FAT entry, of an entry or ".." of a directory, of file data.
\* Harm is done when it fails ("fail"), or also when the power is lost right
\* before it ("cut"); undo is done instead of the rest when it fails.
Change(kind, at, val) == [kind |-> kind, at |-> at, val |-> val, harm |-> "no", undo |-> << >>]
Fat(c, val) == Change("fat", c, val)
Slot(x, e) == Change("slot", x, e)
Look(s) == Change("look", s, Null)
Clear(c) == Change("clear", c, Null)
SyncFs == Change("sync", Null, Null)
Harm(h, ch) == [ch EXCEPT !.harm = h]

Place(ch) ==
  CASE ch.kind = "fat" -> FatSect[ch.at]
    [] ch.kind = "slot" -> ch.at[1]
    [] OTHER -> ch.at

Made(v, ch) ==
  CASE ch.kind = "fat" -> [v EXCEPT !.fat[ch.at] = ch.val]
    [] ch.kind = "slot" -> [v EXCEPT !.sec[ch.at[1]].slot[ch.at[2]] = ch.val]
    [] ch.kind = "up" -> [v EXCEPT !.sec[ch.at].up = ch.val]
    [] ch.kind \in {"data", "through"} -> [v EXCEPT !.sec[ch.at] = Data(ch.val)]
    [] ch.kind = "clear" -> [v EXCEPT !.sec[ch.at] = Table(Null, 1)]
    [] OTHER -> v

\* Faulty variant: the window is moved without writing it back.
Moved_f(s) == dur

\* The disk after move_window to a sector.
Moved(s) == IF s = win THEN dur ELSE vol

\* The disk after a change: the direct writes of f_write and dir_clear go past
\* the window, sync_fs writes it back.
Written(ch) ==
  CASE ch.kind \in {"through", "clear"} -> Made(dur, ch)
    [] ch.kind = "sync" -> vol
    [] OTHER -> Moved(Place(ch))

\* A change inside the window needs no disk.
NeedsDisk(ch) == ch.kind \in {"through", "clear", "sync"} \/ Place(ch) # win

\* What is owed after the window was written back, if it was.
Paid(d) == IF owes = "window" /\ d = vol THEN "no" ELSE owes

\* The next change of the running function.
Step ==
  /\ call # Null /\ call.todo # << >>
  /\ LET ch == Head(call.todo)
     IN /\ vol' = Made(vol, ch)
        /\ dur' = Written(ch)
        /\ win' = IF ch.kind \in {"through", "sync"} THEN win ELSE Place(ch)
        /\ owes' = IF call.op = "sync" /\ ch.kind = "slot" /\ owes # "no" THEN "window" ELSE Paid(dur')
  /\ call' = [call EXCEPT !.todo = Tail(@)]
  /\ UNCHANGED <<fil, kept, hurt, calls, cuts>>

\* The function returns.
Return ==
  /\ call # Null /\ call.todo = << >>
  /\ call' = Null /\ fil' = call.fil /\ kept' = call.kept
  /\ UNCHANGED <<disks, owes, hurt, calls, cuts>>

\* The file object after a disk error.
Broken(ch) ==
  CASE call.op = "sync" -> [fil EXCEPT !.mod = (ch.kind # "sync")]
    [] call.op = "append" ->
         [fil EXCEPT !.err = TRUE,
                     !.sclust = IF ch.kind \in {"data", "through"} THEN call.fil.sclust ELSE @]
    [] call.op = "truncate" -> [call.fil EXCEPT !.err = TRUE]
    [] OTHER -> fil

\* The disk refuses the next change, before or after the window is written back.
DiskError ==
  /\ call # Null /\ call.todo # << >> /\ cuts < MaxCuts
  /\ LET ch == Head(call.todo)
     IN /\ NeedsDisk(ch)
        /\ \/ UNCHANGED <<dur, win>>
           \/ /\ ch.kind \notin {"through", "clear"}
              /\ dur' = vol /\ win' = IF ch.kind = "sync" THEN win ELSE Null
        /\ call' = IF ch.undo = << >> THEN Null ELSE [call EXCEPT !.todo = ch.undo]
        /\ fil' = Broken(ch)
        /\ hurt' = (hurt \/ ch.harm # "no")
  /\ owes' = Paid(dur')
  /\ cuts' = cuts + 1
  /\ UNCHANGED <<vol, kept, calls>>

\* A power loss now would leave the volume damaged.
Exposed ==
  \/ owes # "no"
  \/ call # Null /\ call.todo # << >> /\ Head(call.todo).harm = "cut"

\* Power loss, and the volume is mounted again.
Crash ==
  /\ cuts < MaxCuts /\ cuts' = cuts + 1
  /\ vol' = dur /\ win' = Null /\ call' = Null /\ fil' = Null /\ owes' = "no"
  /\ hurt' = (hurt \/ Exposed)
  /\ UNCHANGED <<dur, kept, calls>>

\* A function that only reads, or the path lookup at the start of one that
\* writes, moves the window.
Read ==
  /\ call = Null /\ dur # vol
  /\ dur' = vol /\ win' = Null /\ owes' = Paid(vol)
  /\ UNCHANGED <<vol, call, fil, kept, hurt, calls, cuts>>

-------------------------------------------------------------------------------
(* The functions, as sequences of changes                                   *)

\* op is called; when it has made the changes, f is the file object and k the
\* lengths promised.  What happens on a damaged volume is not followed.
Begin(op, todo, f, k) ==
  /\ call = Null /\ ~hurt /\ calls < MaxCalls
  /\ call' = [op |-> op, todo |-> todo, fil |-> f, kept |-> k]
  /\ calls' = calls + 1
  /\ UNCHANGED <<disks, fil, hurt, cuts>>

\* dir_register of e in directory t: the sequences of changes that enter it, a
\* new cluster for a full table included; none if there is no room.
dir_register(v, t, e) ==
  LET vacant == SelectSeq(Slots(v, t), LAMBDA x : At(v, x) = Null)
  IN IF vacant # << >> THEN {<<Slot(vacant[1], e)>>}
     ELSE IF t = Root THEN {}
     ELSE {<<Fat(c, EOC), Fat(Last(Chain(v, t)), c), Harm("fail", Look(c)),
             Harm("cut", Clear(c)), Slot(<<c, 1>>, e)>> : c \in FreeIn(v)}

Freed(chain) == [k \in DOMAIN chain |-> Fat(chain[k], Free)]

NoName(t, name, but) == \A x \in Used(vol, t) \ but : At(vol, x).name # name
Opened(x, id, c, n, mod) == [at |-> x, id |-> id, sclust |-> c, len |-> n, mod |-> mod, err |-> FALSE]
NotOpen(x) == fil # Null => fil.at # x

\* f_open: a new file, an existing one, an existing one that is overwritten.
f_open_new(t, name, id) ==
  /\ fil = Null /\ NoName(t, name, {}) /\ id \notin Ids(vol)
  /\ \E reg \in dir_register(vol, t, Entry(name, id, Null, 0)) :
       Begin("open", reg, Opened(Last(reg).at, id, Null, 0, TRUE), kept)
  /\ kept' = [kept EXCEPT ![id] = Null]
  /\ UNCHANGED owes

f_open(x) ==
  /\ fil = Null /\ ~IsDir(At(vol, x))
  /\ LET e == At(vol, x)
     IN Begin("open", << >>, Opened(x, e.id, e.sclust, e.len, FALSE), kept)
  /\ UNCHANGED <<kept, owes>>

\* Faulty variant: the clusters are freed before the entry is reset.
Overwrite_f(x, e) ==
  Freed(Chain(vol, e.sclust)) \o <<Slot(x, Entry(e.name, e.id, Null, 0))>>

Overwrite(x, e) ==
  <<Slot(x, Entry(e.name, e.id, Null, 0))>> \o Freed(Chain(vol, e.sclust))
    \o (IF e.sclust = Null THEN << >> ELSE <<Look(x[1])>>)

f_open_always(x) ==
  /\ fil = Null /\ ~IsDir(At(vol, x))
  /\ LET e == At(vol, x)
         reset == [kept EXCEPT ![e.id] = Null]
     IN /\ Begin("open", Overwrite(x, e), Opened(x, e.id, Null, 0, TRUE), reset)
        /\ kept' = reset
  /\ UNCHANGED owes

\* f_write of the next cluster of the file, through the window or past it.
f_write(kind) ==
  /\ fil # Null /\ ~fil.err /\ fil.len < MaxLen
  /\ LET chain == Chain(vol, fil.sclust)
         write(c) == Change(kind, c, fil.id)
         after(c) == [fil EXCEPT !.len = @ + 1, !.mod = TRUE, !.sclust = c]
     IN IF Len(chain) > fil.len
        THEN Begin("append", <<write(chain[fil.len + 1])>>, after(fil.sclust), kept)
        ELSE \E c \in FreeIn(vol) :
               Begin("append",
                     <<Fat(c, EOC)>> \o (IF chain = << >> THEN << >> ELSE <<Fat(Last(chain), c)>>)
                       \o <<write(c)>>,
                     after(IF chain = << >> THEN c ELSE chain[1]), kept)
  /\ UNCHANGED <<kept, owes>>

\* f_lseek back to cluster n and f_truncate: remove_chain ends the part that
\* stays, then frees the rest.  The entry is only written by f_sync.
f_truncate(n) ==
  /\ fil # Null /\ ~fil.err /\ n < fil.len
  /\ LET chain == Chain(vol, fil.sclust)
         reset == [kept EXCEPT ![fil.id] = Null]
         ending == IF n = 0 THEN << >> ELSE <<Fat(chain[n], EOC)>>
     IN /\ Begin("truncate", ending \o Freed(SubSeq(chain, n + 1, Len(chain))),
                 [fil EXCEPT !.len = n, !.mod = TRUE, !.sclust = IF n = 0 THEN Null ELSE @], reset)
        /\ kept' = reset
  /\ owes' = "entry"

\* Faulty variant: f_sync does not end with sync_fs.
Flush_f(e) == <<Slot(fil.at, e)>>

Flush(e) == <<Slot(fil.at, e), SyncFs>>

\* f_sync and f_close.  A file object that is in error can no longer be
\* validated by f_write, but is still written back.
f_sync(close) ==
  /\ fil # Null
  /\ LET name == At(vol, fil.at).name
         after == IF close THEN Null ELSE [fil EXCEPT !.mod = FALSE]
     IN IF fil.mod
        THEN Begin("sync", Flush(Entry(name, fil.id, fil.sclust, fil.len)), after,
                   [kept EXCEPT ![fil.id] = fil.len])
        ELSE Begin("sync", << >>, after, kept)
  /\ UNCHANGED <<kept, owes>>

\* f_unlink of a file, or of a directory that is empty.
f_unlink(x) ==
  /\ NotOpen(x)
  /\ LET e == At(vol, x)
         reset == IF IsDir(e) THEN kept ELSE [kept EXCEPT ![e.id] = Null]
     IN /\ IsDir(e) => Used(vol, e.sclust) = {}
        /\ Begin("unlink", <<Slot(x, Null)>> \o Freed(Chain(vol, e.sclust)) \o <<SyncFs>>, fil, reset)
        /\ kept' = reset
  /\ UNCHANGED owes

\* Faulty variant: the cluster is given back although the entry is made.
Undoing_f(q, c) ==
  [k \in DOMAIN q |-> IF k = 1 THEN q[k] ELSE [q[k] EXCEPT !.undo = <<Fat(c, Free)>>]]

\* f_mkdir gives the cluster of the table back, once it has it and until it
\* has entered the table.
Undoing(q, c) ==
  [k \in DOMAIN q |-> IF k = 1 \/ q[k].kind = "sync" THEN q[k]
                      ELSE [q[k] EXCEPT !.undo = <<Fat(c, Free)>>]]

f_mkdir(t, name) ==
  /\ NoName(t, name, {})
  /\ \E c \in FreeIn(vol) :
       LET table == <<Fat(c, EOC), Look(c), Clear(c), Change("up", c, t)>>
           regs == dir_register(Made(vol, Fat(c, EOC)), t, Entry(name, Null, c, 0))
       IN IF regs = {} THEN Begin("mkdir", Undoing(table, c) \o <<Fat(c, Free)>>, fil, kept)
          ELSE \E reg \in regs : Begin("mkdir", Undoing(table \o reg \o <<SyncFs>>, c), fil, kept)
  /\ UNCHANGED <<kept, owes>>

\* f_rename of the entry x of directory t.  From the first move of the window
\* after the new entry is made to sync_fs both entries may be on the disk.  The
\* code marks this for a directory that gets another parent; a file, or a new
\* name in another sector of the same directory, is as exposed.  A directory
\* moved below itself is left out.
f_rename(t, x, t2, name) ==
  /\ NotOpen(x) /\ NoName(t2, name, {x})
  /\ LET e == At(vol, x)
         up == IF IsDir(e) /\ t # t2 THEN <<Change("up", e.sclust, t2)>> ELSE << >>
         rest == up \o <<Slot(x, Null), SyncFs>>
         exposed == [k \in DOMAIN rest |-> Harm(IF k = 1 THEN "fail" ELSE "cut", rest[k])]
     IN /\ IsDir(e) => t2 \notin Below(vol, e.sclust)
        /\ \E reg \in dir_register(vol, t2, [e EXCEPT !.name = name]) :
             Begin("rename", reg \o (IF Last(reg).at[1] = x[1] THEN rest ELSE exposed), fil, kept)
  /\ UNCHANGED <<kept, owes>>

-------------------------------------------------------------------------------
Init ==
  /\ vol = [fat |-> [c \in Clus |-> Free],
            sec |-> [s \in Clus \cup {Root} |-> IF s = Root THEN Table(Null, NRoot) ELSE Wild]]
  /\ dur = vol /\ win = Null
  /\ call = Null /\ fil = Null /\ owes = "no" /\ hurt = FALSE
  /\ kept = [id \in Id |-> Null]
  /\ calls = 0 /\ cuts = 0

Work ==
  \/ \E t \in Below(vol, Root), name \in Name :
       \/ \E id \in Id : f_open_new(t, name, id)
       \/ f_mkdir(t, name)
       \/ \E x \in Entries(vol) : f_rename(x[1], x[2], t, name)
  \/ \E x \in Entries(vol) : f_open(x[2]) \/ f_open_always(x[2]) \/ f_unlink(x[2])
  \/ \E kind \in {"data", "through"} : f_write(kind)
  \/ \E n \in 0 .. MaxLen - 1 : f_truncate(n)
  \/ \E close \in BOOLEAN : f_sync(close)

Next ==
  \/ call = Null /\ ~hurt /\ calls < MaxCalls /\ Work
  \/ Step \/ Return \/ DiskError \/ Crash \/ Read

Spec == Init /\ [][Next]_vars

-------------------------------------------------------------------------------
(* Properties                                                               *)

\* What a mount can rely on: directories are tables whose chains end, no
\* cluster belongs to two chains, ".." leads back, a file has clusters for its
\* length that hold its own data, and no two entries of a directory have the
\* same name or lead to the same file.
Sound(v) ==
  LET all == Entries(v)
      chain == [x \in all |-> Chain(v, At(v, x[2]).sclust)]
  IN /\ \A x \in all :
          LET e == At(v, x[2])
          IN /\ Ends(v, e.sclust)
             /\ IF IsDir(e)
                THEN /\ \A k \in DOMAIN chain[x] : v.sec[chain[x][k]].kind = "table"
                     /\ v.sec[e.sclust].up = x[1]
                ELSE /\ Len(chain[x]) >= e.len
                     /\ \A k \in 1 .. e.len : v.sec[chain[x][k]] = Data(e.id)
     /\ \A x, y \in all : x # y =>
          LET e == At(v, x[2])
              d == At(v, y[2])
          IN /\ ToSet(chain[x]) \cap ToSet(chain[y]) = {}
             /\ x[1] = y[1] => e.name # d.name
             /\ ~IsDir(e) => e.id # d.id

\* The variables have their types, and the disk lags behind what FatFs sees in
\* the sector of the window alone (move_window writes it back before it moves).
TypeOK ==
  /\ DOMAIN vol.fat = Clus /\ DOMAIN vol.sec = Clus \cup {Root}
  /\ \A c \in Clus : vol.fat[c] # dur.fat[c] => win = FatSect[c]
  /\ \A s \in Clus \cup {Root} : vol.sec[s] # dur.sec[s] => win = s
  /\ fil # Null => fil.id \in Id /\ fil.len \in 0 .. MaxLen
  /\ kept \in [Id -> {Null} \cup 0 .. MaxLen]
  /\ owes \in {"no", "entry", "window"} /\ hurt \in BOOLEAN
  /\ calls \in 0 .. MaxCalls /\ cuts \in 0 .. MaxCuts

\* The order of the writes in f_open, f_write, f_unlink, f_mkdir and f_rename
\* leaves a volume that can be mounted, with nothing but lost clusters, whenever
\* the power fails: outside the time f_rename may have both entries on the disk,
\* the stretching of a directory, and the time between an f_truncate and its
\* f_sync.
Recoverable == ~hurt /\ ~Exposed => Sound(dur)

\* A function that returns, successfully or on a disk error, leaves the volume
\* sound as FatFs sees it: f_mkdir takes back what it began, a failed f_write or
\* f_unlink only loses clusters.
Consistent == call = Null /\ ~hurt /\ owes # "entry" => Sound(vol)

\* What a successful f_sync or f_close wrote is still there after a power loss:
\* the file is listed with at least the length it then had, whatever happened
\* to other files and directories, and to the file unless it was truncated,
\* overwritten or removed.
SyncedKept ==
  ~hurt /\ ~Exposed =>
    \A id \in Id : kept[id] # Null =>
      \E x \in Entries(dur) : At(dur, x[2]).id = id /\ At(dur, x[2]).len >= kept[id]
===============================================================================
