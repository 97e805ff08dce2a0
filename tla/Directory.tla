------------------------------- MODULE Directory -------------------------------
(***************************************************************************)
(* Directory tables of ff.c and the functions that work on them by name:   *)
(* f_open, f_unlink, f_mkdir, f_rename, f_stat, f_opendir, f_readdir and   *)
(* f_closedir, with dir_find, dir_alloc, dir_register, dir_remove and      *)
(* dir_read below them.  A table is a sequence of slots; the root's has a  *)
(* fixed length, the others grow by a cluster.  One thread calls the       *)
(* functions, and a listing goes on between the other calls.  The disk     *)
(* does not fail here.                                                     *)
(***************************************************************************)
EXTENDS PathName, FiniteSets

CONSTANTS
  Names,      \* paths given to the functions
  Lookups,    \* paths whose meaning is checked
  File,       \* files that may exist
  Dirs,       \* sub-directories that may exist; 0 is the root
  NRoot,      \* fs->n_rootdir: slots of the root directory
  PerClus,    \* slots in a cluster
  MaxSlots,   \* MAX_DIR, in slots
  Room,       \* free clusters at first
  Null

ASSUME Tables ==
  /\ 0 \notin Dirs /\ IsFiniteSet(Dirs) /\ {NRoot, MaxSlots, Room} \subseteq Nat
  /\ PerClus \in Nat \ {0, 1} /\ Null \notin File \cup Dirs

VARIABLES
  tab,    \* the tables; an empty sequence is no directory
  up,     \* the ".." entries
  room,   \* free clusters
  rd,     \* the DIR object of a reader
  ret,    \* what the last call returned
  moved   \* history: a directory was moved into itself

vars == <<tab, up, room, rd, ret, moved>>

End == [st |-> "end"]
Deleted == [st |-> "del"]
Dot == [st |-> "dot"]
Entry(sfn, attr, obj) == [st |-> "used", sfn |-> sfn, attr |-> attr, obj |-> obj]

Ends(n) == [i \in 1 .. n |-> End]
Lowest(S) == CHOOSE i \in S : \A j \in S : i <= j

-------------------------------------------------------------------------------
(* Tables                                                                   *)

\* Slots a search that stops at the end mark looks at.
Scanned(t) == {j \in DOMAIN t : \A i \in 1 .. j : t[i] # End}

\* dir_find: the slot with a name, if any.
dir_find(t, sfn) == {j \in Scanned(t) : t[j].st = "used" /\ t[j].sfn = sfn}

\* dir_read: the first entry at or after a slot, if any.
dir_read(t, from) ==
  LET used == {j \in Scanned(t) : j >= from /\ t[j].st = "used"}
  IN IF used = {} THEN {} ELSE {Lowest(used)}

\* Slots dir_alloc may take.
Vacant(t) == {j \in DOMAIN t : t[j] \in {Deleted, End}}

\* Faulty variant: the root is stretched like the others.
Unstretched_f(d, t, rm) == Len(t) >= MaxSlots \/ rm = 0

\* dir_next cannot stretch a full table.
Unstretched(d, t, rm) == d = 0 \/ Len(t) >= MaxSlots \/ rm = 0

\* dir_alloc and dir_register: the outcomes of entering e in directory d when
\* rm clusters are free.  A full table other than the root's is stretched by a
\* cleared cluster.
dir_register(d, e, rm) ==
  LET t == tab[d]
      free == Vacant(t)
      longer == [t \o Ends(PerClus) EXCEPT ![Len(t) + 1] = e]
  IN IF free # {} THEN [ok |-> TRUE, t |-> [t EXCEPT ![Lowest(free)] = e], rm |-> rm]
     ELSE IF Unstretched(d, t, rm) THEN [ok |-> FALSE, t |-> t, rm |-> rm]
     ELSE [ok |-> TRUE, t |-> longer, rm |-> rm - 1]

\* Faulty variant: the slot is cleared instead of marked.
dir_remove_f(t, j) == [t EXCEPT ![j] = End]

dir_remove(t, j) == [t EXCEPT ![j] = Deleted]

Clusters(t) == Len(t) \div PerClus
Used(d) == {tab[d][j].obj : j \in {j \in DOMAIN tab[d] : tab[d][j].st = "used"}}
Existing == UNION {Used(d) : d \in DOMAIN tab}

-------------------------------------------------------------------------------
(* follow_path                                                              *)

Start(p) == FirstFrom(p, 1, Chars \ {"/"})

\* One turn of the loop: a segment of the path.
Follow(p, w) ==
  LET c == create_name(p, w.at)
      found == dir_find(tab[w.dir], c.sfn)
      s == tab[w.dir][Lowest(found)]
  IN IF w.res # "walk" THEN w
     ELSE IF ~c.ok THEN [w EXCEPT !.res = "invalid_name"]
     ELSE IF found = {}
          THEN [w EXCEPT !.res = IF c.last THEN "no_file" ELSE "no_path", !.sfn = c.sfn]
     ELSE IF c.last THEN [w EXCEPT !.res = "ok", !.slot = Lowest(found), !.sfn = c.sfn]
     ELSE IF s.attr # "dir" THEN [w EXCEPT !.res = "no_path"]
     ELSE [w EXCEPT !.dir = s.obj, !.at = c.next]

\* dir_sdi: the DIR object of a directory itself is set to its first slot.
dir_sdi(d) == IF tab[d] = << >> THEN "int_err" ELSE "noname"

\* Where a path leads: a directory, the slot of the object in it, and the name
\* of the last segment looked for.  "noname" is FR_OK with NS_NONAME: the root.
follow_path(p) ==
  LET w == [at |-> Start(p), dir |-> 0, slot |-> 1, sfn |-> Null,
            res |-> IF Start(p) > Len(p) \/ p[Start(p)] = RDDEM THEN dir_sdi(0) ELSE "walk"]
  IN FoldLeft(LAMBDA a, k : Follow(p, a), w, [k \in 1 .. Len(p) |-> k])

\* Most functions refuse the root.
Named(r) == IF r = "noname" THEN "invalid_name" ELSE r

At(w) == tab[w.dir][w.slot]
IsDir(w) == w.res = "ok" /\ At(w).attr = "dir"

Returns(r) == ret' = r /\ UNCHANGED <<tab, up, room, rd, moved>>

-------------------------------------------------------------------------------
(* The functions                                                            *)

\* What of a listing under way is to be shown once: an object removed or
\* renamed meanwhile need not be.
Drop(o) ==
  IF rd = Null THEN Null
  ELSE [rd EXCEPT !.since = @ \ {o}, !.seen = SelectSeq(@, LAMBDA s : s # o)]

\* f_open with FA_OPEN_EXISTING.
f_open(p) ==
  \E w \in {follow_path(p)} :
    Returns(IF IsDir(w) THEN "no_file" ELSE Named(w.res))

\* f_open with FA_CREATE_NEW, or with FA_OPEN_ALWAYS.
f_open_create(p, new) ==
  \E w \in {follow_path(p)} :
    \/ /\ w.res # "no_file"
       /\ Returns(IF IsDir(w) THEN "denied"
                  ELSE IF w.res = "ok" /\ new THEN "exist" ELSE Named(w.res))
    \/ /\ w.res = "no_file"
       /\ \E f \in File \ Existing :
            LET reg == dir_register(w.dir, Entry(w.sfn, "file", f), room)
            IN /\ tab' = [tab EXCEPT ![w.dir] = reg.t]
               /\ room' = reg.rm
               /\ ret' = IF reg.ok THEN "ok" ELSE "denied"
               /\ UNCHANGED <<up, rd, moved>>

f_stat(p) == Returns(Named(follow_path(p).res))

\* A directory that is removed is one no reader has open.
f_unlink(p) ==
  \E w \in {follow_path(p)} :
    LET full == IsDir(w) /\ dir_read(tab[At(w).obj], 1) # {}
    IN \/ /\ w.res = "ok" => full
          /\ Returns(IF full THEN "denied" ELSE Named(w.res))
       \/ /\ w.res = "ok" /\ ~full
          /\ tab' = [d \in DOMAIN tab |->
                       IF d = w.dir THEN dir_remove(tab[d], w.slot)
                       ELSE IF IsDir(w) /\ d = At(w).obj THEN << >> ELSE tab[d]]
          /\ room' = room + (IF IsDir(w) THEN Clusters(tab[At(w).obj]) ELSE 0)
          /\ rd' = IF rd # Null /\ rd.dir = At(w).obj THEN Null ELSE Drop(At(w).obj)
          /\ ret' = "ok"
          /\ UNCHANGED <<up, moved>>

\* f_mkdir: a cluster for the new table, then the entry; the cluster is given
\* back when the entry cannot be made.
f_mkdir(p) ==
  \E w \in {follow_path(p)} :
    \/ /\ w.res = "no_file" => room = 0
       /\ Returns(IF w.res \in {"ok", "noname"} THEN "exist"
                  ELSE IF w.res = "no_file" THEN "denied" ELSE w.res)
    \/ /\ w.res = "no_file" /\ room > 0
       /\ \E n \in Dirs \ Existing :
            LET reg == dir_register(w.dir, Entry(w.sfn, "dir", n), room - 1)
            IN \/ ~reg.ok /\ Returns("denied")
               \/ /\ reg.ok
                  /\ tab' = [tab EXCEPT ![w.dir] = reg.t,
                                        ![n] = <<Dot, Dot>> \o Ends(PerClus - 2)]
                  /\ up' = [up EXCEPT ![n] = w.dir]
                  /\ room' = reg.rm
                  /\ ret' = "ok"
                  /\ UNCHANGED <<rd, moved>>

\* Directories on the way from d to the root.
UpFrom(d) ==
  LET n == Cardinality(Dirs)
      f[k \in 0 .. n] == IF k = 0 THEN d ELSE IF f[k - 1] = 0 THEN 0 ELSE up[f[k - 1]]
  IN {f[k] : k \in 0 .. n}

\* Faulty variant: ".." is corrected for a directory that stays where it is.
Dotdot_f(old, w) == IF w.dir = old.dir THEN [up EXCEPT ![At(old).obj] = w.dir] ELSE up

\* The ".." entry of a directory that is moved to another one.
Dotdot(old, w) == IF w.dir # old.dir THEN [up EXCEPT ![At(old).obj] = w.dir] ELSE up

\* The new path leads to the object that is renamed.
IsOld(w, old) == w.dir = old.dir /\ w.slot = old.slot

\* f_rename enters the new name, corrects "..", and removes the old name.  A new
\* path that is the root itself is compared like an object in its first slot.
f_rename(p, q) ==
  \E old \in {follow_path(p)}, w \in {follow_path(q)} :
    LET there == w.res \in {"ok", "noname"}
        clear == w.res = "no_file" \/ (there /\ IsOld(w, old))
        o == At(old)
        e == Entry(IF w.res = "noname" THEN old.sfn ELSE w.sfn, o.attr, o.obj)
        reg == dir_register(w.dir, e, room)
    IN \/ /\ old.res # "ok"
          /\ Returns(Named(old.res))
       \/ /\ old.res = "ok"
          /\ clear => ~reg.ok
          /\ Returns(IF clear THEN "denied" ELSE IF there THEN "exist" ELSE w.res)
       \/ /\ old.res = "ok" /\ clear /\ reg.ok
          /\ tab' = LET t == [tab EXCEPT ![w.dir] = reg.t]
                    IN [t EXCEPT ![old.dir] = dir_remove(@, old.slot)]
          /\ up' = IF IsDir(old) THEN Dotdot(old, w) ELSE up
          /\ room' = reg.rm
          /\ rd' = Drop(o.obj)
          /\ moved' = (moved \/ (IsDir(old) /\ o.obj \in UpFrom(w.dir)))
          /\ ret' = "ok"

f_opendir(p) ==
  \E w \in {follow_path(p)} :
    LET opens == w.res = "noname" \/ IsDir(w)
        d == IF w.res = "noname" THEN 0 ELSE At(w).obj
    IN /\ rd' = IF opens THEN [dir |-> d, ptr |-> 1, seen |-> << >>, since |-> Used(d)] ELSE Null
       /\ ret' = IF opens THEN "ok" ELSE IF w.res \in {"ok", "no_file"} THEN "no_path" ELSE w.res
       /\ UNCHANGED <<tab, up, room, moved>>

\* Faulty variant: the reader moves on before it has read.
ReadFrom_f(r) == IF r.ptr = 0 THEN {} ELSE dir_read(tab[r.dir], r.ptr + 1)

ReadFrom(r) == IF r.ptr = 0 THEN {} ELSE dir_read(tab[r.dir], r.ptr)

\* f_readdir: the next entry, or the end, which the DIR object remembers.
f_readdir ==
  /\ rd # Null
  /\ \/ /\ ReadFrom(rd) = {}
        /\ rd' = [rd EXCEPT !.ptr = 0]
        /\ ret' = "end"
     \/ \E j \in ReadFrom(rd) :
          /\ rd' = [rd EXCEPT !.ptr = IF j = Len(tab[rd.dir]) THEN 0 ELSE j + 1,
                              !.seen = @ \o SelectSeq(<<tab[rd.dir][j].obj>>,
                                                      LAMBDA s : s \in rd.since)]
          /\ ret' = "ok"
  /\ UNCHANGED <<tab, up, room, moved>>

\* f_readdir without a FILINFO.
Rewind ==
  /\ rd # Null
  /\ rd' = [rd EXCEPT !.ptr = 1, !.seen = << >>, !.since = Used(rd.dir)]
  /\ ret' = "ok"
  /\ UNCHANGED <<tab, up, room, moved>>

f_closedir ==
  /\ rd # Null
  /\ rd' = Null /\ ret' = "ok"
  /\ UNCHANGED <<tab, up, room, moved>>

Next ==
  \/ \E p \in Names :
       \/ f_open(p) \/ f_stat(p) \/ f_unlink(p) \/ f_mkdir(p) \/ f_opendir(p)
       \/ \E new \in BOOLEAN : f_open_create(p, new)
       \/ \E q \in Names : f_rename(p, q)
  \/ f_readdir \/ Rewind \/ f_closedir

Init ==
  /\ tab = [d \in {0} \cup Dirs |-> IF d = 0 THEN Ends(NRoot) ELSE << >>]
  /\ up = [d \in Dirs |-> 0]
  /\ room = Room /\ rd = Null /\ ret = "none" /\ moved = FALSE

Spec == Init /\ [][Next]_vars

-------------------------------------------------------------------------------
(* What the directory functions promise                                     *)

Slots(d) == {j \in DOMAIN tab[d] : tab[d][j].st = "used"}

\* Types: tables hold slots, the root's never changes its length, the others
\* are whole clusters that start with the dot entries.
TypeOK ==
  /\ Len(tab[0]) = NRoot /\ room \in 0 .. Room /\ moved \in BOOLEAN
  /\ \A d \in DOMAIN tab : \A j \in DOMAIN tab[d] :
       tab[d][j].st \in {"end", "del", "dot", "used"}
  /\ \A d \in Dirs : /\ Len(tab[d]) % PerClus = 0 /\ Len(tab[d]) <= MaxSlots
                     /\ tab[d] # << >> => SubSeq(tab[d], 1, 2) = <<Dot, Dot>>
  /\ \A d \in Dirs : up[d] \in {0} \cup Dirs

\* In every table no entry lies behind an end mark, where dir_find and dir_read
\* would not see it, and no name is there twice.
TablesSound ==
  \A d \in DOMAIN tab :
    /\ Slots(d) \subseteq Scanned(tab[d])
    /\ \A i, j \in Slots(d) : tab[d][i].sfn = tab[d][j].sfn => i = j

\* Every file and directory has one entry, every directory hangs below the root
\* and its ".." leads to the table its entry is in, and every cluster is free
\* or in one table, unless f_rename moved a directory into itself.
TreeSound ==
  ~moved =>
    /\ \A o \in Existing : Cardinality({<<d, j>> \in (DOMAIN tab) \X (1 .. MaxSlots) :
                                          j \in Slots(d) /\ tab[d][j].obj = o}) = 1
    /\ \A d \in Dirs : tab[d] # << >> <=> d \in Existing
    /\ \A d \in Dirs \cap Existing : d \in Used(up[d]) /\ 0 \in UpFrom(d)
    /\ room + MapThenSumSet(LAMBDA d : Clusters(tab[d]), Dirs) = Room

\* A listing shows an object that was in the directory throughout exactly once,
\* whatever was created, removed and renamed between the calls of f_readdir.
ListedOnce ==
  rd # Null =>
    LET times(o) == Cardinality({k \in DOMAIN rd.seen : rd.seen[k] = o})
    IN \A o \in rd.since : times(o) <= 1 /\ (rd.ptr = 0 => times(o) = 1)

\* The name f_readdir shows for an entry leads back to the entry when it is
\* given as a path, unless it is the empty one.
ListedOpens ==
  \A d \in DOMAIN tab : \A j \in Slots(d) :
    LET sfn == tab[d][j].sfn
        shown == get_fileinfo(sfn)
    IN shown # << >> => /\ create_name(shown, 1).ok /\ create_name(shown, 1).last
                        /\ create_name(shown, 1).sfn = sfn

\* The segments of a path: what lies between separators, up to a blank.
Segments(p) ==
  LET q == SubSeq(p, 1, FirstFrom(p, 1, Blank) - 1)
      first == {k \in DOMAIN q : q[k] # "/" /\ (k = 1 \/ q[k - 1] = "/")}
  IN [i \in 1 .. Cardinality(first) |->
        LET k == CHOOSE k \in first : Cardinality({j \in first : j <= k}) = i
        IN SubSeq(q, k, FirstFrom(q, k, {"/"}) - 1)]

\* Where a path leads, segment by segment.
Meaning(p) ==
  LET follow(a, seg) ==
        LET n == ShortName(seg)
            hit == {j \in Slots(a.dir) : tab[a.dir][j].sfn = n.sfn}
        IN IF a.res = "no_file" THEN [a EXCEPT !.res = "no_path"]
           ELSE IF a.res \notin {"ok", "noname"} THEN a
           ELSE IF a.attr # "dir" THEN [a EXCEPT !.res = "no_path"]
           ELSE IF ~n.ok THEN [a EXCEPT !.res = "invalid_name"]
           ELSE IF hit = {} THEN [a EXCEPT !.res = "no_file"]
           ELSE LET s == tab[a.dir][Lowest(hit)]
                IN [res |-> "ok", attr |-> s.attr, obj |-> s.obj,
                    dir |-> IF s.attr = "dir" THEN s.obj ELSE a.dir]
      top == [res |-> "noname", attr |-> "dir", obj |-> Null, dir |-> 0]
  IN IF Start(p) <= Len(p) /\ p[Start(p)] = " " THEN [top EXCEPT !.res = "invalid_name"]
     ELSE FoldLeft(follow, top, Segments(p))

\* follow_path ends where the segments of the path lead: NS_LAST, which
\* create_name sets "if end of the path", is set on the last segment and on no
\* other.  (It does not depend on the reader.)
PathMeans ==
  rd = Null =>
    \A p \in Lookups :
      LET w == follow_path(p)
          m == Meaning(p)
      IN w.res = m.res /\ (m.res = "ok" => At(w).obj = m.obj)
===============================================================================
