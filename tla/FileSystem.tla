----------------------------- MODULE FileSystem -----------------------------
(***************************************************************************)
(* The file system: the directory cache (kernel/fs/dirent.cpp, inode.cpp), *)
(* the system calls on it (file.cpp, sys_fs.cpp, task_fs.cpp) and denemefs,*)
(* the file system in memory below it (kernel/fs/denemefs).                *)
(*                                                                         *)
(* The disk is the table di of inodes; a directory is a table of entries   *)
(* that only grows: a removed entry keeps its place with an empty name and *)
(* number 0.  The cache is a tree of dirents with counted references, and  *)
(* every task holds the dirent of its current directory.                   *)
(*                                                                         *)
(* open runs with interrupts off.  create and unlink run with interrupts   *)
(* on and without a lock on the disk, so they are split at the points      *)
(* where another task can come in, with any call of its own.  Two of these *)
(* calls that are under way together can take one inode twice; overlap     *)
(* says that this has happened.                                            *)
(*                                                                         *)
(* Reference counts of inodes are left out: open adds three references and *)
(* close drops one, and a failed lookup drops the only one to 0 where only *)
(* -1 frees, so no inode of the cache is ever freed.                       *)
(*                                                                         *)
(* Operators whose name ends in a capital and a reason are wrong versions  *)
(* of the code, kept to show that the properties notice them.              *)
(***************************************************************************)
EXTENDS Integers, FiniteSets, Sequences, SequencesExt

CONSTANTS
  Tasks,            \* the tasks, forked in the root directory
  Slots,            \* inode numbers of the disk, di has 100
  SubdentryCount,   \* Deneme_subdentry_count, 56: entries of a directory
  DirentIds,        \* bound: dirents in memory apart from the root's
  MaxRef,           \* bound: references to a dirent
  Paths,            \* the paths programs use: [abs, dirs, name]
  Modes             \* are new files and directories writable

ASSUME FileSystemAssumption ==
  /\ Tasks # {} /\ IsFiniteSet(Tasks)
  /\ 0 \in Slots /\ 1 \in Slots /\ Slots \subseteq Nat /\ IsFiniteSet(Slots)
  /\ SubdentryCount \in Nat \ {0} /\ MaxRef \in Nat
  /\ DirentIds \subseteq Nat \ {0} /\ IsFiniteSet(DirentIds)
  /\ \A p \in Paths : /\ p.abs \in BOOLEAN
                       /\ p.dirs \in Seq(STRING) /\ p.name \in STRING
  /\ Modes \subseteq BOOLEAN

VARIABLES
  di,     \* the disk: type, rw (mode read and write) and entries per inode
  dc,     \* the dirents in memory, see NoDirent
  pwd,    \* fs.pwd
  pc,     \* the call a task is in
  panic,  \* what stopped the kernel
  overlap \* history: two tasks were inside create or unlink at one time

vars == <<di, dc, pwd, pc, panic, overlap>>

NoName == ""
Free   == [type |-> "free", rw |-> FALSE, ents |-> <<>>]
Idle   == [step |-> "idle"]

Root == 0
Ids  == DirentIds \cup {Root}
\* A deleted dirent has inode NULL and parent NULL.  Its memory is lost, and
\* the model forgets it when no task stands on it.
NoDirent == [st |-> "none", parent |-> Root, name |-> NoName, ino |-> 0, ref |-> 0]

\* fs_task_init and fs_fork: tasks start in the root; each takes a reference
\* to it as its root and one as its current directory
fs_fork == [t \in Tasks |-> Root]

\* denemefs_init: a root that nobody may write and /home; denemefs_read_super
Init ==
  /\ di = [i \in Slots |->
             CASE i = 0 -> [type |-> "dir", rw |-> FALSE,
                            ents |-> <<[name |-> "home", no |-> 1]>>]
               [] i = 1 -> [type |-> "dir", rw |-> TRUE, ents |-> <<>>]
               [] OTHER -> Free]
  /\ dc = [d \in Ids |-> IF d = Root
                         THEN [NoDirent EXCEPT !.st = "live",
                                           !.ref = 1 + 2 * Cardinality(Tasks)]
                         ELSE NoDirent]
  /\ pwd = fs_fork
  /\ pc = [t \in Tasks |-> Idle]
  /\ panic = "none" /\ overlap = FALSE

Running == panic = "none"
Panic(why) == panic' = why

\* Two tasks are inside create or unlink.
Overlapping == \E t, u \in Tasks : t # u /\ pc[t] # Idle /\ pc[u] # Idle

-----------------------------------------------------------------------------
(* denemefs                                                                *)

\* denemefs_lookup: the first entry with the name, 0 for none or no directory
lookup(d, i, name) ==
  LET found == {k \in DOMAIN d[i].ents : d[i].ents[k].name = name}
  IN  IF d[i].type # "dir" \/ found = {} THEN 0
      ELSE CHOOSE k \in found : \A m \in found : k <= m

EntryIno(d, i, name) == d[i].ents[lookup(d, i, name)].no

\* denemefs_permission for reading and writing
denemefs_permission(i) == di[i].rw

\* inode_permission; the mode in a cached inode is a copy of the disk's
inode_permission(i) == denemefs_permission(i)

denemefs_free_inode(d, i) == [d EXCEPT ![i] = Free]

remove_entry(d, i, name) ==
  [d EXCEPT ![i].ents[lookup(d, i, name)] = [name |-> NoName, no |-> 0]]

\* The last lines of denemefs_unlink and denemefs_rmdir
remove_KeepInode(d, i, name) == remove_entry(d, i, name)
remove(d, i, name) ==
  denemefs_free_inode(remove_entry(d, i, name), EntryIno(d, i, name))

is_empty_dir_OffByOne(d, i) == Len(d[i].ents) <= 1
is_empty_dir(d, i) == d[i].ents = <<>>

\* denemefs_unlink and denemefs_rmdir find what they may remove
denemefs_unlink(d, i, name) ==
  lookup(d, i, name) # 0 /\ d[EntryIno(d, i, name)].type = "file"

denemefs_rmdir(d, i, name) ==
  /\ lookup(d, i, name) # 0
  /\ d[EntryIno(d, i, name)].type = "dir"
  /\ is_empty_dir(d, EntryIno(d, i, name))

\* What unlink calls through the inode's operations
may_remove(type, d, i, name) ==
  IF type = "file" THEN denemefs_unlink(d, i, name) ELSE denemefs_rmdir(d, i, name)

-----------------------------------------------------------------------------
(* The directory cache                                                     *)

Childs(c, d, name) ==
  {x \in DirentIds : c[x].st = "live" /\ c[x].parent = d /\ c[x].name = name}

Unused(c) == {x \in DirentIds : c[x].st = "none"}
NewId(c) == CHOOSE x \in Unused(c) : \A y \in Unused(c) : x <= y

\* unlink holds the lock of a directory's inode.
Locked(d) == \E t \in Tasks : pc[t].step = "cache_remove" /\ pc[t].locked = d

\* The state of a walk: the cache, the dirent reached, and how it went
dirent_cache_add(w, name, ino) ==
  LET x == NewId(w.c)
  IN  [w EXCEPT !.d = x,
                !.c[x] = [st |-> "live", parent |-> w.d, name |-> name,
                          ino |-> ino, ref |-> 1]]

dirent_lookup_NoCache(w, name) ==
  LET dir == w.c[w.d]
  IN  IF w.r # "ok" THEN w
      ELSE IF dir.st = "deleted" \/ lookup(di, dir.ino, name) = 0
      THEN [w EXCEPT !.r = "fail"]
      ELSE IF Unused(w.c) = {} THEN [w EXCEPT !.r = "bound"]
      ELSE dirent_cache_add(w, name, EntryIno(di, dir.ino, name))

\* dirent_lookup: a deleted directory, ".", "..", the cache, then the disk.  The
\* disk is searched with interrupts off; an entry whose inode has no type
\* yet is the PANIC of denemefs_lookup.
dirent_lookup(w, name) ==
  LET dir == w.c[w.d]
  IN  IF w.r # "ok" THEN w
      ELSE IF dir.st = "deleted" THEN [w EXCEPT !.r = "fail"]
      ELSE IF name = "." THEN w
      ELSE IF name = ".." THEN [w EXCEPT !.d = dir.parent]
      ELSE IF Childs(w.c, w.d, name) # {}
      THEN [w EXCEPT !.d = CHOOSE x \in Childs(w.c, w.d, name) : TRUE]
      ELSE IF Locked(w.d) THEN [w EXCEPT !.r = "wait"]
      ELSE IF lookup(di, dir.ino, name) = 0 THEN [w EXCEPT !.r = "fail"]
      ELSE IF di[EntryIno(di, dir.ino, name)].type = "new"
      THEN [w EXCEPT !.r = "Unknown file type"]
      ELSE IF Unused(w.c) = {} THEN [w EXCEPT !.r = "bound"]
      ELSE dirent_cache_add(w, name, EntryIno(di, dir.ino, name))

\* The loop of dirent_find skips an empty name: two '/' or one at the end
next_name(w, name) == IF name = NoName THEN w ELSE dirent_lookup(w, name)

\* dirent_find: references taken on the way are given back at each step
dirent_find(t, p, names) ==
  LET walk[n \in 0 .. Len(names)] ==
        IF n = 0 THEN [c |-> dc, d |-> IF p.abs THEN Root ELSE pwd[t], r |-> "ok"]
        ELSE next_name(walk[n - 1], names[n])
  IN  walk[Len(names)]

dirent_dup(c, d) == [c EXCEPT ![d].ref = @ + 1]

\* dirent_free, where only a count below 0 frees; __dirent_free then asserts
\* that the count is 0
dirent_free(w) ==
  [w EXCEPT !.c[w.d].ref = @ - 1,
            !.r = IF w.c[w.d].ref = 0 THEN "dirent_free" ELSE @]

\* dirent_find2: the directory of a path, and the reference its user gives
\* back.  It is taken only when the path has a '/': the current directory
\* itself comes without one.
dirent_find2(t, p) ==
  LET w == dirent_find(t, p, p.dirs)
  IN  IF ~p.abs /\ p.dirs = <<>> THEN dirent_free(w) ELSE w

\* inode_dup of the dirent that a walk reached: a deleted one has no inode;
\* to count the reference it takes the lock of any other
inode_dup(w) ==
  IF w.r = "ok" /\ w.c[w.d].st = "deleted" THEN [w EXCEPT !.r = "fail"]
  ELSE IF w.r = "ok" /\ Locked(w.d) THEN [w EXCEPT !.r = "wait"]
  ELSE w

inode_find(t, p) == inode_dup(dirent_find(t, p, Append(p.dirs, p.name)))
inode_find2(t, p) == inode_dup(dirent_find2(t, p))

\* A dirent and all that is cached below it
Subtree(c, x) ==
  LET below[n \in 0 .. Cardinality(DirentIds)] ==
        IF n = 0 THEN {x}
        ELSE LET s == below[n - 1]
             IN  s \cup {y \in DirentIds : c[y].st = "live" /\ c[y].parent \in s}
  IN  below[Cardinality(DirentIds)]

\* dirent_delete
dirent_delete(c, x) ==
  [y \in Ids |-> IF y \in Subtree(c, x)
                 THEN [NoDirent EXCEPT !.st = "deleted", !.ref = c[y].ref - 1]
                 ELSE c[y]]

\* Deleted dirents out of reach, when the current directories are q
Forget(c, q) ==
  [y \in Ids |-> IF c[y].st = "deleted" /\ \A t \in Tasks : q[t] # y
                 THEN NoDirent ELSE c[y]]

\* How a walk that cannot go on ends: it sleeps or is past a bound of the
\* instance, it fails, or it stops the kernel.
Walked(w) == w.r \notin {"wait", "bound"}
Failed(w) == panic' = IF w.r \in {"ok", "fail"} THEN panic ELSE w.r

\* A call that ends with its walk
looked_up(t, w) ==
  /\ Running /\ pc[t] = Idle
  /\ Walked(w) /\ dc' = w.c /\ Failed(w)
  /\ UNCHANGED <<di, pwd, pc>>

-----------------------------------------------------------------------------
(* creat and mkdir                                                         *)

\* create up to the operation of the directory's inode
create(t, p, type, rw) ==
  /\ Running /\ pc[t] = Idle
  /\ LET w == inode_find2(t, p)
         i == w.c[w.d].ino
     IN  /\ Walked(w)
         /\ dc' = w.c
         /\ \/ /\ w.r # "ok" \/ ~inode_permission(i)
               /\ Failed(w) /\ UNCHANGED pc
            \/ /\ w.r = "ok" /\ inode_permission(i) /\ di[i].type = "dir"
               /\ pc' = [pc EXCEPT ![t] =
                           [step |-> "find_empty_di", dir |-> i, name |-> p.name,
                            type |-> type, rw |-> rw, ino |-> 0]]
               /\ UNCHANGED panic
            \* the inode of a file has no create: a call through NULL
            \/ /\ w.r = "ok" /\ inode_permission(i) /\ di[i].type # "dir"
               /\ Panic("no create") /\ UNCHANGED pc
  /\ UNCHANGED <<di, pwd>>

EmptySlots == {i \in Slots : di[i].type = "free"}

\* find_empty_di finds a slot; without one the call fails.
find_empty_di(t) ==
  /\ Running /\ pc[t].step = "find_empty_di"
  /\ pc' = [pc EXCEPT ![t] =
              IF EmptySlots = {} THEN Idle
              ELSE [@ EXCEPT !.step = "take_di",
                             !.ino = CHOOSE i \in EmptySlots :
                                       \A j \in EmptySlots : i <= j]]
  /\ UNCHANGED <<di, dc, pwd, panic>>

\* and, an instruction later, takes it
take_di(t) ==
  /\ Running /\ pc[t].step = "take_di"
  /\ di' = [di EXCEPT ![pc[t].ino].type = IF @ = "free" THEN "new" ELSE @]
  /\ pc' = [pc EXCEPT ![t].step = "add_entry"]
  /\ UNCHANGED <<dc, pwd, panic>>

exists(d, i, name) == lookup(d, i, name) # 0

\* denemefs_add_entry behind the last entry, or denemefs_free_inode
add_entry(t) ==
  /\ Running /\ pc[t].step = "add_entry"
  /\ LET c == pc[t]
     IN  \/ /\ di[c.dir].type = "dir" /\ ~exists(di, c.dir, c.name)
            /\ Len(di[c.dir].ents) < SubdentryCount
            /\ di' = [di EXCEPT ![c.dir].ents =
                                   Append(@, [name |-> c.name, no |-> c.ino])]
            /\ pc' = [pc EXCEPT ![t].step = "fill"]
            /\ UNCHANGED panic
         \/ /\ exists(di, c.dir, c.name)
            /\ IF di[EntryIno(di, c.dir, c.name)].type = "new"
               THEN Panic("Unknown file type") ELSE UNCHANGED panic
            /\ di' = denemefs_free_inode(di, c.ino)
            /\ pc' = [pc EXCEPT ![t] = Idle]
         \* past the end of the table, or through the NULL data of a
         \* directory that was removed meanwhile
         \/ /\ di[c.dir].type # "dir"
               \/ (~exists(di, c.dir, c.name) /\ Len(di[c.dir].ents) >= SubdentryCount)
            /\ Panic("subdentry overflow")
            /\ UNCHANGED <<di, pc>>
  /\ UNCHANGED <<dc, pwd>>

\* The end of denemefs_create and denemefs_mkdir: the new inode gets its mode
\* and its data
fill(t, type) ==
  /\ Running /\ pc[t].step = "fill" /\ pc[t].type = type
  /\ di' = [di EXCEPT ![pc[t].ino] = [type |-> type, rw |-> pc[t].rw, ents |-> <<>>]]
  /\ pc' = [pc EXCEPT ![t] = Idle]
  /\ UNCHANGED <<dc, pwd>>

\* denemefs_create finds its entry again and asserts that it did.
denemefs_create(t) ==
  /\ fill(t, "file")
  /\ panic' = IF lookup(di, pc[t].dir, pc[t].name) = 0 THEN "assert" ELSE panic

denemefs_mkdir(t) == fill(t, "dir") /\ UNCHANGED panic

sys_creat(t, p, rw) == create(t, p, "file", rw)
sys_mkdir(t, p, rw) == create(t, p, "dir", rw)

\* create of a character device walks the path, then gives up.
sys_mknod(t, p) == looked_up(t, inode_find2(t, p))

-----------------------------------------------------------------------------
(* unlink and rmdir                                                        *)

\* unlink up to the change of the disk, for a file or, by rmdir, a directory;
\* it keeps the directory's inode locked
unlink(t, p, type) ==
  /\ Running /\ pc[t] = Idle
  /\ LET w == inode_find2(t, p)
         i == w.c[w.d].ino
         ok == w.r = "ok" /\ inode_permission(i)
         may == may_remove(type, di, i, p.name)
     IN  /\ Walked(w)
         /\ dc' = w.c
         /\ \/ /\ ~ok \/ (di[i].type = "dir" /\ ~may)
               /\ Failed(w) /\ UNCHANGED <<di, pc>>
            \/ /\ ok /\ di[i].type = "dir" /\ may
               /\ di' = remove(di, i, p.name)
               /\ pc' = [pc EXCEPT ![t] = [step |-> "cache_remove", path |-> p,
                                           locked |-> w.d]]
               /\ UNCHANGED panic
            \* the inode of a file has no unlink and no rmdir
            \/ /\ ok /\ di[i].type # "dir"
               /\ Panic("no unlink") /\ UNCHANGED <<di, pc>>
  /\ UNCHANGED <<pwd>>

sys_unlink(t, p) == unlink(t, p, "file")
sys_rmdir(t, p) == unlink(t, p, "dir")

\* dirent_cache_remove, which walks the path again and returns when it leads
\* nowhere now, and inode_unlock
dirent_cache_remove(t) ==
  /\ Running /\ pc[t].step = "cache_remove"
  /\ LET p == pc[t].path
         w == dirent_find2(t, p)
         x == IF w.r = "fail" THEN {} ELSE Childs(w.c, w.d, p.name)
         c == IF x = {} THEN w.c ELSE dirent_delete(w.c, CHOOSE y \in x : TRUE)
     IN  /\ Walked(w)
         /\ dc' = Forget(c, pwd)
         /\ IF w.r \in {"ok", "fail"} /\ \E y \in Ids : c[y].ref < 0
            THEN Panic("dirent_free") ELSE Failed(w)
  /\ pc' = [pc EXCEPT ![t] = Idle]
  /\ UNCHANGED <<di, pwd>>

-----------------------------------------------------------------------------
(* open, stat and chdir                                                    *)

\* file_open and file_stat as the tree and the cache see them: they look the
\* path up, and nothing that they do later changes either
file_open(t, p) == inode_find(t, p)
file_stat(t, p) == inode_find(t, p)

sys_open(t, p) == looked_up(t, file_open(t, p))

\* sys_stat, and sys_lstat, which is a copy of it
sys_stat(t, p) == looked_up(t, file_stat(t, p))

\* sys_chdir, to anything that has a name; the old directory keeps its
\* reference
sys_chdir(t, p) ==
  /\ Running /\ pc[t] = Idle
  /\ LET w == dirent_find(t, p, Append(p.dirs, p.name))
     IN  /\ Walked(w) /\ w.c[w.d].ref < MaxRef
         /\ IF w.r = "ok"
            THEN /\ pwd' = [pwd EXCEPT ![t] = w.d]
                 /\ dc' = Forget(dirent_dup(w.c, w.d), pwd')
            ELSE dc' = w.c /\ UNCHANGED pwd
         /\ Failed(w)
  /\ UNCHANGED <<di, pc>>

Step ==
  \E t \in Tasks :
    \/ \E p \in Paths, rw \in Modes : sys_creat(t, p, rw) \/ sys_mkdir(t, p, rw)
    \/ \E p \in Paths : sys_mknod(t, p)
    \/ find_empty_di(t)
    \/ take_di(t)
    \/ add_entry(t)
    \/ denemefs_create(t)
    \/ denemefs_mkdir(t)
    \/ \E p \in Paths : sys_unlink(t, p) \/ sys_rmdir(t, p)
    \/ dirent_cache_remove(t)
    \/ \E p \in Paths : sys_open(t, p) \/ sys_stat(t, p) \/ sys_chdir(t, p)

Next == Step /\ overlap' = (overlap \/ Overlapping')

Spec == Init /\ [][Next]_vars

-----------------------------------------------------------------------------
(* Properties.                                                             *)

Entries(d, i) == {e \in Range(d[i].ents) : e.no # 0}

\* No task is inside create or unlink, and never two were at one time.
Quiet == Running /\ ~overlap /\ \A t \in Tasks : pc[t] = Idle

\* The places of directories that name inode i
Naming(i) ==
  {x \in Slots \X (1 .. SubdentryCount) :
     x[2] \in DOMAIN di[x[1]].ents /\ di[x[1]].ents[x[2]].no = i}

\* The disk is a tree that uses its inodes well: every inode in use is named
\* by exactly one entry of one directory, every entry names an inode in use,
\* no directory has two entries of one name, and no inode is lost when
\* creation or removal fails halfway (create, unlink and denemefs below them),
\* whatever other tasks look up, open and enter between the steps, until
\* two tasks are inside create or unlink together.
DiskIsTree ==
  Quiet =>
    /\ \A i \in Slots \ {0} : di[i].type # "free" <=> Cardinality(Naming(i)) = 1
    /\ \A d \in Slots : \A j, k \in DOMAIN di[d].ents :
         (di[d].ents[j].no # 0 /\ di[d].ents[k].no # 0
            /\ di[d].ents[j].name = di[d].ents[k].name) => j = k
    /\ \A d \in Slots : di[d].ents # <<>> => di[d].type = "dir"

\* dirent_topath: the names from the root to a dirent
dirent_topath(d) ==
  LET up[n \in 0 .. Cardinality(DirentIds)] ==
        IF n = 0 THEN [d |-> d, names |-> <<>>]
        ELSE LET u == up[n - 1]
             IN  IF u.d = Root THEN u
                 ELSE [d |-> dc[u.d].parent, names |-> <<dc[u.d].name>> \o u.names]
  IN  up[Cardinality(DirentIds)].names

\* What the disk d holds, as paths from the root
Walks(d) ==
  LET step(x) == {[path |-> Append(x.path, e.name), ino |-> e.no] :
                    e \in {y \in Entries(d, x.ino) : d[y.no].type \in {"dir", "file"}}}
      level[n \in 0 .. Cardinality(Slots)] ==
        IF n = 0 THEN {[path |-> <<>>, ino |-> 0]}
        ELSE UNION {step(x) : x \in level[n - 1]}
  IN  UNION {level[n] : n \in 0 .. Cardinality(Slots) - 1}

Tree(d) ==
  LET walks == Walks(d)
  IN  [q \in {x.path : x \in walks} |->
         d[(CHOOSE x \in walks : x.path = q).ino].type]

\* The cache never says what the disk does not: each dirent in memory stands
\* for the entry of its name in its parent's directory, and no entry has two
\* dirents.  So a current directory that was removed is recognised as such,
\* even after its inode was given to another file, and getcwd names the
\* directory a task stands in (dirent_lookup against dirent_cache_remove and
\* dirent_delete), also when another task walks over the path between the
\* two halves of unlink.
CacheCoherent ==
  Quiet =>
    /\ \A t \in Tasks : dc[pwd[t]].st = "live" =>
         [path |-> dirent_topath(pwd[t]), ino |-> dc[pwd[t]].ino] \in Walks(di)
    /\ \A x \in DirentIds : dc[x].st = "live" =>
         LET up == dc[x].parent
         IN  /\ dc[up].st = "live" /\ di[dc[up].ino].type = "dir"
             /\ lookup(di, dc[up].ino, dc[x].name) # 0
             /\ EntryIno(di, dc[up].ino, dc[x].name) = dc[x].ino
             /\ Cardinality(Childs(dc, up, dc[x].name)) = 1

StartTree == [q \in {<<>>, <<"home">>} |-> "dir"]

NS == INSTANCE Namespace WITH tree <- Tree(di), raced <- overlap, Start <- StartTree

\* create, unlink, mkdir and rmdir, with their failures, with the reuse of
\* inode numbers and with entries that are never reused, implement the tree
\* of names: the end of fill makes a path exist, the first half of unlink
\* removes one, and no other step changes what a path stands for, until two
\* of these calls overlap.
ImplementsNamespace == NS!Spec
=============================================================================
