-------------------------- MODULE FileSystemProofs --------------------------
(***************************************************************************)
(* Proofs about FileSystem: until two tasks are inside create or unlink at *)
(* one time, the disk is a tree that uses its inodes well, the cache says  *)
(* what the disk does, and the system calls implement the tree of names of *)
(* Namespace, whatever other tasks look up, open and enter between the     *)
(* steps of a call, for any number of tasks, inodes, directory entries and *)
(* dirents, and for any paths.                                             *)
(***************************************************************************)
EXTENDS FileSystem, ListLemmas

-----------------------------------------------------------------------------
(* The disk.                                                               *)

\* What an entry can be called; the prover takes no literal for a STRING
Name == STRING \cup {NoName, "home"}
Entry == [name : Name, no : Slots]
Inode == [type : {"free", "new", "dir", "file"}, rw : BOOLEAN, ents : Seq(Entry)]

\* Entry k of directory x of the disk d names inode i.
Names(d, x, k, i) == k \in 1 .. Len(d[x].ents) /\ d[x].ents[k].no = i

\* Entries are in directories, no more than fit; the root stays a directory
\* that can not be removed.
Directories(d) ==
  /\ \A x \in Slots : /\ d[x].type # "dir" => d[x].ents = <<>>
                      /\ Len(d[x].ents) <= SubdentryCount
  /\ d[0].type = "dir" /\ d[0].ents # <<>>

\* No name twice in a directory, not counting removed entries
NamesDiffer(d) ==
  \A x \in Slots : \A j, k \in 1 .. Len(d[x].ents) :
    (d[x].ents[j].no # 0 /\ d[x].ents[k].no # 0
       /\ d[x].ents[j].name = d[x].ents[k].name) => j = k

\* No inode is named twice
NamedOnce(d) ==
  \A i \in Slots \ {0} : \A x, y \in Slots : \A j, k :
    Names(d, x, j, i) /\ Names(d, y, k, i) => x = y /\ j = k

\* The inodes in use are the named ones and those of L, which find_empty_di
\* has taken for an entry that is not there yet; the new ones are those of L
\* and of N, which have their entry but not their mode and data.
Used(d, L, N) ==
  /\ \A i \in Slots \ {0} :
       (\E x \in Slots : \E k : Names(d, x, k, i)) <=> d[i].type # "free" /\ i \notin L
  /\ \A i \in Slots : d[i].type = "new" <=> i \in L \cup N
  /\ L \cap N = {}

DiskTree(d, L, N) ==
  d \in [Slots -> Inode] /\ Directories(d) /\ NamesDiffer(d) /\ NamedOnce(d) /\ Used(d, L, N)

\* From disk d to disk e only inode i changes.
OnlyAt(d, e, i) == e \in [Slots -> Inode] /\ \A x \in Slots \ {i} : e[x] = d[x]

\* An inode without entries changes and has none afterwards: the entries stay
\* what they are.
LEMMA EntriesKept ==
  ASSUME NEW d, NEW e, NEW L, NEW N, NEW i \in Slots, DiskTree(d, L, N), i # 0,
         OnlyAt(d, e, i), d[i].ents = <<>>, e[i].ents = <<>>
  PROVE  /\ Directories(e) /\ NamesDiffer(e) /\ NamedOnce(e)
         /\ \A x, k, j : x \in Slots => (Names(e, x, k, j) <=> Names(d, x, k, j))
PROOF
  <1>1. d \in [Slots -> Inode] /\ Directories(d) /\ NamesDiffer(d) /\ NamedOnce(d)
    BY DEF DiskTree
  <1>2. \A x \in Slots \ {i} : e[x] = d[x]
    BY DEF OnlyAt
  <1>3. \A x \in Slots : e[x].ents = d[x].ents
    BY <1>2
  <1>4. \A x, k, j : x \in Slots => (Names(e, x, k, j) <=> Names(d, x, k, j))
    BY <1>3 DEF Names
  <1>5. NamedOnce(e)
    BY <1>1, <1>4 DEF NamedOnce
  <1>6. NamesDiffer(e)
    BY <1>1, <1>3 DEF NamesDiffer
  <1>7. Directories(e)
    BY <1>1, <1>2, <1>3, FileSystemAssumption DEF Directories
  <1> QED
    BY <1>4, <1>5, <1>6, <1>7

\* find_empty_di takes a free inode.
LEMMA TakeTree ==
  ASSUME NEW d, NEW e, NEW L, NEW N, NEW i \in Slots, DiskTree(d, L, N),
         d[i].type = "free", OnlyAt(d, e, i), e[i].type = "new", e[i].ents = d[i].ents
  PROVE  DiskTree(e, L \cup {i}, N) /\ i # 0
PROOF
  <1>1. Directories(d) /\ Used(d, L, N)
    BY DEF DiskTree
  <1>2. i # 0 /\ d[i].ents = <<>> /\ i \notin L \cup N
    BY <1>1 DEF Directories, Used
  <1>3. /\ Directories(e) /\ NamesDiffer(e) /\ NamedOnce(e)
        /\ \A x, k, j : x \in Slots => (Names(e, x, k, j) <=> Names(d, x, k, j))
    BY <1>2, EntriesKept
  <1>4. \A j \in Slots \ {0} :
          (\E x \in Slots : \E k : Names(e, x, k, j)) <=> e[j].type # "free" /\ j \notin L \cup {i}
    <2>1. \A j \in Slots \ {0} :
            (\E x \in Slots : \E k : Names(e, x, k, j)) <=> d[j].type # "free" /\ j \notin L
      BY <1>1, <1>3 DEF Used
    <2> QED
      BY <1>2, <2>1 DEF OnlyAt
  <1>5. \A j \in Slots : e[j].type = "new" <=> j \in (L \cup {i}) \cup N
    BY <1>1 DEF Used, OnlyAt
  <1>6. Used(e, L \cup {i}, N)
    BY <1>1, <1>2, <1>4, <1>5 DEF Used
  <1> QED
    BY <1>2, <1>3, <1>6 DEF DiskTree, OnlyAt

\* denemefs_free_inode gives back an inode that was taken in vain.
LEMMA DropTree ==
  ASSUME NEW d, NEW e, NEW L, NEW N, NEW i \in Slots, DiskTree(d, L, N), i \in L,
         OnlyAt(d, e, i), e[i] = Free
  PROVE  DiskTree(e, L \ {i}, N)
PROOF
  <1>1. Directories(d) /\ Used(d, L, N)
    BY DEF DiskTree
  <1>2. d[i].type = "new" /\ i # 0 /\ d[i].ents = <<>> /\ i \notin N
    BY <1>1 DEF Directories, Used
  <1>3. e[i].ents = <<>> /\ e[i].type = "free"
    BY DEF Free
  <1>4. /\ Directories(e) /\ NamesDiffer(e) /\ NamedOnce(e)
        /\ \A x, k, j : x \in Slots => (Names(e, x, k, j) <=> Names(d, x, k, j))
    BY <1>2, <1>3, EntriesKept
  <1>5. \A j \in Slots \ {0} :
          (\E x \in Slots : \E k : Names(e, x, k, j)) <=> e[j].type # "free" /\ j \notin L \ {i}
    <2>1. \A j \in Slots \ {0} :
            (\E x \in Slots : \E k : Names(e, x, k, j)) <=> d[j].type # "free" /\ j \notin L
      BY <1>1, <1>4 DEF Used
    <2> QED
      BY <1>2, <1>3, <2>1 DEF OnlyAt
  <1>6. \A j \in Slots : e[j].type = "new" <=> j \in (L \ {i}) \cup N
    BY <1>1, <1>2, <1>3 DEF Used, OnlyAt
  <1>7. Used(e, L \ {i}, N)
    BY <1>1, <1>5, <1>6 DEF Used
  <1> QED
    BY <1>4, <1>7 DEF DiskTree, OnlyAt

\* The end of denemefs_create and denemefs_mkdir gives a named inode its mode
\* and its data.
LEMMA FillTree ==
  ASSUME NEW d, NEW e, NEW L, NEW N, NEW i \in Slots, DiskTree(d, L, N), i \in N,
         OnlyAt(d, e, i), e[i].type \in {"file", "dir"}, e[i].ents = <<>>
  PROVE  DiskTree(e, L, N \ {i})
PROOF
  <1>1. Directories(d) /\ Used(d, L, N)
    BY DEF DiskTree
  <1>2. d[i].type = "new" /\ i # 0 /\ d[i].ents = <<>> /\ i \notin L
    BY <1>1 DEF Directories, Used
  <1>3. /\ Directories(e) /\ NamesDiffer(e) /\ NamedOnce(e)
        /\ \A x, k, j : x \in Slots => (Names(e, x, k, j) <=> Names(d, x, k, j))
    BY <1>2, EntriesKept
  <1>4. \A j \in Slots \ {0} :
          (\E x \in Slots : \E k : Names(e, x, k, j)) <=> e[j].type # "free" /\ j \notin L
    <2>1. \A j \in Slots \ {0} :
            (\E x \in Slots : \E k : Names(e, x, k, j)) <=> d[j].type # "free" /\ j \notin L
      BY <1>1, <1>3 DEF Used
    <2> QED
      BY <1>2, <2>1 DEF OnlyAt
  <1>5. \A j \in Slots : e[j].type = "new" <=> j \in L \cup (N \ {i})
    BY <1>1, <1>2 DEF Used, OnlyAt
  <1>6. Used(e, L, N \ {i})
    BY <1>1, <1>4, <1>5 DEF Used
  <1> QED
    BY <1>3, <1>6 DEF DiskTree, OnlyAt

\* denemefs_add_entry puts the name of a taken inode behind the last entry of
\* a directory without that name.
LEMMA NameTree ==
  ASSUME NEW d, NEW e, NEW L, NEW N, NEW i \in Slots, NEW x \in Slots, DiskTree(d, L, N),
         i \in L, d[x].type = "dir", Len(d[x].ents) < SubdentryCount, NEW name \in Name,
         \A k \in 1 .. Len(d[x].ents) : d[x].ents[k].name # name,
         OnlyAt(d, e, x), e[x].type = "dir",
         e[x].ents = Append(d[x].ents, [name |-> name, no |-> i])
  PROVE  DiskTree(e, L \ {i}, N \cup {i})
PROOF
  <1>1. /\ d \in [Slots -> Inode] /\ Directories(d) /\ NamesDiffer(d) /\ NamedOnce(d)
        /\ Used(d, L, N)
    BY DEF DiskTree
  <1>2. d[i].type = "new" /\ i # 0 /\ i # x /\ i \notin N
    BY <1>1 DEF Directories, Used
  <1>3. PICK n : n = Len(d[x].ents) + 1
    OBVIOUS
  <1>4. d[x].ents \in Seq(Entry) /\ [name |-> name, no |-> i] \in Entry
    BY <1>1 DEF Inode, Entry
  <1>5. /\ n \in Nat /\ Len(e[x].ents) = n /\ Len(d[x].ents) = n - 1
        /\ e[x].ents[n].name = name /\ e[x].ents[n].no = i
        /\ \A k \in 1 .. n - 1 : e[x].ents[k] = d[x].ents[k]
    BY <1>3, <1>4, AppendProperties
  <1>6. \A y \in Slots \ {x} : e[y] = d[y]
    BY DEF OnlyAt
  <1>7. \A y, k, j : y \in Slots =>
          (Names(e, y, k, j) <=> Names(d, y, k, j) \/ (y = x /\ k = n /\ j = i))
    <2> SUFFICES ASSUME NEW y, NEW k, NEW j, y \in Slots
                 PROVE  Names(e, y, k, j) <=> Names(d, y, k, j) \/ (y = x /\ k = n /\ j = i)
      OBVIOUS
    <2>1. CASE y # x
      BY <2>1, <1>6 DEF Names
    <2>2. CASE y = x
      BY <2>2, <1>5, SMTT(30) DEF Names
    <2> QED
      BY <2>1, <2>2
  <1>8. \A y \in Slots : \A k : ~Names(d, y, k, i)
    BY <1>1, <1>2 DEF Used
  <1>9. NamedOnce(e)
    BY <1>1, <1>7, <1>8 DEF NamedOnce
  <1>10. NamesDiffer(e)
    <2>1. \A y \in Slots \ {x} : \A j, k \in 1 .. Len(e[y].ents) :
            (e[y].ents[j].no # 0 /\ e[y].ents[k].no # 0
               /\ e[y].ents[j].name = e[y].ents[k].name) => j = k
      BY <1>1, <1>6 DEF NamesDiffer
    <2>2. ASSUME NEW j \in 1 .. Len(e[x].ents), NEW k \in 1 .. Len(e[x].ents),
                 e[x].ents[j].no # 0, e[x].ents[k].no # 0,
                 e[x].ents[j].name = e[x].ents[k].name
          PROVE  j = k
      <3>1. CASE j = n \/ k = n
        BY <2>2, <3>1, <1>5
      <3>2. CASE j # n /\ k # n
        <4>1. j \in 1 .. Len(d[x].ents) /\ k \in 1 .. Len(d[x].ents)
          BY <3>2, <1>5
        <4> QED
          BY <4>1, <2>2, <1>1, <1>5 DEF NamesDiffer
      <3> QED
        BY <3>1, <3>2
    <2> QED
      BY <2>1, <2>2 DEF NamesDiffer
  <1>11. Directories(e)
    <2>1. e[x].ents # <<>> /\ Len(e[x].ents) <= SubdentryCount
      BY <1>4, <1>5, FileSystemAssumption
    <2> QED
      BY <1>1, <1>6, <2>1, FileSystemAssumption DEF Directories
  <1>12. \A j \in Slots : e[j].type = d[j].type
    BY <1>6
  <1>13. \A j \in Slots \ {0} :
           (\E y \in Slots : \E k : Names(e, y, k, j)) <=> e[j].type # "free" /\ j \notin L \ {i}
    <2>1. \A j \in Slots \ {0} :
            (\E y \in Slots : \E k : Names(d, y, k, j)) <=> d[j].type # "free" /\ j \notin L
      BY <1>1 DEF Used
    <2>2. \A j \in Slots \ {0} :
            (\E y \in Slots : \E k : Names(e, y, k, j))
              <=> (\E y \in Slots : \E k : Names(d, y, k, j)) \/ j = i
      BY <1>7
    <2> QED
      BY <1>2, <1>12, <2>1, <2>2
  <1>14. Used(e, L \ {i}, N \cup {i})
    BY <1>1, <1>12, <1>13 DEF Used
  <1> QED
    BY <1>9, <1>10, <1>11, <1>14 DEF DiskTree, OnlyAt

\* denemefs_unlink and denemefs_rmdir empty the entry k of directory x, and
\* free the inode j that it named.
LEMMA RemoveTree ==
  ASSUME NEW d, NEW e, NEW L, NEW N, NEW x \in Slots, NEW j \in Slots, NEW k,
         DiskTree(d, L, N), Names(d, x, k, j),
         d[j].type = "file" \/ (d[j].type = "dir" /\ d[j].ents = <<>>),
         e \in [Slots -> Inode], \A y \in Slots \ {x, j} : e[y] = d[y],
         j # x => e[j] = Free,
         j # x => e[x].type = d[x].type,
         j # x => e[x].ents = [d[x].ents EXCEPT ![k] = [name |-> NoName, no |-> 0]]
  PROVE  DiskTree(e, L, N)
PROOF
  <1>1. /\ d \in [Slots -> Inode] /\ Directories(d) /\ NamesDiffer(d) /\ NamedOnce(d)
        /\ Used(d, L, N)
    BY DEF DiskTree
  <1>2. k \in 1 .. Len(d[x].ents) /\ d[x].ents[k].no = j /\ d[x].ents \in Seq(Entry)
    BY <1>1 DEF Names, Inode
  <1>3. d[x].ents # <<>> /\ d[x].type = "dir"
    BY <1>1, <1>2 DEF Directories
  <1>4. j # x /\ j # 0 /\ j \notin L \cup N
    BY <1>1, <1>3 DEF Directories, Used
  <1>5. /\ e[j].type = "free" /\ e[j].ents = <<>> /\ e[x].type = "dir"
        /\ \A y \in Slots \ {x, j} : e[y] = d[y]
    BY <1>3, <1>4 DEF Free
  <1>6. /\ Len(e[x].ents) = Len(d[x].ents)
        /\ e[x].ents[k].no = 0
        /\ \A l \in 1 .. Len(d[x].ents) : l # k => e[x].ents[l] = d[x].ents[l]
    BY <1>2, <1>4
  <1>7. d[j].ents = <<>>
    BY <1>1 DEF Directories
  <1>8. \A y, l, i : y \in Slots /\ i # 0 =>
          (Names(e, y, l, i) <=> Names(d, y, l, i) /\ ~(y = x /\ l = k))
    <2> SUFFICES ASSUME NEW y, NEW l, NEW i, y \in Slots, i # 0
                 PROVE  Names(e, y, l, i) <=> Names(d, y, l, i) /\ ~(y = x /\ l = k)
      OBVIOUS
    <2>1. CASE y = x
      BY <2>1, <1>2, <1>6 DEF Names
    <2>2. CASE y = j
      BY <2>2, <1>4, <1>5, <1>7 DEF Names
    <2>3. CASE y # x /\ y # j
      BY <2>3, <1>5 DEF Names
    <2> QED
      BY <2>1, <2>2, <2>3
  <1>9. NamedOnce(e)
    BY <1>1, <1>8 DEF NamedOnce
  <1>10. NamesDiffer(e)
    <2> SUFFICES ASSUME NEW y \in Slots, NEW a \in 1 .. Len(e[y].ents),
                        NEW b \in 1 .. Len(e[y].ents),
                        e[y].ents[a].no # 0, e[y].ents[b].no # 0,
                        e[y].ents[a].name = e[y].ents[b].name
                 PROVE  a = b
      BY DEF NamesDiffer
    <2>1. CASE y = x
      <3>1. a # k /\ b # k
        BY <2>1, <1>6
      <3>2. e[x].ents[a] = d[x].ents[a] /\ e[x].ents[b] = d[x].ents[b]
        BY <2>1, <3>1, <1>6
      <3> QED
        BY <2>1, <3>2, <1>1, <1>6 DEF NamesDiffer
    <2>2. CASE y = j
      BY <2>2, <1>5
    <2>3. CASE y # x /\ y # j
      BY <2>3, <1>1, <1>5 DEF NamesDiffer
    <2> QED
      BY <2>1, <2>2, <2>3
  <1>11. Directories(e)
    <2>1. e[x].ents \in Seq(Entry) /\ e[x].ents # <<>> /\ Len(e[x].ents) <= SubdentryCount
      <3>1. e[x] \in Inode
        OBVIOUS
      <3> QED
        BY <3>1, <1>1, <1>2, <1>6 DEF Inode, Directories
    <2>2. Len(e[j].ents) <= SubdentryCount
      BY <1>5, FileSystemAssumption
    <2> QED
      BY <1>1, <1>4, <1>5, <2>1, <2>2, FileSystemAssumption DEF Directories
  <1>12. \A i \in Slots \ {0} :
           (\E y \in Slots : \E l : Names(e, y, l, i)) <=> e[i].type # "free" /\ i \notin L
    <2> SUFFICES ASSUME NEW i \in Slots \ {0}
                 PROVE  (\E y \in Slots : \E l : Names(e, y, l, i))
                          <=> e[i].type # "free" /\ i \notin L
      OBVIOUS
    <2>1. (\E y \in Slots : \E l : Names(d, y, l, i)) <=> d[i].type # "free" /\ i \notin L
      BY <1>1 DEF Used
    <2>2. CASE i = j
      <3>1. \A y \in Slots : \A l : Names(d, y, l, j) => y = x /\ l = k
        BY <1>1, <1>4 DEF NamedOnce
      <3> QED
        BY <2>2, <3>1, <1>4, <1>5, <1>8
    <2>3. CASE i # j
      <3>1. ~Names(d, x, k, i)
        BY <2>3, <1>2 DEF Names
      <3>2. (\E y \in Slots : \E l : Names(e, y, l, i))
              <=> (\E y \in Slots : \E l : Names(d, y, l, i))
        BY <3>1, <1>8
      <3>3. e[i].type = d[i].type
        BY <2>3, <1>3, <1>5
      <3> QED
        BY <3>2, <3>3, <2>1
    <2> QED
      BY <2>2, <2>3
  <1>13. \A i \in Slots : e[i].type = "new" <=> i \in L \cup N
    <2>1. \A i \in Slots \ {j} : e[i].type = d[i].type
      BY <1>3, <1>5
    <2> QED
      BY <2>1, <1>1, <1>4, <1>5 DEF Used
  <1>14. Used(e, L, N)
    BY <1>1, <1>12, <1>13 DEF Used
  <1> QED
    BY <1>9, <1>10, <1>11, <1>14 DEF DiskTree

\* The entry that denemefs_lookup finds has the name, and none has it when it
\* finds nothing.
LEMMA LookupFinds ==
  ASSUME NEW d \in [Slots -> Inode], NEW x \in Slots, NEW name
  PROVE  /\ lookup(d, x, name) # 0 =>
              /\ d[x].type = "dir" /\ lookup(d, x, name) \in 1 .. Len(d[x].ents)
              /\ d[x].ents[lookup(d, x, name)].name = name
              /\ EntryIno(d, x, name) \in Slots
              /\ Names(d, x, lookup(d, x, name), EntryIno(d, x, name))
         /\ lookup(d, x, name) = 0 /\ d[x].type = "dir" =>
              \A k \in 1 .. Len(d[x].ents) : d[x].ents[k].name # name
PROOF
  <1> DEFINE found == {k \in DOMAIN d[x].ents : d[x].ents[k].name = name}
  <1>1. d[x].ents \in Seq(Entry) /\ DOMAIN d[x].ents = 1 .. Len(d[x].ents)
    BY DEF Inode
  <1>2. found \in SUBSET Nat
    BY <1>1
  <1>3. CASE d[x].type # "dir" \/ found = {}
    <2>1. lookup(d, x, name) = 0
      BY <1>3 DEF lookup
    <2> QED
      BY <2>1, <1>1, <1>3
  <1>4. CASE d[x].type = "dir" /\ found # {}
    <2>1. \E k \in found : \A m \in found : k <= m
      BY <1>2, <1>4, LeastNatural
    <2>2. lookup(d, x, name) = CHOOSE k \in found : \A m \in found : k <= m
      BY <1>4 DEF lookup
    <2>3. lookup(d, x, name) \in found
      BY <2>1, <2>2
    <2>4. /\ lookup(d, x, name) \in 1 .. Len(d[x].ents)
          /\ d[x].ents[lookup(d, x, name)].name = name
          /\ lookup(d, x, name) # 0
      BY <2>3, <1>1
    <2>5. EntryIno(d, x, name) \in Slots
      <3>1. d[x].ents[lookup(d, x, name)] \in Entry
        BY <2>4, <1>1
      <3> QED
        BY <3>1 DEF EntryIno, Entry
    <2> QED
      BY <2>4, <2>5, <1>4 DEF Names, EntryIno
  <1> QED
    BY <1>3, <1>4

\* What remove leaves of the disk
LEMMA RemoveKeepsTree ==
  ASSUME NEW d, NEW e, NEW L, NEW N, NEW x \in Slots, NEW name, NEW type \in {"file", "dir"},
         DiskTree(d, L, N), may_remove(type, d, x, name), e = remove(d, x, name)
  PROVE  DiskTree(e, L, N)
PROOF
  <1>1. d \in [Slots -> Inode]
    BY DEF DiskTree
  <1>2. lookup(d, x, name) # 0
    BY DEF may_remove, denemefs_unlink, denemefs_rmdir
  <1>3. PICK k : k = lookup(d, x, name)
    OBVIOUS
  <1>4. PICK j : j = EntryIno(d, x, name)
    OBVIOUS
  <1>5. j \in Slots /\ Names(d, x, k, j)
    BY <1>1, <1>2, <1>3, <1>4, LookupFinds
  <1>6. d[j].type = "file" \/ (d[j].type = "dir" /\ d[j].ents = <<>>)
    BY <1>4 DEF may_remove, denemefs_unlink, denemefs_rmdir, is_empty_dir
  <1>7. e = [[d EXCEPT ![x].ents[k] = [name |-> NoName, no |-> 0]] EXCEPT ![j] = Free]
    BY <1>3, <1>4 DEF remove, denemefs_free_inode, remove_entry
  <1>8. PICK r : r = [d[x] EXCEPT !.ents[k] = [name |-> NoName, no |-> 0]]
    OBVIOUS
  <1>9. /\ r \in Inode /\ r.type = d[x].type
        /\ r.ents = [d[x].ents EXCEPT ![k] = [name |-> NoName, no |-> 0]]
    <2>1. d[x] \in Inode /\ d[x].ents \in Seq(Entry) /\ k \in 1 .. Len(d[x].ents)
      BY <1>1, <1>5 DEF Inode, Names
    <2>2. [name |-> NoName, no |-> 0] \in Entry
      BY FileSystemAssumption DEF Entry, Name
    <2>3. [d[x].ents EXCEPT ![k] = [name |-> NoName, no |-> 0]] \in Seq(Entry)
      BY <2>1, <2>2
    <2> QED
      BY <1>8, <2>1, <2>3 DEF Inode
  <1>10. Free \in Inode
    BY DEF Free, Inode
  <1>11. e = [[d EXCEPT ![x] = r] EXCEPT ![j] = Free]
    BY <1>7, <1>8
  <1>12. /\ e \in [Slots -> Inode] /\ \A y \in Slots \ {x, j} : e[y] = d[y]
         /\ j # x => e[j] = Free /\ e[x] = r
    BY <1>1, <1>5, <1>9, <1>10, <1>11
  <1> QED
    <2> HIDE DEF remove
    <2>1. /\ j # x => e[j] = Free
          /\ j # x => e[x].type = d[x].type
          /\ j # x => e[x].ents = [d[x].ents EXCEPT ![k] = [name |-> NoName, no |-> 0]]
      BY <1>9, <1>12
    <2> QED
      BY <1>5, <1>6, <1>12, <2>1, RemoveTree

-----------------------------------------------------------------------------
(* The cache and the walks through it.                                     *)

Dirent == [st : {"none", "live", "deleted"}, parent : Ids, name : Name, ino : Slots, ref : Int]
Cache == [Ids -> Dirent]
Results == {"ok", "fail", "wait", "bound", "Unknown file type", "dirent_free"}
WalkState == [c : Cache, d : Ids, r : Results]

\* Types of everything a walk reads
WalkTypes == di \in [Slots -> Inode] /\ dc \in Cache /\ pwd \in [Tasks -> Ids]

\* dirent_lookup goes from a dirent to a dirent.
LEMMA LookupType ==
  ASSUME WalkTypes, NEW w \in WalkState, NEW name \in Name
  PROVE  dirent_lookup(w, name) \in WalkState
PROOF
  <1>1. w.c \in Cache /\ w.d \in Ids /\ w.c[w.d] \in Dirent
    BY DEF WalkState, Cache
  <1>2. w.c[w.d].parent \in Ids /\ w.c[w.d].ino \in Slots
    BY <1>1 DEF Dirent
  <1>3. \A v \in Results : [w EXCEPT !.r = v] \in WalkState
    BY DEF WalkState
  <1>4. \A v \in Ids : [w EXCEPT !.d = v] \in WalkState
    BY DEF WalkState
  <1>5. ASSUME NEW ino \in Slots, Unused(w.c) # {}
        PROVE  dirent_cache_add(w, name, ino) \in WalkState
    <2>1. PICK x : x = NewId(w.c)
      OBVIOUS
    <2>2. Unused(w.c) \in SUBSET Nat
      BY FileSystemAssumption DEF Unused
    <2>3. x \in Unused(w.c)
      BY <1>5, <2>1, <2>2, LeastNatural DEF NewId
    <2>4. x \in Ids
      BY <2>3 DEF Unused, Ids
    <2>5. PICK v : v = [st |-> "live", parent |-> w.d, name |-> name, ino |-> ino, ref |-> 1]
      OBVIOUS
    <2>6. v \in Dirent
      BY <2>5, <1>1 DEF Dirent
    <2>7. [w.c EXCEPT ![x] = v] \in Cache
      BY <1>1, <2>6 DEF Cache
    <2>8. dirent_cache_add(w, name, ino) = [w EXCEPT !.d = x, !.c = [w.c EXCEPT ![x] = v]]
      BY <2>1, <2>5 DEF dirent_cache_add
    <2> QED
      BY <2>4, <2>7, <2>8 DEF WalkState
  <1>6. Childs(w.c, w.d, name) # {} =>
          (CHOOSE x \in Childs(w.c, w.d, name) : TRUE) \in Ids
    BY DEF Childs, Ids
  <1>7. lookup(di, w.c[w.d].ino, name) # 0 => EntryIno(di, w.c[w.d].ino, name) \in Slots
    BY <1>2, LookupFinds DEF WalkTypes
  <1> QED
    BY <1>2, <1>3, <1>4, <1>5, <1>6, <1>7 DEF dirent_lookup, Results

\* An empty name is passed over.
LEMMA NextType ==
  ASSUME WalkTypes, NEW w \in WalkState, NEW name \in Name
  PROVE  next_name(w, name) \in WalkState
  BY LookupType DEF next_name

\* g is the walk of dirent_find from s along the first m names.
IsWalk(g, s, names, m) ==
  g = [n \in 0 .. m |-> IF n = 0 THEN s ELSE next_name(g[n - 1], names[n])]

\* The recursion of dirent_find is well-founded: it has one step per name.
LEMMA WalkExists ==
  ASSUME NEW s, NEW names, NEW m \in Nat
  PROVE  \E g : IsWalk(g, s, names, m)
PROOF
  <1> USE DEF IsWalk
  <1> DEFINE Def(g, k) == IsWalk(g, s, names, k)
             S == {k \in Nat : \E g : Def(g, k)}
  <1>1. 0 \in S
    <2>1. Def([n \in 0 .. 0 |-> s], 0)
      OBVIOUS
    <2> QED
      BY <2>1
  <1>2. ASSUME NEW k \in Nat, k \in S PROVE k + 1 \in S
    <2>1. PICK g : Def(g, k)
      BY <1>2
    <2>2. PICK v : v = next_name(g[k], names[k + 1])
      OBVIOUS
    <2>3. PICK h : h = [n \in 0 .. k + 1 |-> IF n = k + 1 THEN v ELSE g[n]]
      OBVIOUS
    <2>4. h[k + 1] = v /\ \A n \in 0 .. k : h[n] = g[n]
      BY <2>3
    <2>5. \A n \in 0 .. k : g[n] = IF n = 0 THEN s ELSE next_name(g[n - 1], names[n])
      BY <2>1
    <2>6. ASSUME NEW n \in 0 .. k + 1
          PROVE  h[n] = IF n = 0 THEN s ELSE next_name(h[n - 1], names[n])
      <3>1. CASE n = k + 1
        <4>1. n - 1 = k /\ n # 0 /\ h[n - 1] = g[k]
          BY <3>1, <2>4
        <4> QED
          BY <4>1, <3>1, <2>2, <2>4
      <3>2. CASE n = 0
        BY <3>2, <2>4, <2>5
      <3>3. CASE n # 0 /\ n # k + 1
        <4>1. n \in 0 .. k /\ n - 1 \in 0 .. k
          BY <3>3
        <4>2. h[n] = g[n] /\ h[n - 1] = g[n - 1]
          BY <4>1, <2>4
        <4> QED
          BY <4>1, <4>2, <3>3, <2>5
      <3> QED
        BY <3>1, <3>2, <3>3
    <2>7. h = [n \in 0 .. k + 1 |-> h[n]]
      BY <2>3
    <2>8. Def(h, k + 1)
      BY <2>6, <2>7
    <2> QED
      BY <2>8
  <1> HIDE DEF S
  <1>3. Nat \subseteq S
    BY <1>1, <1>2, InductionSet
  <1>4. m \in S
    BY <1>3
  <1> QED
    BY <1>4 DEF S

\* dirent_find ends at a dirent, whatever the path.
LEMMA FindType ==
  ASSUME WalkTypes, NEW t \in Tasks, NEW p, NEW names \in Seq(Name)
  PROVE  dirent_find(t, p, names) \in WalkState
PROOF
  <1>1. PICK s : s = [c |-> dc, d |-> IF p.abs THEN Root ELSE pwd[t], r |-> "ok"]
    OBVIOUS
  <1>2. s \in WalkState
    BY <1>1 DEF WalkState, WalkTypes, Ids, Results
  <1>3. PICK m \in Nat : m = Len(names)
    OBVIOUS
  <1>4. \E g : IsWalk(g, s, names, m)
    BY WalkExists
  <1>5. PICK walk : walk = CHOOSE g : IsWalk(g, s, names, m)
    OBVIOUS
  <1>6. walk = [n \in 0 .. m |-> IF n = 0 THEN s ELSE next_name(walk[n - 1], names[n])]
    <2>1. IsWalk(walk, s, names, m)
      BY <1>4, <1>5
    <2> QED
      BY <2>1 DEF IsWalk
  <1>7. dirent_find(t, p, names) = walk[m]
    BY <1>1, <1>3, <1>5 DEF dirent_find, IsWalk
  <1> DEFINE S == {n \in Nat : n <= m => walk[n] \in WalkState}
  <1>8. 0 \in S
    <2>1. walk[0] = s
      BY <1>6
    <2> QED
      BY <2>1, <1>2
  <1>9. ASSUME NEW n \in Nat, n \in S PROVE n + 1 \in S
    <2>1. CASE n + 1 <= m
      <3>1. walk[n] \in WalkState /\ names[n + 1] \in Name
        BY <2>1, <1>9, <1>3
      <3>2. n + 1 \in 0 .. m /\ n + 1 # 0 /\ (n + 1) - 1 = n
        BY <2>1
      <3>3. walk[n + 1] = next_name(walk[n], names[n + 1])
        BY <3>2, <1>6
      <3> QED
        BY <3>1, <3>3, NextType
    <2>2. CASE ~(n + 1 <= m)
      BY <2>2
    <2> QED
      BY <2>1, <2>2
  <1> HIDE DEF S
  <1>10. Nat \subseteq S
    BY <1>8, <1>9, InductionSet
  <1>11. m \in S
    BY <1>10
  <1> QED
    BY <1>7, <1>11 DEF S

\* The other operations on the cache keep its type.
LEMMA CacheTypes ==
  /\ \A c \in Cache, d \in Ids : dirent_dup(c, d) \in Cache
  /\ \A c \in Cache : \A x : dirent_delete(c, x) \in Cache
  /\ \A c \in Cache : \A q : Forget(c, q) \in Cache
  /\ \A w \in WalkState : dirent_free(w) \in WalkState /\ inode_dup(w) \in WalkState
PROOF
  <1>1. NoDirent \in Dirent
    BY FileSystemAssumption DEF NoDirent, Dirent, Name, Ids
  <1>2. ASSUME NEW c \in Cache, NEW d \in Ids, NEW v \in Int
        PROVE  [c EXCEPT ![d].ref = v] \in Cache
    <2>1. [c[d] EXCEPT !.ref = v] \in Dirent
      BY DEF Cache, Dirent
    <2> QED
      BY <2>1 DEF Cache
  <1>3. \A c \in Cache, d \in Ids : c[d].ref \in Int
    BY DEF Cache, Dirent
  <1>4. \A c \in Cache, d \in Ids : dirent_dup(c, d) \in Cache
    BY <1>2, <1>3 DEF dirent_dup
  <1>5. ASSUME NEW c \in Cache, NEW x PROVE dirent_delete(c, x) \in Cache
    <2>1. \A v \in Int : [NoDirent EXCEPT !.st = "deleted", !.ref = v] \in Dirent
      BY <1>1 DEF Dirent
    <2>2. \A y \in Ids : c[y] \in Dirent
      BY DEF Cache
    <2>3. PICK f : f = [y \in Ids |-> [NoDirent EXCEPT !.st = "deleted", !.ref = c[y].ref - 1]]
      OBVIOUS
    <2>4. ASSUME NEW y \in Ids PROVE f[y] \in Dirent
      <3>1. PICK v \in Int : v = c[y].ref - 1
        BY <1>3
      <3>2. f[y] = [NoDirent EXCEPT !.st = "deleted", !.ref = v]
        BY <2>3, <3>1
      <3> QED
        BY <2>1, <3>2
    <2>5. PICK S : S = Subtree(c, x)
      OBVIOUS
    <2>6. dirent_delete(c, x) = [y \in Ids |-> IF y \in S THEN f[y] ELSE c[y]]
      BY <2>3, <2>5 DEF dirent_delete
    <2> QED
      BY <2>2, <2>4, <2>6 DEF Cache
  <1>6. ASSUME NEW c \in Cache, NEW q PROVE Forget(c, q) \in Cache
    BY <1>1 DEF Forget, Cache
  <1>7. ASSUME NEW w \in WalkState PROVE dirent_free(w) \in WalkState
    <2>1. w.c \in Cache /\ w.d \in Ids
      BY DEF WalkState
    <2>2. PICK k : k = [w.c EXCEPT ![w.d].ref = w.c[w.d].ref - 1]
      OBVIOUS
    <2>3. k \in Cache
      BY <1>2, <1>3, <2>1, <2>2
    <2>4. PICK v \in Results : v = IF w.c[w.d].ref = 0 THEN "dirent_free" ELSE w.r
      BY DEF WalkState, Results
    <2>5. dirent_free(w) = [w EXCEPT !.c = k, !.r = v]
      BY <2>2, <2>4 DEF dirent_free
    <2> QED
      BY <2>3, <2>5 DEF WalkState
  <1>8. ASSUME NEW w \in WalkState PROVE inode_dup(w) \in WalkState
    BY DEF inode_dup, WalkState, Results
  <1> QED
    BY <1>4, <1>5, <1>6, <1>7, <1>8

\* The walks of the system calls end at dirents.
LEMMA WalksTyped ==
  ASSUME WalkTypes, NEW t \in Tasks, NEW p \in Paths
  PROVE  /\ dirent_find(t, p, p.dirs) \in WalkState
         /\ dirent_find(t, p, Append(p.dirs, p.name)) \in WalkState
         /\ dirent_find2(t, p) \in WalkState
         /\ inode_find(t, p) \in WalkState /\ inode_find2(t, p) \in WalkState
PROOF
  <1>1. p.dirs \in Seq(STRING) /\ p.name \in STRING
    BY FileSystemAssumption
  <1>2. p.dirs \in Seq(Name) /\ p.name \in Name
    BY <1>1 DEF Name
  <1>3. Append(p.dirs, p.name) \in Seq(Name)
    BY <1>2
  <1>4. /\ dirent_find(t, p, p.dirs) \in WalkState
        /\ dirent_find(t, p, Append(p.dirs, p.name)) \in WalkState
    BY <1>2, <1>3, FindType
  <1>5. dirent_find2(t, p) \in WalkState
    BY <1>4, CacheTypes DEF dirent_find2
  <1> QED
    BY <1>4, <1>5, CacheTypes DEF inode_find, inode_find2

\* and leave a cache and a dirent whose inode is on the disk.
LEMMA WalkEnds ==
  ASSUME NEW w \in WalkState
  PROVE  w.c \in Cache /\ w.d \in Ids /\ w.c[w.d].ino \in Slots
  BY DEF WalkState, Cache, Dirent

-----------------------------------------------------------------------------
(* The invariant.                                                          *)

CreateCall == [step : {"find_empty_di", "take_di", "add_entry", "fill"}, dir : Slots,
               name : Name, type : {"file", "dir"}, rw : BOOLEAN, ino : Slots]
RemoveCall == [step : {"cache_remove"}, path : Paths, locked : Ids]
Calls == {Idle} \cup CreateCall \cup RemoveCall

\* The inodes of the calls that are at a step
AtStep(q, s) == {q[t].ino : t \in {u \in Tasks : q[u].step = s}}

\* One call at a time, and what it has made of the disk so far
Consistent(d, q) ==
  /\ q \in [Tasks -> Calls]
  /\ \A t, u \in Tasks : t # u => q[t] = Idle \/ q[u] = Idle
  /\ \A t \in Tasks : q[t].step = "take_di" => d[q[t].ino].type = "free"
  /\ DiskTree(d, AtStep(q, "add_entry"), AtStep(q, "fill"))

\* This holds as long as calls do not overlap.
DiskInv == Running /\ ~overlap => WalkTypes /\ Consistent(di, pc)

\* With one call, at most one inode is at a step.
LEMMA AtStepAlone ==
  ASSUME NEW q \in [Tasks -> Calls], NEW t \in Tasks, \A u \in Tasks \ {t} : q[u] = Idle
  PROVE  /\ q[t].step = "add_entry" => AtStep(q, "add_entry") = {q[t].ino}
         /\ q[t].step # "add_entry" => AtStep(q, "add_entry") = {}
         /\ q[t].step = "fill" => AtStep(q, "fill") = {q[t].ino}
         /\ q[t].step # "fill" => AtStep(q, "fill") = {}
PROOF
  <1>1. Idle.step = "idle"
    BY DEF Idle
  <1>2. ASSUME NEW s \in {"add_entry", "fill"}
        PROVE  /\ q[t].step = s => AtStep(q, s) = {q[t].ino}
               /\ q[t].step # s => AtStep(q, s) = {}
    <2>1. \A u \in Tasks : q[u].step = s => u = t
      BY <1>1
    <2> QED
      BY <2>1, Zenon DEF AtStep
  <1> QED
    BY <1>2

\* The call of t goes on to v, with the disk e.
LEMMA CallGoesOn ==
  ASSUME NEW d, NEW q, NEW e, NEW r, NEW t \in Tasks, NEW v \in Calls, Consistent(d, q),
         \A u \in Tasks \ {t} : q[u] = Idle, r = [q EXCEPT ![t] = v],
         v.step = "take_di" => e[v.ino].type = "free",
         DiskTree(e, IF v.step = "add_entry" THEN {v.ino} ELSE {},
                     IF v.step = "fill" THEN {v.ino} ELSE {})
  PROVE  Consistent(e, r)
PROOF
  <1>1. q \in [Tasks -> Calls]
    BY DEF Consistent
  <1>2. r \in [Tasks -> Calls] /\ r[t] = v /\ \A u \in Tasks \ {t} : r[u] = Idle
    BY <1>1
  <1>3. \A u \in Tasks : r[u].step = "take_di" => e[r[u].ino].type = "free"
    <2>1. Idle.step = "idle"
      BY DEF Idle
    <2> QED
      BY <1>2, <2>1
  <1>4. /\ AtStep(r, "add_entry") = IF v.step = "add_entry" THEN {v.ino} ELSE {}
        /\ AtStep(r, "fill") = IF v.step = "fill" THEN {v.ino} ELSE {}
    BY <1>2, AtStepAlone
  <1>5. \A x, u \in Tasks : x # u => r[x] = Idle \/ r[u] = Idle
    BY <1>2
  <1> QED
    BY <1>2, <1>3, <1>4, <1>5 DEF Consistent

\* The disk while the call of t is at a step
LEMMA CallDisk ==
  ASSUME NEW d, NEW q, NEW t \in Tasks, Consistent(d, q), \A u \in Tasks \ {t} : q[u] = Idle
  PROVE  DiskTree(d, IF q[t].step = "add_entry" THEN {q[t].ino} ELSE {},
                     IF q[t].step = "fill" THEN {q[t].ino} ELSE {})
PROOF
  <1>1. q \in [Tasks -> Calls] /\ DiskTree(d, AtStep(q, "add_entry"), AtStep(q, "fill"))
    BY DEF Consistent
  <1>2. /\ AtStep(q, "add_entry") = IF q[t].step = "add_entry" THEN {q[t].ino} ELSE {}
        /\ AtStep(q, "fill") = IF q[t].step = "fill" THEN {q[t].ino} ELSE {}
    BY <1>1, AtStepAlone
  <1> QED
    BY <1>1, <1>2

-----------------------------------------------------------------------------
(* The steps.                                                              *)

\* No task but t is inside create or unlink.
Alone(t) == \A u \in Tasks \ {t} : pc[u] = Idle

\* A task that starts a call and overlaps with nobody is the only one in a call.
LEMMA StartsAlone ==
  ASSUME Consistent(di, pc), NEW t \in Tasks, NEW v, v.step # "idle",
         pc' = [pc EXCEPT ![t] = v], ~Overlapping'
  PROVE  Alone(t)
PROOF
  <1>1. pc \in [Tasks -> Calls]
    BY DEF Consistent
  <1>2. pc'[t] # Idle /\ \A u \in Tasks \ {t} : pc'[u] = pc[u]
    BY <1>1 DEF Idle
  <1> QED
    BY <1>2 DEF Overlapping, Alone

\* and remains the only one while it is inside.
LEMMA InCallAlone ==
  ASSUME Consistent(di, pc), NEW t \in Tasks, pc[t].step # "idle"
  PROVE  Alone(t)
PROOF
  <1>1. pc[t] # Idle
    BY DEF Idle
  <1> QED
    BY <1>1 DEF Consistent, Alone

\* A step that leaves the disk and the calls alone
LEMMA LookStep ==
  ASSUME WalkTypes, Consistent(di, pc), dc' \in Cache, pwd' \in [Tasks -> Ids],
         UNCHANGED <<di, pc>>
  PROVE  DiskInv'
  BY DEF DiskInv, WalkTypes

\* open, stat, mknod: the cache is what the walk left.
LEMMA LookedUpStep ==
  ASSUME WalkTypes, Consistent(di, pc), NEW t \in Tasks, NEW w \in WalkState, looked_up(t, w)
  PROVE  DiskInv'
  BY WalkEnds, LookStep DEF looked_up, WalkTypes

\* chdir
LEMMA ChdirStep ==
  ASSUME WalkTypes, Consistent(di, pc), NEW t \in Tasks, NEW p \in Paths, sys_chdir(t, p)
  PROVE  DiskInv'
PROOF
  <1>1. PICK w : w = dirent_find(t, p, Append(p.dirs, p.name))
    OBVIOUS
  <1>2. w \in WalkState
    BY <1>1, WalksTyped
  <1>3. w.c \in Cache /\ w.d \in Ids
    BY <1>2, WalkEnds
  <1>4. \/ pwd' = [pwd EXCEPT ![t] = w.d] /\ dc' = Forget(dirent_dup(w.c, w.d), pwd')
        \/ dc' = w.c /\ UNCHANGED pwd
    BY <1>1 DEF sys_chdir
  <1>5. dc' \in Cache
    BY <1>3, <1>4, CacheTypes
  <1>6. pwd' \in [Tasks -> Ids]
    BY <1>3, <1>4 DEF WalkTypes
  <1>7. UNCHANGED <<di, pc>>
    BY DEF sys_chdir
  <1> QED
    BY <1>5, <1>6, <1>7, LookStep

\* creat and mkdir up to the operation of the directory
LEMMA CreateStep ==
  ASSUME WalkTypes, Consistent(di, pc), NEW t \in Tasks, ~Overlapping', NEW p \in Paths,
         NEW type \in {"file", "dir"}, NEW rw \in Modes, create(t, p, type, rw)
  PROVE  DiskInv'
PROOF
  <1>1. PICK w : w = inode_find2(t, p)
    OBVIOUS
  <1>2. w \in WalkState
    BY <1>1, WalksTyped
  <1>3. w.c \in Cache /\ w.d \in Ids /\ w.c[w.d].ino \in Slots
    BY <1>2, WalkEnds
  <1>4. PICK v : v = [step |-> "find_empty_di", dir |-> w.c[w.d].ino, name |-> p.name,
                      type |-> type, rw |-> rw, ino |-> 0]
    OBVIOUS
  <1>5. dc' = w.c /\ di' = di /\ pwd' = pwd /\ (pc' = pc \/ pc' = [pc EXCEPT ![t] = v])
        /\ pc[t] = Idle
    BY <1>1, <1>4 DEF create
  <1>6. WalkTypes'
    BY <1>3, <1>5 DEF WalkTypes
  <1>7. CASE pc' = pc
    BY <1>5, <1>6, <1>7 DEF DiskInv
  <1>8. CASE pc' = [pc EXCEPT ![t] = v]
    <2>1. v \in Calls /\ v.step = "find_empty_di"
      <3>1. p.name \in Name /\ rw \in BOOLEAN /\ 0 \in Slots
        BY FileSystemAssumption DEF Name
      <3>2. v \in CreateCall /\ v.step = "find_empty_di"
        BY <1>3, <1>4, <3>1 DEF CreateCall
      <3> QED
        BY <3>2 DEF Calls
    <2>5. Alone(t)
      BY <1>8, <2>1, StartsAlone
    <2>2. Idle.step = "idle"
      BY DEF Idle
    <2>3. DiskTree(di, {}, {})
      BY <1>5, <2>2, <2>5, CallDisk DEF Alone
    <2>4. Consistent(di, pc')
      <3>1. PICK r : r = pc'
        OBVIOUS
      <3> QED
        BY <1>8, <2>1, <2>3, <2>5, <3>1, CallGoesOn DEF Alone
    <2> QED
      BY <1>5, <1>6, <2>4 DEF DiskInv
  <1> QED
    BY <1>5, <1>7, <1>8

\* Facts about a call that is inside create
LEMMA InCreate ==
  ASSUME Consistent(di, pc), NEW t \in Tasks, Alone(t), pc[t] \in CreateCall
  PROVE  /\ pc[t].dir \in Slots /\ pc[t].ino \in Slots /\ pc[t].name \in Name
         /\ pc[t].type \in {"file", "dir"} /\ pc[t].rw \in BOOLEAN
         /\ \A s \in {"find_empty_di", "take_di", "add_entry", "fill"} :
              LET v == [pc[t] EXCEPT !.step = s]
              IN  v \in Calls /\ v.step = s /\ v.ino = pc[t].ino
  BY DEF CreateCall, Calls

\* and which steps are inside create
LEMMA CreateCalls ==
  ASSUME Consistent(di, pc), NEW t \in Tasks,
         pc[t].step \in {"find_empty_di", "take_di", "add_entry", "fill"}
  PROVE  pc[t] \in CreateCall
PROOF
  <1>1. pc[t] \in Calls
    BY DEF Consistent
  <1>2. Idle.step = "idle"
    BY DEF Idle
  <1>3. \A v \in RemoveCall : v.step = "cache_remove"
    BY DEF RemoveCall
  <1> QED
    BY <1>1, <1>2, <1>3 DEF Calls

\* find_empty_di
LEMMA FindEmptyStep ==
  ASSUME WalkTypes, Consistent(di, pc), NEW t \in Tasks, Alone(t), find_empty_di(t)
  PROVE  DiskInv'
PROOF
  <1>1. pc[t].step = "find_empty_di" /\ di' = di /\ dc' = dc /\ pwd' = pwd
    BY DEF find_empty_di
  <1>2. pc[t] \in CreateCall
    BY <1>1, CreateCalls
  <1>3. DiskTree(di, {}, {})
    BY <1>1, CallDisk DEF Alone
  <1>4. WalkTypes'
    BY <1>1 DEF WalkTypes
  <1>5. PICK r : r = pc'
    OBVIOUS
  <1>6. CASE EmptySlots = {}
    <2>1. r = [pc EXCEPT ![t] = Idle]
      BY <1>5, <1>6 DEF find_empty_di
    <2>2. Idle \in Calls /\ Idle.step = "idle"
      BY DEF Idle, Calls
    <2>3. Consistent(di, r)
      BY <1>3, <2>1, <2>2, CallGoesOn DEF Alone
    <2> QED
      BY <1>1, <1>4, <1>5, <2>3 DEF DiskInv
  <1>7. CASE EmptySlots # {}
    <2>1. PICK i : i = CHOOSE j \in EmptySlots : \A k \in EmptySlots : j <= k
      OBVIOUS
    <2>2. EmptySlots \in SUBSET Nat
      BY FileSystemAssumption DEF EmptySlots
    <2>3. i \in EmptySlots
      BY <1>7, <2>1, <2>2, LeastNatural
    <2>4. i \in Slots /\ di[i].type = "free"
      BY <2>3 DEF EmptySlots
    <2>5. PICK v : v = [pc[t] EXCEPT !.step = "take_di", !.ino = i]
      OBVIOUS
    <2>6. v \in Calls /\ v.step = "take_di" /\ v.ino = i
      BY <1>2, <2>4, <2>5 DEF CreateCall, Calls
    <2>7. pc \in [Tasks -> Calls]
      BY DEF Consistent
    <2>8. r = [pc EXCEPT ![t] = v]
      BY <1>5, <1>7, <2>1, <2>5, <2>7 DEF find_empty_di
    <2>9. Consistent(di, r)
      BY <1>3, <2>4, <2>6, <2>8, CallGoesOn DEF Alone
    <2> QED
      BY <1>1, <1>4, <1>5, <2>9 DEF DiskInv
  <1> QED
    BY <1>6, <1>7

\* and an instruction later it takes the inode.
LEMMA TakeStep ==
  ASSUME WalkTypes, Consistent(di, pc), NEW t \in Tasks, Alone(t), take_di(t)
  PROVE  DiskInv'
PROOF
  <1>1. pc[t].step = "take_di" /\ dc' = dc /\ pwd' = pwd
    BY DEF take_di
  <1>2. pc[t] \in CreateCall
    BY <1>1, CreateCalls
  <1>3. DiskTree(di, {}, {})
    BY <1>1, CallDisk DEF Alone
  <1>4. PICK i : i = pc[t].ino
    OBVIOUS
  <1>5. i \in Slots /\ di[i].type = "free"
    BY <1>1, <1>2, <1>4, InCreate DEF Consistent
  <1>6. PICK d : d = di'
    OBVIOUS
  <1>7. OnlyAt(di, d, i) /\ d[i].type = "new" /\ d[i].ents = di[i].ents
    <2>1. PICK v : v = [di[i] EXCEPT !.type = "new"]
      OBVIOUS
    <2>2. di \in [Slots -> Inode]
      BY DEF WalkTypes
    <2>3. v \in Inode /\ v.type = "new" /\ v.ents = di[i].ents
      BY <1>5, <2>1, <2>2 DEF Inode
    <2>4. d = [di EXCEPT ![i] = v]
      BY <1>4, <1>5, <1>6, <2>1, <2>2 DEF take_di
    <2> QED
      BY <1>5, <2>2, <2>3, <2>4 DEF OnlyAt
  <1>8. DiskTree(d, {i}, {})
    <2>1. DiskTree(d, {} \cup {i}, {})
      BY <1>3, <1>5, <1>7, TakeTree
    <2>2. {} \cup {i} = {i}
      OBVIOUS
    <2> QED
      BY <2>1, <2>2
  <1>9. PICK v : v = [pc[t] EXCEPT !.step = "add_entry"]
    OBVIOUS
  <1>10. v \in Calls /\ v.step = "add_entry" /\ v.ino = i
    BY <1>2, <1>4, <1>9, InCreate
  <1>11. PICK r : r = pc'
    OBVIOUS
  <1>12. r = [pc EXCEPT ![t] = v]
    BY <1>9, <1>11 DEF take_di, Consistent
  <1>13. Consistent(d, r)
    BY <1>8, <1>10, <1>12, CallGoesOn DEF Alone
  <1>14. WalkTypes'
    BY <1>1, <1>6, <1>7 DEF WalkTypes, OnlyAt
  <1> QED
    BY <1>6, <1>11, <1>13, <1>14 DEF DiskInv

\* denemefs_add_entry, or the inode goes back
LEMMA AddEntryStep ==
  ASSUME WalkTypes, Consistent(di, pc), NEW t \in Tasks, Alone(t), add_entry(t)
  PROVE  DiskInv'
PROOF
  <1>1. pc[t].step = "add_entry" /\ dc' = dc /\ pwd' = pwd /\ di \in [Slots -> Inode]
    BY DEF add_entry, WalkTypes
  <1>2. pc[t] \in CreateCall
    BY <1>1, CreateCalls
  <1>3. PICK i : i = pc[t].ino
    OBVIOUS
  <1>4. PICK x : x = pc[t].dir
    OBVIOUS
  <1>5. PICK name : name = pc[t].name
    OBVIOUS
  <1>6. i \in Slots /\ x \in Slots /\ name \in Name
    BY <1>2, <1>3, <1>4, <1>5, InCreate
  <1>7. DiskTree(di, {i}, {})
    BY <1>1, <1>3, CallDisk DEF Alone
  <1>8. PICK d : d = di'
    OBVIOUS
  <1>9. PICK r : r = pc'
    OBVIOUS
  <1>10. CASE /\ di[x].type = "dir" /\ ~exists(di, x, name)
              /\ Len(di[x].ents) < SubdentryCount
              /\ di' = [di EXCEPT ![x].ents = Append(@, [name |-> name, no |-> i])]
              /\ pc' = [pc EXCEPT ![t].step = "fill"]
    <2>1. PICK v : v = [di[x] EXCEPT !.ents = Append(di[x].ents, [name |-> name, no |-> i])]
      OBVIOUS
    <2>2. di[x].ents \in Seq(Entry) /\ [name |-> name, no |-> i] \in Entry
      BY <1>1, <1>6 DEF Inode, Entry
    <2>3. Append(di[x].ents, [name |-> name, no |-> i]) \in Seq(Entry)
      BY <2>2, AppendProperties
    <2>4. /\ v \in Inode /\ v.type = "dir"
          /\ v.ents = Append(di[x].ents, [name |-> name, no |-> i])
      BY <1>1, <1>6, <1>10, <2>1, <2>3 DEF Inode
    <2>5. d = [di EXCEPT ![x] = v]
      BY <1>8, <1>10, <2>1
    <2>6. /\ OnlyAt(di, d, x) /\ d[x].type = "dir"
          /\ d[x].ents = Append(di[x].ents, [name |-> name, no |-> i])
      BY <1>1, <1>6, <2>4, <2>5 DEF OnlyAt
    <2>7. \A k \in 1 .. Len(di[x].ents) : di[x].ents[k].name # name
      BY <1>1, <1>6, <1>10, LookupFinds DEF exists
    <2>8. DiskTree(d, {i} \ {i}, {} \cup {i})
      BY <1>6, <1>7, <1>10, <2>6, <2>7, NameTree
    <2>9. {i} \ {i} = {} /\ {} \cup {i} = {i}
      OBVIOUS
    <2>10. PICK u : u = [pc[t] EXCEPT !.step = "fill"]
      OBVIOUS
    <2>11. u \in Calls /\ u.step = "fill" /\ u.ino = i
      BY <1>2, <1>3, <2>10, InCreate
    <2>12. r = [pc EXCEPT ![t] = u]
      BY <1>9, <1>10, <2>10
    <2>13. Consistent(d, r)
      <3>1. DiskTree(d, IF u.step = "add_entry" THEN {u.ino} ELSE {},
                        IF u.step = "fill" THEN {u.ino} ELSE {})
        BY <2>8, <2>9, <2>11
      <3>2. \A y \in Tasks \ {t} : pc[y] = Idle
        BY DEF Alone
      <3> HIDE <1>10
      <3> QED
        BY <2>11, <2>12, <3>1, <3>2, CallGoesOn
    <2>14. WalkTypes'
      BY <1>1, <1>8, <2>6 DEF WalkTypes, OnlyAt
    <2> QED
      BY <1>8, <1>9, <2>13, <2>14 DEF DiskInv
  <1>11. CASE di' = denemefs_free_inode(di, i) /\ pc' = [pc EXCEPT ![t] = Idle]
    <2>1. Free \in Inode
      BY DEF Free, Inode
    <2>2. d = [di EXCEPT ![i] = Free]
      BY <1>8, <1>11 DEF denemefs_free_inode
    <2>3. OnlyAt(di, d, i) /\ d[i] = Free
      BY <1>1, <1>6, <2>1, <2>2 DEF OnlyAt
    <2>4. DiskTree(d, {i} \ {i}, {})
      BY <1>6, <1>7, <2>3, DropTree
    <2>5. {i} \ {i} = {}
      OBVIOUS
    <2>6. Idle \in Calls /\ Idle.step = "idle"
      BY DEF Idle, Calls
    <2>7. Consistent(d, r)
      BY <1>9, <1>11, <2>4, <2>5, <2>6, CallGoesOn DEF Alone
    <2>8. WalkTypes'
      BY <1>1, <1>8, <2>3 DEF WalkTypes, OnlyAt
    <2> QED
      BY <1>8, <1>9, <2>7, <2>8 DEF DiskInv
  <1>12. CASE Panic("subdentry overflow")
    BY <1>12 DEF DiskInv, Running, Panic
  <1> QED
    BY <1>3, <1>4, <1>5, <1>10, <1>11, <1>12 DEF add_entry

\* The end of denemefs_create and denemefs_mkdir
LEMMA FillStep ==
  ASSUME WalkTypes, Consistent(di, pc), NEW t \in Tasks, Alone(t),
         NEW type \in {"file", "dir"}, fill(t, type)
  PROVE  DiskInv'
PROOF
  <1>1. /\ pc[t].step = "fill" /\ dc' = dc /\ pwd' = pwd /\ di \in [Slots -> Inode]
    BY DEF fill, WalkTypes
  <1>2. pc[t] \in CreateCall
    BY <1>1, CreateCalls
  <1>3. PICK i : i = pc[t].ino
    OBVIOUS
  <1>4. i \in Slots /\ pc[t].rw \in BOOLEAN
    BY <1>2, <1>3, InCreate
  <1>5. DiskTree(di, {}, {i})
    BY <1>1, <1>3, CallDisk DEF Alone
  <1>6. PICK d : d = di'
    OBVIOUS
  <1>7. PICK r : r = pc'
    OBVIOUS
  <1>8. PICK v : v = [type |-> type, rw |-> pc[t].rw, ents |-> <<>>]
    OBVIOUS
  <1>9. v \in Inode /\ v.type \in {"file", "dir"} /\ v.ents = <<>>
    BY <1>4, <1>8 DEF Inode
  <1>10. d = [di EXCEPT ![i] = v] /\ r = [pc EXCEPT ![t] = Idle]
    BY <1>3, <1>6, <1>7, <1>8 DEF fill
  <1>11. OnlyAt(di, d, i) /\ d[i].type \in {"file", "dir"} /\ d[i].ents = <<>>
    BY <1>1, <1>4, <1>9, <1>10 DEF OnlyAt
  <1>12. DiskTree(d, {}, {i} \ {i})
    BY <1>4, <1>5, <1>11, FillTree
  <1>13. {i} \ {i} = {}
    OBVIOUS
  <1>14. Idle \in Calls /\ Idle.step = "idle"
    BY DEF Idle, Calls
  <1>15. Consistent(d, r)
    BY <1>10, <1>12, <1>13, <1>14, CallGoesOn DEF Alone
  <1>16. WalkTypes'
    BY <1>1, <1>6, <1>11 DEF WalkTypes, OnlyAt
  <1> QED
    BY <1>6, <1>7, <1>15, <1>16 DEF DiskInv

\* unlink and rmdir up to the cache
LEMMA UnlinkStep ==
  ASSUME WalkTypes, Consistent(di, pc), NEW t \in Tasks, ~Overlapping', NEW p \in Paths,
         NEW type \in {"file", "dir"}, unlink(t, p, type)
  PROVE  DiskInv'
PROOF
  <1>1. PICK w : w = inode_find2(t, p)
    OBVIOUS
  <1>2. w \in WalkState
    BY <1>1, WalksTyped
  <1>3. PICK x : x = w.c[w.d].ino
    OBVIOUS
  <1>4. w.c \in Cache /\ w.d \in Ids /\ x \in Slots
    BY <1>2, <1>3, WalkEnds
  <1>5. PICK v : v = [step |-> "cache_remove", path |-> p, locked |-> w.d]
    OBVIOUS
  <1>6. /\ pc[t] = Idle /\ dc' = w.c /\ pwd' = pwd
        /\ \/ di' = di /\ pc' = pc
           \/ /\ may_remove(type, di, x, p.name) /\ di' = remove(di, x, p.name)
              /\ pc' = [pc EXCEPT ![t] = v]
    BY <1>1, <1>3, <1>5 DEF unlink
  <1>7. CASE di' = di /\ pc' = pc
    BY <1>4, <1>6, <1>7, LookStep DEF WalkTypes
  <1>8. CASE /\ may_remove(type, di, x, p.name) /\ di' = remove(di, x, p.name)
             /\ pc' = [pc EXCEPT ![t] = v]
    <2>1. PICK d : d = di'
      OBVIOUS
    <2>2. PICK r : r = pc'
      OBVIOUS
    <2>6. v \in Calls /\ v.step = "cache_remove"
      BY <1>4, <1>5 DEF Calls, RemoveCall
    <2>9. Alone(t)
      BY <1>8, <2>6, StartsAlone
    <2>3. Idle.step = "idle"
      BY DEF Idle
    <2>4. DiskTree(di, {}, {})
      BY <1>6, <2>3, <2>9, CallDisk DEF Alone
    <2>5. DiskTree(d, {}, {})
      BY <1>4, <1>8, <2>1, <2>4, RemoveKeepsTree
    <2>7. Consistent(d, r)
      BY <1>8, <2>2, <2>5, <2>6, <2>9, CallGoesOn DEF Alone
    <2>8. WalkTypes'
      BY <1>4, <1>6, <2>1, <2>5 DEF WalkTypes, DiskTree
    <2> QED
      BY <2>1, <2>2, <2>7, <2>8 DEF DiskInv
  <1> QED
    BY <1>6, <1>7, <1>8

\* dirent_cache_remove
LEMMA CacheRemoveStep ==
  ASSUME WalkTypes, Consistent(di, pc), NEW t \in Tasks, Alone(t), dirent_cache_remove(t)
  PROVE  DiskInv'
PROOF
  <1>1. pc[t].step = "cache_remove" /\ di' = di /\ pwd' = pwd
    BY DEF dirent_cache_remove
  <1>2. pc[t].path \in Paths
    <2>1. pc[t] \in Calls
      BY DEF Consistent
    <2>2. Idle.step = "idle"
      BY DEF Idle
    <2>3. \A v \in CreateCall : v.step # "cache_remove"
      BY DEF CreateCall
    <2>4. pc[t] \in RemoveCall
      BY <1>1, <2>1, <2>2, <2>3 DEF Calls
    <2> QED
      BY <2>4 DEF RemoveCall
  <1>3. PICK p \in Paths : p = pc[t].path
    BY <1>2
  <1>4. PICK w : w = dirent_find2(t, p)
    OBVIOUS
  <1>5. w \in WalkState
    BY <1>4, WalksTyped
  <1>6. w.c \in Cache
    BY <1>5, WalkEnds
  <1>7. PICK c \in Cache : dc' = Forget(c, pwd)
    <2>1. PICK y : y = CHOOSE z \in Childs(w.c, w.d, p.name) : TRUE
      OBVIOUS
    <2>2. dc' = Forget(w.c, pwd) \/ dc' = Forget(dirent_delete(w.c, y), pwd)
      BY <1>3, <1>4, <2>1 DEF dirent_cache_remove
    <2> QED
      BY <1>6, <2>2, CacheTypes
  <1>8. dc' \in Cache
    BY <1>7, CacheTypes
  <1>9. PICK r : r = pc'
    OBVIOUS
  <1>10. r = [pc EXCEPT ![t] = Idle]
    BY <1>9 DEF dirent_cache_remove
  <1>11. Idle \in Calls /\ Idle.step = "idle"
    BY DEF Idle, Calls
  <1>12. DiskTree(di, {}, {})
    BY <1>1, CallDisk DEF Alone
  <1>13. Consistent(di, r)
    BY <1>10, <1>11, <1>12, CallGoesOn DEF Alone
  <1>14. WalkTypes'
    BY <1>1, <1>8 DEF WalkTypes
  <1> QED
    BY <1>1, <1>9, <1>13, <1>14 DEF DiskInv

-----------------------------------------------------------------------------
(* The theorems.                                                           *)

\* The disk that denemefs_init makes is a tree.
LEMMA InitTree ==
  ASSUME Init
  PROVE  DiskTree(di, {}, {})
PROOF
  <1>0. 0 \in Slots /\ 1 \in Slots /\ SubdentryCount \in Nat /\ 1 <= SubdentryCount
    BY FileSystemAssumption
  <1>1. PICK E : E = <<[name |-> "home", no |-> 1]>>
    OBVIOUS
  <1>2. E \in Seq(Entry) /\ Len(E) = 1 /\ E # <<>> /\ E[1].no = 1
    <2>1. PICK e : e = [name |-> "home", no |-> 1]
      OBVIOUS
    <2>2. e \in Entry /\ e.no = 1
      <3>1. PICK h : h = "home"
        OBVIOUS
      <3>2. h \in Name
        BY <3>1 DEF Name
      <3>3. e = [name |-> h, no |-> 1]
        BY <2>1, <3>1
      <3> HIDE <3>1
      <3> QED
        BY <1>0, <3>2, <3>3 DEF Entry
    <2>3. E = <<e>>
      BY <1>1, <2>1
    <2>4. E \in Seq(Entry) /\ Len(E) = 1 /\ E[1] = e
      BY <2>2, <2>3
    <2> QED
      BY <2>2, <2>4, SMTT(30)
  <1>3. PICK root : root = [type |-> "dir", rw |-> FALSE, ents |-> E]
    OBVIOUS
  <1>4. PICK home : home = [type |-> "dir", rw |-> TRUE, ents |-> <<>>]
    OBVIOUS
  <1>5. root \in Inode /\ home \in Inode /\ Free \in Inode
    BY <1>2, <1>3, <1>4 DEF Inode, Free
  <1>6. di = [i \in Slots |-> CASE i = 0 -> root [] i = 1 -> home [] OTHER -> Free]
    BY <1>1, <1>3, <1>4 DEF Init
  <1>7. /\ \A i \in Slots : di[i] = IF i = 0 THEN root ELSE IF i = 1 THEN home ELSE Free
        /\ di \in [Slots -> Inode]
    BY <1>5, <1>6
  <1>8. \A i \in Slots : /\ di[i].type = IF i \in {0, 1} THEN "dir" ELSE "free"
                         /\ di[i].ents = IF i = 0 THEN E ELSE <<>>
    BY <1>3, <1>4, <1>7 DEF Free
  <1>9. \A x, k, i : x \in Slots => (Names(di, x, k, i) <=> x = 0 /\ k = 1 /\ i = 1)
    BY <1>2, <1>8, <1>0 DEF Names
  <1>10. Directories(di)
    <2>1. ASSUME NEW x \in Slots PROVE Len(di[x].ents) <= SubdentryCount
      <3>0. di[x].ents = E \/ di[x].ents = <<>>
        BY <1>8
      <3>1. Len(di[x].ents) = 1 \/ Len(di[x].ents) = 0
        BY ONLY <1>2, <3>0
      <3>2. 0 <= SubdentryCount /\ 1 <= SubdentryCount
        BY FileSystemAssumption
      <3> QED
        BY <3>1, <3>2, Zenon
    <2>2. \A x \in Slots : di[x].type # "dir" => di[x].ents = <<>>
      BY <1>8
    <2>3. di[0].type = "dir" /\ di[0].ents # <<>>
      BY <1>0, <1>2, <1>8
    <2> QED
      BY <2>1, <2>2, <2>3 DEF Directories
  <1>11. NamesDiffer(di)
    BY <1>2, <1>8, <1>0 DEF NamesDiffer
  <1>12. NamedOnce(di)
    BY <1>9 DEF NamedOnce
  <1>13. Used(di, {}, {})
    BY <1>8, <1>9, <1>0 DEF Used
  <1> QED
    BY <1>7, <1>10, <1>11, <1>12, <1>13 DEF DiskTree

\* The system starts with the root in the cache and no call.
LEMMA InitDisk ==
  ASSUME Init
  PROVE  DiskInv
PROOF
  <1>1. DiskTree(di, {}, {})
    BY InitTree
  <1>2. 1 + 2 * Cardinality(Tasks) \in Int
    BY FileSystemAssumption, FS_CardinalityType
  <1>3. PICK n \in Int : n = 1 + 2 * Cardinality(Tasks)
    BY <1>2
  <1>4. NoDirent \in Dirent
    BY FileSystemAssumption DEF NoDirent, Dirent, Ids, Root, Name
  <1>5. [NoDirent EXCEPT !.st = "live", !.ref = n] \in Dirent
    BY <1>4 DEF Dirent
  <1>6. dc \in Cache
    BY <1>3, <1>4, <1>5 DEF Init, Cache
  <1>7. pwd \in [Tasks -> Ids]
    BY DEF Init, fs_fork, Ids
  <1>8. WalkTypes
    BY <1>1, <1>6, <1>7 DEF WalkTypes, DiskTree
  <1>9. pc \in [Tasks -> Calls] /\ \A t \in Tasks : pc[t] = Idle
    BY DEF Init, Calls
  <1>10. \A t \in Tasks : pc[t].step = "idle"
    BY <1>9 DEF Idle
  <1>11. AtStep(pc, "add_entry") = {} /\ AtStep(pc, "fill") = {}
    BY <1>10 DEF AtStep
  <1>12. Consistent(di, pc)
    BY <1>1, <1>9, <1>10, <1>11 DEF Consistent
  <1> QED
    BY <1>8, <1>12 DEF DiskInv

\* Every action keeps the disk consistent, whatever other tasks look up in
\* between, as long as they do not start a call inside another's.
LEMMA NextDisk ==
  ASSUME DiskInv, [Next]_vars
  PROVE  DiskInv'
PROOF
  <1>1. CASE UNCHANGED vars
    BY <1>1 DEF vars, DiskInv, Running, WalkTypes
  <1>2. CASE Next /\ overlap'
    BY <1>2 DEF DiskInv
  <1>3. CASE Step /\ ~overlap /\ ~Overlapping'
    <2>1. ASSUME Running
          PROVE  WalkTypes /\ Consistent(di, pc)
      BY <1>3, <2>1 DEF DiskInv
    <2>2. ASSUME NEW t \in Tasks, Running, pc[t].step # "idle"
          PROVE  WalkTypes /\ Consistent(di, pc) /\ Alone(t)
      BY <2>1, <2>2, InCallAlone
    <2>3. ASSUME NEW t \in Tasks, NEW p \in Paths, NEW rw \in Modes,
                 sys_creat(t, p, rw) \/ sys_mkdir(t, p, rw)
          PROVE  DiskInv'
      <3>1. PICK type \in {"file", "dir"} : create(t, p, type, rw)
        BY <2>3 DEF sys_creat, sys_mkdir
      <3>2. Running
        BY <3>1 DEF create
      <3> QED
        BY <1>3, <2>1, <3>1, <3>2, CreateStep
    <2>4. ASSUME NEW t \in Tasks, NEW p \in Paths,
                 sys_mknod(t, p) \/ sys_open(t, p) \/ sys_stat(t, p)
          PROVE  DiskInv'
      <3>1. PICK w : looked_up(t, w) /\ (w = inode_find2(t, p) \/ w = inode_find(t, p))
        BY <2>4 DEF sys_mknod, sys_open, sys_stat, file_open, file_stat
      <3>2. Running
        BY <3>1 DEF looked_up
      <3>3. w \in WalkState
        BY <2>1, <3>1, <3>2, WalksTyped
      <3> QED
        BY <2>1, <3>1, <3>2, <3>3, LookedUpStep
    <2>5. ASSUME NEW t \in Tasks, NEW p \in Paths, sys_unlink(t, p) \/ sys_rmdir(t, p)
          PROVE  DiskInv'
      <3>1. PICK type \in {"file", "dir"} : unlink(t, p, type)
        BY <2>5 DEF sys_unlink, sys_rmdir
      <3>2. Running
        BY <3>1 DEF unlink
      <3> QED
        BY <1>3, <2>1, <3>1, <3>2, UnlinkStep
    <2>6. ASSUME NEW t \in Tasks, NEW p \in Paths, sys_chdir(t, p)
          PROVE  DiskInv'
      <3>1. Running
        BY <2>6 DEF sys_chdir
      <3> QED
        BY <2>1, <2>6, <3>1, ChdirStep
    <2>7. ASSUME NEW t \in Tasks, find_empty_di(t)
          PROVE  DiskInv'
      <3>1. Running /\ pc[t].step # "idle"
        BY <2>7 DEF find_empty_di
      <3> QED
        BY <2>2, <2>7, <3>1, FindEmptyStep
    <2>8. ASSUME NEW t \in Tasks, take_di(t)
          PROVE  DiskInv'
      <3>1. Running /\ pc[t].step # "idle"
        BY <2>8 DEF take_di
      <3> QED
        BY <2>2, <2>8, <3>1, TakeStep
    <2>9. ASSUME NEW t \in Tasks, add_entry(t)
          PROVE  DiskInv'
      <3>1. Running /\ pc[t].step # "idle"
        BY <2>9 DEF add_entry
      <3> QED
        BY <2>2, <2>9, <3>1, AddEntryStep
    <2>10. ASSUME NEW t \in Tasks, denemefs_create(t) \/ denemefs_mkdir(t)
           PROVE  DiskInv'
      <3>1. PICK type \in {"file", "dir"} : fill(t, type)
        BY <2>10 DEF denemefs_create, denemefs_mkdir
      <3>2. Running /\ pc[t].step # "idle"
        BY <3>1 DEF fill
      <3> QED
        BY <2>2, <3>1, <3>2, FillStep
    <2>11. ASSUME NEW t \in Tasks, dirent_cache_remove(t)
           PROVE  DiskInv'
      <3>1. Running /\ pc[t].step # "idle"
        BY <2>11 DEF dirent_cache_remove
      <3> QED
        BY <2>2, <2>11, <3>1, CacheRemoveStep
    <2> QED
      BY <1>3, <2>3, <2>4, <2>5, <2>6, <2>7, <2>8, <2>9, <2>10, <2>11 DEF Step
  <1> QED
    BY <1>1, <1>2, <1>3 DEF Next

\* A consistent disk is a tree when no call is running.
LEMMA TreeWhenQuiet ==
  ASSUME DiskInv
  PROVE  DiskIsTree
PROOF
  <1> SUFFICES ASSUME Quiet PROVE /\ \A i \in Slots \ {0} : di[i].type # "free" <=> Cardinality(Naming(i)) = 1
                                  /\ \A d \in Slots : \A j, k \in DOMAIN di[d].ents :
                                       (di[d].ents[j].no # 0 /\ di[d].ents[k].no # 0
                                          /\ di[d].ents[j].name = di[d].ents[k].name) => j = k
                                  /\ \A d \in Slots : di[d].ents # <<>> => di[d].type = "dir"
    BY DEF DiskIsTree
  <1>1. WalkTypes /\ Consistent(di, pc) /\ \A t \in Tasks : pc[t] = Idle
    BY DEF Quiet, DiskInv
  <1>2. \A t \in Tasks : pc[t].step = "idle"
    BY <1>1 DEF Idle
  <1>3. AtStep(pc, "add_entry") = {} /\ AtStep(pc, "fill") = {}
    BY <1>2 DEF AtStep
  <1>4. DiskTree(di, {}, {})
    BY <1>1, <1>3 DEF Consistent
  <1>5. /\ di \in [Slots -> Inode] /\ Directories(di) /\ NamesDiffer(di)
        /\ NamedOnce(di) /\ Used(di, {}, {})
    BY <1>4 DEF DiskTree
  <1>6. \A x \in Slots : /\ di[x].ents \in Seq(Entry) /\ Len(di[x].ents) \in Nat
                         /\ DOMAIN di[x].ents = 1 .. Len(di[x].ents)
    BY <1>5 DEF Inode
  <1>7. ASSUME NEW i \in Slots \ {0}
        PROVE  di[i].type # "free" <=> Cardinality(Naming(i)) = 1
    <2>1. \A z : z \in Naming(i) <=> \E x \in Slots : \E k : z = <<x, k>> /\ Names(di, x, k, i)
      <3>1. \A x \in Slots : \A k : Names(di, x, k, i) => k \in 1 .. SubdentryCount
        BY <1>5, <1>6, FileSystemAssumption DEF Directories, Names
      <3>2. \A x \in Slots : \A k \in 1 .. SubdentryCount :
              <<x, k>> \in Naming(i) <=> Names(di, x, k, i)
        BY <1>6 DEF Naming, Names
      <3>3. \A z \in Naming(i) : \E x \in Slots : \E k \in 1 .. SubdentryCount : z = <<x, k>>
        BY DEF Naming
      <3> QED
        BY <3>1, <3>2, <3>3
    <2>2. CASE di[i].type = "free"
      <3>1. \A x \in Slots : \A k : ~Names(di, x, k, i)
        BY <1>5, <2>2 DEF Used
      <3>2. Naming(i) = {}
        BY <2>1, <3>1
      <3>3. Cardinality(Naming(i)) = 0
        BY <3>2, FS_EmptySet
      <3> QED
        BY <2>2, <3>3
    <2>3. CASE di[i].type # "free"
      <3>1. PICK x \in Slots : \E k : Names(di, x, k, i)
        BY <1>5, <2>3 DEF Used
      <3>0. PICK k : Names(di, x, k, i)
        BY <3>1
      <3>2. \A y \in Slots : \A j : Names(di, y, j, i) => y = x /\ j = k
        BY <1>5, <3>0 DEF NamedOnce
      <3>3. \A z : z \in Naming(i) <=> z = <<x, k>>
        BY <2>1, <3>0, <3>2
      <3>4. Naming(i) = {<<x, k>>}
        BY <3>3
      <3>5. Cardinality(Naming(i)) = 1
        BY <3>4, FS_Singleton
      <3> QED
        BY <2>3, <3>5
    <2> QED
      BY <2>2, <2>3
  <1>8. ASSUME NEW d \in Slots, NEW j \in DOMAIN di[d].ents, NEW k \in DOMAIN di[d].ents,
               di[d].ents[j].no # 0, di[d].ents[k].no # 0,
               di[d].ents[j].name = di[d].ents[k].name
        PROVE  j = k
    BY <1>5, <1>6, <1>8 DEF NamesDiffer
  <1>9. \A d \in Slots : di[d].ents # <<>> => di[d].type = "dir"
    BY <1>5 DEF Directories
  <1> QED
    BY <1>7, <1>8, <1>9

\* The disk is consistent also in the middle of creat, mkdir, unlink and rmdir:
\* an inode that find_empty_di took has no entry until denemefs_add_entry, and
\* has its type once the call is over.
THEOREM DiskInvariant == Spec => []DiskInv
PROOF
  <1>1. Init => DiskInv
    BY InitDisk
  <1>2. DiskInv /\ [Next]_vars => DiskInv'
    BY NextDisk
  <1> QED
    BY <1>1, <1>2, PTL DEF Spec

\* No sequence of creat, mkdir, unlink, rmdir, open, stat, mknod and chdir of
\* any number of tasks loses an inode, names one twice, leaves an entry of a
\* free one or gives a directory two entries of one name (create and unlink of
\* file.cpp, find_empty_di, denemefs_add_entry and denemefs_unlink), until two
\* tasks are inside create or unlink at one time: lookups of other tasks may
\* come between the steps of both.
THEOREM DiskStaysTree == Spec => []DiskIsTree
PROOF
  <1>1. DiskInv => DiskIsTree
    BY TreeWhenQuiet
  <1> QED
    BY <1>1, DiskInvariant, PTL

-----------------------------------------------------------------------------
(* The cache.  Between calls every dirent in memory stands for an entry of *)
(* the disk; while unlink or rmdir is between the disk and the cache, one  *)
(* dirent is stale, and nothing is cached below it.                        *)

Live(c) == {x \in DirentIds : c[x].st = "live"}

\* Dirent x of the cache c stands for the entry of its name on the disk d.
Stands(c, d, x) ==
  /\ c[x].name # NoName /\ c[x].ino # 0
  /\ lookup(d, c[c[x].parent].ino, c[x].name) # 0
  /\ EntryIno(d, c[c[x].parent].ino, c[x].name) = c[x].ino
  /\ d[c[x].ino].type \in {"dir", "file"}

\* ch is the way from the root to dirent x, in n steps.
Chain(c, ch, n, x) ==
  /\ ch \in [0 .. n -> Ids] /\ ch[0] = Root /\ ch[n] = x
  /\ \A i \in 1 .. n : ch[i] \in Live(c) /\ c[ch[i]].parent = ch[i - 1]

Rooted(c, x) == \E n \in Nat : \E ch : Chain(c, ch, n, x)

\* The cache is a tree of live dirents with the root on top; no inode and no
\* name of a directory has two of them.
CacheTree(c) ==
  /\ c \in Cache
  /\ c[Root].st = "live" /\ c[Root].ino = 0 /\ c[Root].parent = Root
  /\ \A x, y \in Live(c) \cup {Root} : c[x].ino = c[y].ino => x = y
  /\ \A x, y \in Live(c) : c[x].parent = c[y].parent /\ c[x].name = c[y].name => x = y
  /\ \A x \in Live(c) : c[c[x].parent].st = "live" /\ Rooted(c, x)

\* A removed entry has no name.  So may one that creat made of a path that
\* ends in '/'.
DiskNamed(d) ==
  \A x \in Slots : \A k \in 1 .. Len(d[x].ents) :
    d[x].ents[k].no = 0 => d[x].ents[k].name = NoName

\* The cache says what the disk does.
Good(c, d) == CacheTree(c) /\ \A x \in Live(c) : Stands(c, d, x)

\* The dirent whose entry unlink or rmdir has removed and that is still there,
\* when the calls are q
Stale(c, q) ==
  {x \in Live(c) : \E t \in Tasks : /\ q[t].step = "cache_remove"
                                    /\ c[x].parent = q[t].locked /\ c[x].name = q[t].path.name}

\* Every dirent but the stale one stands for its entry; the inode of that one
\* is free, and nothing is below it.
Fits(c, d, q) ==
  /\ CacheTree(c)
  /\ \A x \in Live(c) : x \in Stale(c, q) \/ Stands(c, d, x)
  /\ \A x \in Stale(c, q) : d[c[x].ino].type = "free"
  /\ \A x \in Live(c) : c[x].parent \notin Stale(c, q)

\* Nothing that is in c is different in e.
Grows(c, e) == \A x \in Ids : c[x].st # "none" => e[x] = c[x]

LEMMA IdsFacts ==
  /\ Root \in Ids /\ Root \notin DirentIds /\ DirentIds \subseteq Ids
  /\ \A x \in Ids : x = Root \/ x \in DirentIds
  BY FileSystemAssumption DEF Ids, Root

\* The root is at the top.
LEMMA RootRooted ==
  ASSUME NEW c
  PROVE  Rooted(c, Root)
PROOF
  <1>1. PICK ch : ch = [i \in 0 .. 0 |-> Root]
    OBVIOUS
  <1>2. Chain(c, ch, 0, Root)
    BY <1>1, IdsFacts DEF Chain
  <1> QED
    BY <1>2 DEF Rooted

\* A dirent below one that has a way from the root has one.
LEMMA RootedBelow ==
  ASSUME NEW c, NEW p \in Ids, Rooted(c, p), NEW x \in Live(c), c[x].parent = p
  PROVE  Rooted(c, x)
PROOF
  <1>1. PICK n \in Nat : \E ch : Chain(c, ch, n, p)
    BY DEF Rooted
  <1>2. PICK ch : Chain(c, ch, n, p)
    BY <1>1
  <1>3. /\ ch \in [0 .. n -> Ids] /\ ch[0] = Root /\ ch[n] = p
        /\ \A i \in 1 .. n : ch[i] \in Live(c) /\ c[ch[i]].parent = ch[i - 1]
    BY <1>2 DEF Chain
  <1>4. PICK g : g = [i \in 0 .. n + 1 |-> IF i = n + 1 THEN x ELSE ch[i]]
    OBVIOUS
  <1>5. x \in Ids
    BY IdsFacts DEF Live
  <1>6. g[n + 1] = x /\ \A i \in 0 .. n : g[i] = ch[i]
    BY <1>4
  <1>7. g \in [0 .. n + 1 -> Ids]
    <2>1. \A i \in 0 .. n + 1 : i # n + 1 => ch[i] \in Ids
      BY <1>3
    <2> QED
      BY <1>4, <1>5, <2>1
  <1>8. g[0] = Root
    BY <1>3, <1>6
  <1>9. ASSUME NEW i \in 1 .. n + 1
        PROVE  g[i] \in Live(c) /\ c[g[i]].parent = g[i - 1]
    <2>1. CASE i = n + 1
      <3>1. g[i] = x /\ g[i - 1] = p
        BY <1>3, <1>6, <2>1
      <3> QED
        BY <3>1
    <2>2. CASE i # n + 1
      <3>1. i \in 1 .. n /\ g[i] = ch[i] /\ g[i - 1] = ch[i - 1]
        BY <1>6, <2>2
      <3> QED
        BY <1>3, <3>1
    <2> QED
      BY <2>1, <2>2
  <1>10. Chain(c, g, n + 1, x)
    BY <1>6, <1>7, <1>8, <1>9 DEF Chain
  <1> QED
    BY <1>10 DEF Rooted

\* A way from the root stays one when its dirents stay what they are.
LEMMA RootedKept ==
  ASSUME NEW c, NEW e, NEW x, Rooted(c, x),
         \A y \in Live(c) : y \in Live(e) /\ e[y].parent = c[y].parent
  PROVE  Rooted(e, x)
PROOF
  <1>1. PICK n \in Nat : \E ch : Chain(c, ch, n, x)
    BY DEF Rooted
  <1>2. PICK ch : Chain(c, ch, n, x)
    BY <1>1
  <1>3. Chain(e, ch, n, x)
    BY <1>2 DEF Chain
  <1> QED
    BY <1>3 DEF Rooted

\* What the entry of a name on the disk is
LEMMA EntryFacts ==
  ASSUME NEW d, NEW L, NEW N, DiskTree(d, L, N), DiskNamed(d), NEW i \in Slots, NEW name,
         name # NoName, lookup(d, i, name) # 0
  PROVE  /\ EntryIno(d, i, name) \in Slots \ {0} /\ d[EntryIno(d, i, name)].type # "free"
         /\ d[i].type = "dir"
PROOF
  <1>1. d \in [Slots -> Inode] /\ Used(d, L, N)
    BY DEF DiskTree
  <1>2. /\ d[i].type = "dir" /\ lookup(d, i, name) \in 1 .. Len(d[i].ents)
        /\ d[i].ents[lookup(d, i, name)].name = name
        /\ EntryIno(d, i, name) \in Slots
        /\ Names(d, i, lookup(d, i, name), EntryIno(d, i, name))
    BY <1>1, LookupFinds
  <1>3. EntryIno(d, i, name) # 0
    BY <1>2 DEF DiskNamed, EntryIno
  <1>4. d[EntryIno(d, i, name)].type # "free"
    BY <1>1, <1>2, <1>3 DEF Used
  <1> QED
    BY <1>2, <1>3, <1>4

\* Two directories and names with the same inode are the same.
LEMMA EntryUnique ==
  ASSUME NEW d, NEW L, NEW N, DiskTree(d, L, N),
         NEW i \in Slots, NEW name, lookup(d, i, name) # 0, EntryIno(d, i, name) # 0,
         NEW j \in Slots, NEW other, lookup(d, j, other) # 0,
         EntryIno(d, i, name) = EntryIno(d, j, other)
  PROVE  i = j /\ name = other
PROOF
  <1>1. d \in [Slots -> Inode] /\ NamedOnce(d)
    BY DEF DiskTree
  <1>2. PICK k : k = EntryIno(d, i, name)
    OBVIOUS
  <1>3. k \in Slots \ {0}
    BY <1>1, <1>2, LookupFinds
  <1>4. Names(d, i, lookup(d, i, name), k) /\ d[i].ents[lookup(d, i, name)].name = name
    BY <1>1, <1>2, LookupFinds
  <1>5. Names(d, j, lookup(d, j, other), k) /\ d[j].ents[lookup(d, j, other)].name = other
    BY <1>1, <1>2, LookupFinds
  <1>6. i = j /\ lookup(d, i, name) = lookup(d, j, other)
    BY <1>1, <1>3, <1>4, <1>5 DEF NamedOnce
  <1> QED
    BY <1>4, <1>5, <1>6

\* dirent_cache_add of an entry that was not cached
LEMMA AddKeeps ==
  ASSUME NEW c, NEW d, NEW q, Fits(c, d, q), NEW L, NEW N, DiskTree(d, L, N), DiskNamed(d),
         NEW p \in Ids, c[p].st = "live",
         \A t \in Tasks : ~(q[t].step = "cache_remove" /\ q[t].locked = p), NEW name, name # NoName, Childs(c, p, name) = {},
         lookup(d, c[p].ino, name) # 0, d[EntryIno(d, c[p].ino, name)].type # "new",
         NEW z \in DirentIds, c[z].st = "none", NEW e \in Cache,
         e[z].st = "live", e[z].parent = p, e[z].name = name,
         e[z].ino = EntryIno(d, c[p].ino, name), \A x \in Ids \ {z} : e[x] = c[x]
  PROVE  Fits(e, d, q)
PROOF
  <1>1. c \in Cache /\ \A x \in Ids : c[x] \in Dirent
    BY DEF Fits, CacheTree, Cache
  <1>2. \A x \in Ids : c[x].ino \in Slots /\ c[x].parent \in Ids
    BY <1>1 DEF Dirent
  <1>3. PICK i \in Slots : i = c[p].ino
    BY <1>2
  <1>4. PICK k : k = EntryIno(d, i, name)
    OBVIOUS
  <1>5. /\ k \in Slots \ {0} /\ d[k].type # "free" /\ d[k].type # "new" /\ d[k] \in Inode
        /\ d[i].type = "dir"
    BY <1>3, <1>4, EntryFacts DEF DiskTree
  <1>6. d[k].type \in {"dir", "file"}
    BY <1>5 DEF Inode
  <1>7. z \in Ids /\ z # Root /\ z # p
    BY IdsFacts DEF Fits, CacheTree
  <1>8. Live(e) = Live(c) \cup {z} /\ z \notin Live(c)
    BY IdsFacts DEF Live
  <1>9. \A x \in Live(c) : /\ x \in Ids /\ x # z /\ e[x] = c[x] /\ c[x].parent # z
                           /\ e[c[x].parent] = c[c[x].parent]
                           /\ x \in Stale(c, q) \/ Stands(c, d, x)
    <2>1. \A x \in Live(c) : /\ x \in Ids /\ c[c[x].parent].st = "live"
                             /\ x \in Stale(c, q) \/ Stands(c, d, x)
      BY IdsFacts DEF Live, Fits, CacheTree
    <2> QED
      BY <1>2, <1>8, <2>1
  <1>10. e[Root] = c[Root] /\ e[p] = c[p]
    BY <1>7, IdsFacts
  <1>11. \A x \in Live(c) \cup {Root} : c[x].ino # k
    <2>1. c[Root].ino = 0
      BY DEF Fits, CacheTree
    <2>2. ASSUME NEW x \in Live(c), c[x].ino = k PROVE FALSE
      <3>0. Stands(c, d, x)
        BY <1>5, <1>9, <2>2 DEF Fits
      <3>1. PICK y \in Ids : y = c[x].parent
        BY <1>2, <1>9
      <3>2. PICK j \in Slots : j = c[y].ino
        BY <1>2
      <3>3. c[x].name # NoName /\ lookup(d, j, c[x].name) # 0 /\ EntryIno(d, j, c[x].name) = k
        BY <2>2, <3>0, <3>1, <3>2 DEF Stands
      <3>4. i = j /\ name = c[x].name
        BY <1>3, <1>4, <1>5, <3>3, EntryUnique
      <3>5. y = p
        <4>1. y \in Live(c) \cup {Root}
          BY <3>1, IdsFacts DEF Live, Fits, CacheTree
        <4>2. p \in Live(c) \cup {Root}
          BY IdsFacts DEF Live
        <4> QED
          BY <1>3, <3>2, <3>4, <4>1, <4>2 DEF Fits, CacheTree
      <3>6. x \in Childs(c, p, name)
        BY <3>1, <3>4, <3>5 DEF Live, Childs
      <3> QED
        BY <3>6
    <2> QED
      BY <1>5, <2>1, <2>2
  <1>12. e[z].ino = k
    BY <1>3, <1>4
  <1>13. \A x, y \in Live(e) \cup {Root} : e[x].ino = e[y].ino => x = y
    <2>1. \A x, y \in Live(c) \cup {Root} : c[x].ino = c[y].ino => x = y
      BY DEF Fits, CacheTree
    <2>2. \A x \in Live(c) \cup {Root} : e[x] = c[x]
      BY <1>9, <1>10
    <2> QED
      BY <1>8, <1>11, <1>12, <2>1, <2>2
  <1>14. \A x, y \in Live(e) : e[x].parent = e[y].parent /\ e[x].name = e[y].name => x = y
    <2>1. \A x, y \in Live(c) : c[x].parent = c[y].parent /\ c[x].name = c[y].name => x = y
      BY DEF Fits, CacheTree
    <2>2. ASSUME NEW x \in Live(c), c[x].parent = p, c[x].name = name PROVE FALSE
      <3>1. x \in Childs(c, p, name)
        BY <2>2 DEF Live, Childs
      <3> QED
        BY <3>1
    <2> QED
      BY <1>8, <1>9, <2>1, <2>2
  <1>15. ASSUME NEW x \in Live(e) PROVE e[e[x].parent].st = "live" /\ Rooted(e, x)
    <2>0. \A y \in Live(c) : y \in Live(e) /\ e[y].parent = c[y].parent
      BY <1>8, <1>9
    <2>1. CASE x = z
      <3>1. Rooted(c, p)
        BY RootRooted, IdsFacts DEF Fits, CacheTree, Live
      <3>2. Rooted(e, p)
        BY <2>0, <3>1, RootedKept
      <3>3. Rooted(e, x)
        BY <2>1, <3>2, RootedBelow
      <3> QED
        BY <1>10, <2>1, <3>3
    <2>2. CASE x # z
      <3>1. x \in Live(c) /\ Rooted(c, x) /\ c[c[x].parent].st = "live"
        BY <1>8, <2>2 DEF Fits, CacheTree
      <3>2. Rooted(e, x)
        BY <2>0, <3>1, RootedKept
      <3> QED
        BY <1>9, <3>1, <3>2
    <2> QED
      BY <2>1, <2>2
  <1>16. CacheTree(e)
    BY <1>10, <1>13, <1>14, <1>15 DEF CacheTree, Fits
  <1>18. Stale(e, q) = Stale(c, q)
    <2>1. z \notin Stale(e, q)
      BY DEF Stale
    <2> QED
      BY <1>8, <1>9, <2>1 DEF Stale
  <1>17. ASSUME NEW x \in Live(e) PROVE x \in Stale(e, q) \/ Stands(e, d, x)
    <2>1. CASE x = z
      BY <1>3, <1>4, <1>5, <1>6, <1>10, <2>1 DEF Stands
    <2>2. CASE x # z
      <3>1. x \in Live(c)
        BY <1>8, <2>2
      <3> QED
        BY <1>9, <1>18, <3>1 DEF Stands
    <2> QED
      BY <2>1, <2>2
  <1>19. \A x \in Stale(e, q) : d[e[x].ino].type = "free"
    <2>1. \A x \in Stale(c, q) : x \in Live(c) /\ d[c[x].ino].type = "free"
      BY DEF Fits, Stale
    <2> QED
      BY <1>9, <1>18, <2>1
  <1>20. \A x \in Live(e) : e[x].parent \notin Stale(e, q)
    <2>1. p \notin Stale(c, q)
      BY <1>3, <1>5 DEF Fits
    <2>2. \A x \in Live(c) : c[x].parent \notin Stale(c, q)
      BY DEF Fits
    <2> QED
      BY <1>8, <1>9, <1>18, <2>1, <2>2
  <1> QED
    BY <1>16, <1>17, <1>19, <1>20 DEF Fits

-----------------------------------------------------------------------------
(* Walks through the cache.                                                *)

\* From dirent a the name leads to dirent b without the disk.
Leads(c, a, name, b) ==
  \/ name = NoName /\ b = a
  \/ /\ name # NoName /\ c[a].st = "live"
     /\ name = "." => b = a
     /\ name = ".." => b = c[a].parent
     /\ name \notin {".", ".."} => b \in Childs(c, a, name)

\* The first n names lead from s to b.
Cached(c, s, names, n, b) ==
  \E g \in [0 .. n -> Ids] :
    /\ g[0] = s /\ g[n] = b
    /\ \A k \in 1 .. n : Leads(c, g[k - 1], names[k], g[k])

\* A cache that grows leads where it did.
LEMMA LeadsGrows ==
  ASSUME NEW c, NEW e, Grows(c, e), NEW a \in Ids, NEW name, NEW b, Leads(c, a, name, b)
  PROVE  Leads(e, a, name, b)
PROOF
  <1>1. name # NoName => e[a] = c[a]
    BY DEF Leads, Grows
  <1>2. Childs(c, a, name) \subseteq Childs(e, a, name)
    BY IdsFacts DEF Childs, Grows
  <1> QED
    BY <1>1, <1>2 DEF Leads

\* One name more
LEMMA CachedNext ==
  ASSUME NEW c, NEW e, Grows(c, e), NEW s \in Ids, NEW names, NEW n \in Nat,
         NEW a \in Ids, Cached(c, s, names, n, a),
         NEW b \in Ids, Leads(e, a, names[n + 1], b)
  PROVE  Cached(e, s, names, n + 1, b)
PROOF
  <1>1. PICK g \in [0 .. n -> Ids] :
          /\ g[0] = s /\ g[n] = a
          /\ \A k \in 1 .. n : Leads(c, g[k - 1], names[k], g[k])
    BY DEF Cached
  <1>2. PICK h : h = [i \in 0 .. n + 1 |-> IF i = n + 1 THEN b ELSE g[i]]
    OBVIOUS
  <1>3. h[n + 1] = b /\ \A i \in 0 .. n : h[i] = g[i]
    BY <1>2
  <1>4. h \in [0 .. n + 1 -> Ids]
    <2>1. \A i \in 0 .. n + 1 : i # n + 1 => g[i] \in Ids
      OBVIOUS
    <2> QED
      BY <1>2, <2>1
  <1>5. h[0] = s
    BY <1>1, <1>3
  <1>6. ASSUME NEW k \in 1 .. n + 1 PROVE Leads(e, h[k - 1], names[k], h[k])
    <2>1. CASE k = n + 1
      <3>1. h[k] = b /\ h[k - 1] = a
        BY <1>1, <1>3, <2>1
      <3> QED
        BY <2>1, <3>1
    <2>2. CASE k # n + 1
      <3>1. k \in 1 .. n /\ k - 1 \in 0 .. n /\ h[k] = g[k] /\ h[k - 1] = g[k - 1]
        BY <1>3, <2>2
      <3>2. Leads(c, g[k - 1], names[k], g[k]) /\ g[k - 1] \in Ids
        BY <1>1, <3>1
      <3>3. Leads(e, g[k - 1], names[k], g[k])
        BY <3>2, LeadsGrows
      <3> QED
        BY <3>1, <3>3
    <2> QED
      BY <2>1, <2>2
  <1> QED
    BY <1>3, <1>4, <1>5, <1>6 DEF Cached

\* What a step of a walk from w to v keeps
Stepped(w, v, name) ==
  /\ Fits(v.c, di, pc) /\ Grows(w.c, v.c) /\ v.c[v.d].st # "none"
  /\ v.r = "ok" => w.r = "ok" /\ Leads(v.c, w.d, name, v.d)

\* dirent_lookup keeps the cache good, and what it found stays in it.
LEMMA LookupGrows ==
  ASSUME WalkTypes, NEW L, NEW N, DiskTree(di, L, N), DiskNamed(di), NEW w \in WalkState,
         Fits(w.c, di, pc), w.c[w.d].st # "none", NEW name \in Name, name # NoName,
         NEW v \in WalkState, v = dirent_lookup(w, name)
  PROVE  Stepped(w, v, name)
PROOF
  <1>1. w.c \in Cache /\ w.d \in Ids /\ w.c[w.d] \in Dirent
    BY DEF WalkState, Cache
  <1>2. w.c[w.d].parent \in Ids /\ w.c[w.d].ino \in Slots
        /\ w.c[w.d].st \in {"live", "deleted"}
    BY <1>1 DEF Dirent
  <1>3. Grows(w.c, w.c)
    BY DEF Grows
  <1>4. ASSUME v.c = w.c, v.d = w.d, v.r # "ok" PROVE Stepped(w, v, name)
    BY <1>3, <1>4 DEF Stepped
  <1>5. \A x : LET u == [w EXCEPT !.r = x] IN u.c = w.c /\ u.d = w.d /\ u.r = x
    BY DEF WalkState
  <1>6. CASE w.r # "ok"
    BY <1>4, <1>6 DEF dirent_lookup
  <1>7. CASE w.r = "ok" /\ w.c[w.d].st = "deleted"
    BY <1>4, <1>5, <1>7 DEF dirent_lookup
  <1>8. CASE w.r = "ok" /\ w.c[w.d].st = "live"
    <2> DEFINE dir == w.c[w.d]
               kids == Childs(w.c, w.d, name)
               ino == EntryIno(di, dir.ino, name)
    <2>1. CASE name = "."
      <3>1. v = w
        BY <1>8, <2>1 DEF dirent_lookup
      <3> QED
        BY <1>3, <1>8, <2>1, <3>1 DEF Stepped, Leads
    <2>2. CASE name = ".."
      <3>1. v = [w EXCEPT !.d = dir.parent]
        BY <1>8, <2>2 DEF dirent_lookup
      <3>2. v.c = w.c /\ v.d = dir.parent
        BY <3>1 DEF WalkState
      <3>3. w.c[dir.parent].st = "live"
        <4>1. CASE w.d = Root
          BY <4>1 DEF Fits, CacheTree
        <4>2. CASE w.d # Root
          <5>1. w.d \in Live(w.c)
            BY <1>1, <1>8, <4>2, IdsFacts DEF Live
          <5> QED
            BY <5>1 DEF Fits, CacheTree
        <4> QED
          BY <4>1, <4>2
      <3> QED
        BY <1>3, <1>8, <2>2, <3>2, <3>3 DEF Stepped, Leads
    <2>3. CASE name # "." /\ name # ".." /\ kids # {}
      <3>1. PICK x : x = CHOOSE y \in kids : TRUE
        OBVIOUS
      <3>2. x \in kids
        BY <2>3, <3>1
      <3>3. v = [w EXCEPT !.d = x]
        BY <1>8, <2>3, <3>1 DEF dirent_lookup
      <3>4. v.c = w.c /\ v.d = x
        BY <3>3 DEF WalkState
      <3>5. w.c[x].st = "live"
        BY <3>2 DEF Childs
      <3> QED
        BY <1>3, <1>8, <2>3, <3>2, <3>4, <3>5 DEF Stepped, Leads
    <2>4. CASE /\ name # "." /\ name # ".." /\ kids = {}
               /\ \/ Locked(w.d) \/ lookup(di, dir.ino, name) = 0
                  \/ di[ino].type = "new" \/ Unused(w.c) = {}
      <3>1. PICK x : x # "ok" /\ v = [w EXCEPT !.r = x]
        <4>1. v = [w EXCEPT !.r = "wait"] \/ v = [w EXCEPT !.r = "fail"]
              \/ v = [w EXCEPT !.r = "Unknown file type"] \/ v = [w EXCEPT !.r = "bound"]
          BY <1>8, <2>4, Zenon DEF dirent_lookup
        <4> QED
          BY <4>1, Zenon
      <3>2. v.c = w.c /\ v.d = w.d /\ v.r = x
        BY <3>1 DEF WalkState
      <3>3. v.r # "ok"
        BY <3>1, <3>2
      <3> QED
        BY <1>4, <3>2, <3>3
    <2>5. CASE /\ name # "." /\ name # ".." /\ kids = {} /\ ~Locked(w.d)
               /\ lookup(di, dir.ino, name) # 0
               /\ di[ino].type # "new" /\ Unused(w.c) # {}
      <3>1. v = dirent_cache_add(w, name, ino)
        BY <1>8, <2>5 DEF dirent_lookup
      <3>2. PICK x : x = NewId(w.c)
        OBVIOUS
      <3>3. Unused(w.c) \in SUBSET Nat
        BY FileSystemAssumption DEF Unused
      <3>4. x \in Unused(w.c)
        BY <2>5, <3>2, <3>3, LeastNatural DEF NewId
      <3>5. x \in DirentIds /\ w.c[x].st = "none" /\ x \in Ids
        BY <3>4, IdsFacts DEF Unused
      <3>6. PICK u : u = [st |-> "live", parent |-> w.d, name |-> name, ino |-> ino, ref |-> 1]
        OBVIOUS
      <3>7. /\ u.st = "live" /\ u.parent = w.d /\ u.name = name /\ u.ino = ino
        BY <3>6
      <3>8. v = [w EXCEPT !.d = x, !.c = [w.c EXCEPT ![x] = u]]
        BY <3>1, <3>2, <3>6 DEF dirent_cache_add
      <3>9. v.d = x /\ v.c = [w.c EXCEPT ![x] = u]
        BY <3>8 DEF WalkState
      <3>10. v.c[x] = u /\ \A y \in Ids \ {x} : v.c[y] = w.c[y]
        BY <1>1, <3>5, <3>9 DEF Cache
      <3>11. v.c \in Cache
        BY DEF WalkState
      <3>12. PICK e \in Cache : e = v.c
        BY <3>11
      <3>13. Fits(e, di, pc)
        <4>1. /\ e[x].st = "live" /\ e[x].parent = w.d /\ e[x].name = name
              /\ e[x].ino = EntryIno(di, w.c[w.d].ino, name)
              /\ \A y \in Ids \ {x} : e[y] = w.c[y]
          BY <3>7, <3>10, <3>12
        <4>2. PICK c : c = w.c
          OBVIOUS
        <4>3. Fits(c, di, pc) /\ c[w.d].st = "live" /\ Childs(c, w.d, name) = {}
              /\ lookup(di, c[w.d].ino, name) # 0
              /\ di[EntryIno(di, c[w.d].ino, name)].type # "new" /\ c[x].st = "none"
          BY <1>8, <2>5, <3>5, <4>2
        <4>4. \A t \in Tasks : ~(pc[t].step = "cache_remove" /\ pc[t].locked = w.d)
          BY <2>5 DEF Locked
        <4> QED
          BY <1>1, <3>5, <4>1, <4>2, <4>3, <4>4, AddKeeps
      <3>14. Grows(w.c, v.c)
        BY <3>5, <3>10 DEF Grows
      <3>15. Leads(v.c, w.d, name, v.d)
        <4>1. v.c[w.d] = w.c[w.d]
          BY <1>1, <1>8, <3>5, <3>10
        <4>2. x \in Childs(v.c, w.d, name)
          BY <3>5, <3>7, <3>10 DEF Childs
        <4> QED
          BY <1>8, <2>5, <3>9, <4>1, <4>2 DEF Leads
      <3> QED
        BY <1>8, <3>7, <3>9, <3>10, <3>12, <3>13, <3>14, <3>15 DEF Stepped
    <2> QED
      BY <2>1, <2>2, <2>3, <2>4, <2>5
  <1> QED
    BY <1>2, <1>6, <1>7, <1>8

\* and an empty name changes nothing.
LEMMA NextGrows ==
  ASSUME WalkTypes, NEW L, NEW N, DiskTree(di, L, N), DiskNamed(di), NEW w \in WalkState,
         Fits(w.c, di, pc), w.c[w.d].st # "none", NEW name \in Name,
         NEW v \in WalkState, v = next_name(w, name)
  PROVE  Stepped(w, v, name)
PROOF
  <1>1. CASE name = NoName
    <2>1. v = w
      BY <1>1 DEF next_name
    <2> QED
      BY <1>1, <2>1 DEF Stepped, Grows, Leads
  <1>2. CASE name # NoName
    <2>1. v = dirent_lookup(w, name)
      BY <1>2 DEF next_name
    <2> QED
      BY <1>2, <2>1, LookupGrows
  <1> QED
    BY <1>1, <1>2

\* Where dirent_find starts
StartOf(q, t, p) == IF p.abs THEN Root ELSE q[t]

\* What a walk of n names from s keeps
Walking(w, s, names, n) ==
  /\ w \in WalkState /\ Fits(w.c, di, pc) /\ Grows(dc, w.c) /\ w.c[w.d].st # "none"
  /\ w.r = "ok" => Cached(w.c, s, names, n, w.d)

\* The steps of dirent_find as a function
LEMMA FindSteps ==
  ASSUME WalkTypes, NEW t \in Tasks, NEW p, NEW names \in Seq(Name)
  PROVE  \E walk :
           /\ walk[0] = [c |-> dc, d |-> StartOf(pwd, t, p), r |-> "ok"]
           /\ \A n \in 1 .. Len(names) : walk[n] = next_name(walk[n - 1], names[n])
           /\ dirent_find(t, p, names) = walk[Len(names)]
PROOF
  <1>1. PICK s : s = [c |-> dc, d |-> IF p.abs THEN Root ELSE pwd[t], r |-> "ok"]
    OBVIOUS
  <1>2. PICK m \in Nat : m = Len(names)
    OBVIOUS
  <1>3. \E g : IsWalk(g, s, names, m)
    BY WalkExists
  <1>4. PICK walk : walk = CHOOSE g : IsWalk(g, s, names, m)
    OBVIOUS
  <1>5. walk = [n \in 0 .. m |-> IF n = 0 THEN s ELSE next_name(walk[n - 1], names[n])]
    <2>1. IsWalk(walk, s, names, m)
      BY <1>3, <1>4
    <2> QED
      BY <2>1 DEF IsWalk
  <1>6. dirent_find(t, p, names) = walk[m]
    BY <1>1, <1>2, <1>4 DEF dirent_find, IsWalk
  <1>7. walk[0] = s
    BY <1>5
  <1>8. \A n \in 1 .. m : walk[n] = next_name(walk[n - 1], names[n])
    BY <1>5
  <1>9. s = [c |-> dc, d |-> StartOf(pwd, t, p), r |-> "ok"]
    BY <1>1 DEF StartOf
  <1> QED
    BY <1>2, <1>6, <1>7, <1>8, <1>9

\* dirent_find keeps the cache good, and the way it took stays in it.
LEMMA FindGrows ==
  ASSUME WalkTypes, NEW L, NEW N, DiskTree(di, L, N), DiskNamed(di), Fits(dc, di, pc),
         NEW t \in Tasks, dc[pwd[t]].st # "none", NEW p, NEW names \in Seq(Name)
  PROVE  Walking(dirent_find(t, p, names), StartOf(pwd, t, p), names, Len(names))
PROOF
  <1>1. PICK walk :
           /\ walk[0] = [c |-> dc, d |-> StartOf(pwd, t, p), r |-> "ok"]
           /\ \A n \in 1 .. Len(names) : walk[n] = next_name(walk[n - 1], names[n])
           /\ dirent_find(t, p, names) = walk[Len(names)]
    BY FindSteps
  <1>2. PICK s \in Ids : s = StartOf(pwd, t, p)
    BY IdsFacts DEF StartOf, WalkTypes
  <1>3. PICK m \in Nat : m = Len(names)
    OBVIOUS
  <1> DEFINE S == {n \in Nat : n <= m => Walking(walk[n], s, names, n)}
  <1>4. 0 \in S
    <2>1. walk[0] \in WalkState /\ walk[0].c = dc /\ walk[0].d = s
      BY <1>1, <1>2 DEF WalkState, WalkTypes, Results
    <2>2. dc[s].st # "none"
      BY <1>2 DEF StartOf, Fits, CacheTree
    <2>3. Cached(dc, s, names, 0, s)
      <3>1. PICK g : g = [i \in 0 .. 0 |-> s]
        OBVIOUS
      <3>2. g \in [0 .. 0 -> Ids] /\ g[0] = s
        BY <3>1
      <3> QED
        BY <3>2 DEF Cached
    <2>4. Walking(walk[0], s, names, 0)
      BY <2>1, <2>2, <2>3 DEF Walking, Grows
    <2> QED
      BY <2>4
  <1>5. ASSUME NEW n \in Nat, n \in S PROVE n + 1 \in S
    <2>1. CASE n + 1 <= m
      <3>1. Walking(walk[n], s, names, n)
        BY <1>5, <2>1
      <3>2. PICK w \in WalkState : w = walk[n]
        BY <3>1 DEF Walking
      <3>3. n + 1 \in 1 .. Len(names) /\ (n + 1) - 1 = n
        BY <1>3, <2>1
      <3>4. names[n + 1] \in Name
        BY <3>3
      <3>5. walk[n + 1] = next_name(w, names[n + 1])
        BY <1>1, <3>2, <3>3
      <3>6. PICK v \in WalkState : v = walk[n + 1]
        BY <3>4, <3>5, NextType
      <3>7. Stepped(w, v, names[n + 1])
        BY <3>1, <3>2, <3>4, <3>5, <3>6, NextGrows DEF Walking
      <3>8. Grows(dc, v.c)
        <4>1. Grows(dc, w.c) /\ Grows(w.c, v.c)
          BY <3>1, <3>2, <3>7 DEF Walking, Stepped
        <4> QED
          BY <4>1 DEF Grows
      <3>9. v.r = "ok" => Cached(v.c, s, names, n + 1, v.d)
        <4>1. SUFFICES ASSUME v.r = "ok" PROVE Cached(v.c, s, names, n + 1, v.d)
          OBVIOUS
        <4>2. Cached(w.c, s, names, n, w.d) /\ Leads(v.c, w.d, names[n + 1], v.d)
              /\ Grows(w.c, v.c)
          BY <3>1, <3>2, <3>7, <4>1 DEF Walking, Stepped
        <4>3. w.d \in Ids /\ v.d \in Ids
          BY DEF WalkState
        <4> QED
          BY <4>2, <4>3, CachedNext
      <3>10. Walking(walk[n + 1], s, names, n + 1)
        BY <3>6, <3>7, <3>8, <3>9 DEF Walking, Stepped
      <3> QED
        BY <3>10
    <2>2. CASE ~(n + 1 <= m)
      BY <2>2
    <2> QED
      BY <2>1, <2>2
  <1> HIDE DEF S
  <1>6. Nat \subseteq S
    BY <1>4, <1>5, InductionSet
  <1>7. m \in S
    BY <1>6
  <1> QED
    BY <1>1, <1>2, <1>3, <1>7 DEF S

\* A walk that the cache has changes nothing.
LEMMA CachedFind ==
  ASSUME WalkTypes, CacheTree(dc), NEW t \in Tasks, NEW p, NEW names \in Seq(Name),
         NEW b, Cached(dc, StartOf(pwd, t, p), names, Len(names), b)
  PROVE  dirent_find(t, p, names) = [c |-> dc, d |-> b, r |-> "ok"]
PROOF
  <1>1. PICK walk :
           /\ walk[0] = [c |-> dc, d |-> StartOf(pwd, t, p), r |-> "ok"]
           /\ \A n \in 1 .. Len(names) : walk[n] = next_name(walk[n - 1], names[n])
           /\ dirent_find(t, p, names) = walk[Len(names)]
    BY FindSteps
  <1>2. PICK m \in Nat : m = Len(names)
    OBVIOUS
  <1>3. PICK g \in [0 .. m -> Ids] :
          /\ g[0] = StartOf(pwd, t, p) /\ g[m] = b
          /\ \A k \in 1 .. m : Leads(dc, g[k - 1], names[k], g[k])
    BY <1>2 DEF Cached
  <1> DEFINE S == {n \in Nat : n <= m => walk[n] = [c |-> dc, d |-> g[n], r |-> "ok"]}
  <1>4. 0 \in S
    BY <1>1, <1>3
  <1>5. ASSUME NEW n \in Nat, n \in S PROVE n + 1 \in S
    <2>1. CASE n + 1 <= m
      <3>1. PICK w : w = walk[n]
        OBVIOUS
      <3>2. w.c = dc /\ w.d = g[n] /\ w.r = "ok" /\ w = [c |-> dc, d |-> g[n], r |-> "ok"]
        BY <1>5, <2>1, <3>1
      <3>3. n + 1 \in 1 .. m /\ (n + 1) - 1 = n
        BY <2>1
      <3>4. PICK name : name = names[n + 1]
        OBVIOUS
      <3>5. Leads(dc, g[n], name, g[n + 1])
        BY <1>3, <3>3, <3>4
      <3>6. walk[n + 1] = next_name(w, name)
        BY <1>1, <1>2, <3>1, <3>3, <3>4
      <3>9. CASE name = NoName
        <4>1. walk[n + 1] = w /\ g[n + 1] = g[n]
          BY <3>5, <3>6, <3>9 DEF next_name, Leads
        <4> QED
          BY <3>2, <4>1
      <3>10. CASE name # NoName
        <4>6. walk[n + 1] = dirent_lookup(w, name)
          BY <3>6, <3>10 DEF next_name
        <4>7. dc[g[n]].st = "live"
          BY <3>5, <3>10 DEF Leads
        <4>8. dirent_lookup(w, name) = [c |-> dc, d |-> g[n + 1], r |-> "ok"]
          <5>1. CASE name = "."
            BY <3>2, <3>5, <3>10, <4>7, <5>1 DEF dirent_lookup, Leads
          <5>2. CASE name = ".."
            BY <3>2, <3>5, <3>10, <4>7, <5>2 DEF dirent_lookup, Leads
          <5>3. CASE name # "." /\ name # ".."
            <6>1. g[n + 1] \in Childs(dc, g[n], name)
              BY <3>5, <3>10, <5>3 DEF Leads
            <6>2. \A x \in Childs(dc, g[n], name) : x = g[n + 1]
              BY <6>1 DEF CacheTree, Childs, Live
            <6>3. (CHOOSE x \in Childs(dc, g[n], name) : TRUE) = g[n + 1]
              BY <6>1, <6>2
            <6> QED
              <7>1. /\ Childs(w.c, w.d, name) = Childs(dc, g[n], name) /\ w.c[w.d].st = "live"
                    /\ w.r = "ok" /\ Childs(w.c, w.d, name) # {} /\ w.c[w.d].st # "deleted"
                BY <3>2, <4>7, <6>1
              <7>2. dirent_lookup(w, name)
                      = [w EXCEPT !.d = CHOOSE x \in Childs(w.c, w.d, name) : TRUE]
                BY ONLY <5>3, <7>1, Zenon DEF dirent_lookup
              <7>3. dirent_lookup(w, name) = [w EXCEPT !.d = g[n + 1]]
                BY <6>3, <7>1, <7>2
              <7> QED
                BY <3>2, <7>3
          <5> QED
            BY <5>1, <5>2, <5>3
        <4> QED
          BY <4>6, <4>8
      <3> QED
        BY <3>9, <3>10
    <2>2. CASE ~(n + 1 <= m)
      BY <2>2
    <2> QED
      BY <2>1, <2>2
  <1> HIDE DEF S
  <1>6. Nat \subseteq S
    BY <1>4, <1>5, InductionSet
  <1>7. m \in S
    BY <1>6
  <1> QED
    BY <1>1, <1>2, <1>3, <1>7 DEF S

-----------------------------------------------------------------------------
(* Changes of the cache.                                                   *)

\* e differs from c only in the references and in what is not live.
Same(c, e) ==
  /\ e \in Cache
  /\ \A x \in Ids : e[x].st = "live" <=> c[x].st = "live"
  /\ \A x \in Ids : c[x].st = "live" =>
       e[x].parent = c[x].parent /\ e[x].name = c[x].name /\ e[x].ino = c[x].ino

\* Such a change keeps what the cache says.
LEMMA SameKeeps ==
  ASSUME NEW c, CacheTree(c), NEW e, Same(c, e)
  PROVE  /\ CacheTree(e) /\ Live(e) = Live(c)
         /\ \A d, q : Fits(c, d, q) => Fits(e, d, q)
         /\ \A d, x : x \in Live(c) /\ Stands(c, d, x) => Stands(e, d, x)
         /\ \A n \in Nat : \A s, names, b :
              Cached(c, s, names, n, b) => Cached(e, s, names, n, b)
PROOF
  <1>1. /\ \A x \in Ids : e[x].st = "live" <=> c[x].st = "live"
        /\ \A x \in Ids : c[x].st = "live" =>
             e[x].parent = c[x].parent /\ e[x].name = c[x].name /\ e[x].ino = c[x].ino
    BY DEF Same
  <1>2. Live(e) = Live(c)
    BY <1>1, IdsFacts DEF Live
  <1>3. ASSUME NEW x \in Live(c)
        PROVE  /\ x \in Ids /\ c[x].st = "live" /\ c[x].parent \in Ids
               /\ c[c[x].parent].st = "live" /\ Rooted(c, x)
    <2>1. x \in Ids /\ c[x].st = "live" /\ c[x] \in Dirent
      BY IdsFacts DEF Live, CacheTree, Cache
    <2> QED
      BY <2>1 DEF CacheTree, Dirent
  <1>4. \A x \in Live(c) : /\ e[x].parent = c[x].parent /\ e[x].name = c[x].name
                           /\ e[x].ino = c[x].ino /\ e[c[x].parent].st = "live"
                           /\ e[c[x].parent].ino = c[c[x].parent].ino
    BY <1>1, <1>3
  <1>5. \A x \in Live(e) : e[e[x].parent].st = "live" /\ Rooted(e, x)
    <2>1. \A y \in Live(c) : y \in Live(e) /\ e[y].parent = c[y].parent
      BY <1>2, <1>4
    <2> QED
      BY <1>2, <1>3, <1>4, <2>1, RootedKept
  <1>6. e[Root].st = "live" /\ e[Root].ino = 0 /\ e[Root].parent = Root
    BY <1>1, IdsFacts DEF CacheTree
  <1>7. \A x, y \in Live(e) \cup {Root} : e[x].ino = e[y].ino => x = y
    <2>1. \A x, y \in Live(c) \cup {Root} : c[x].ino = c[y].ino => x = y
      BY DEF CacheTree
    <2>2. \A x \in Live(c) \cup {Root} : e[x].ino = c[x].ino
      BY <1>4, <1>6 DEF CacheTree
    <2> QED
      BY <1>2, <2>1, <2>2
  <1>8. \A x, y \in Live(e) : e[x].parent = e[y].parent /\ e[x].name = e[y].name => x = y
    BY <1>2, <1>4 DEF CacheTree
  <1>9. CacheTree(e)
    BY <1>5, <1>6, <1>7, <1>8 DEF CacheTree, Same
  <1>10. ASSUME NEW d, NEW x, x \in Live(c), Stands(c, d, x) PROVE Stands(e, d, x)
    <2>1. /\ e[x].parent = c[x].parent /\ e[x].name = c[x].name /\ e[x].ino = c[x].ino
          /\ e[e[x].parent].ino = c[c[x].parent].ino
      BY <1>4, <1>10
    <2> QED
      BY <1>10, <2>1 DEF Stands
  <1>11. ASSUME NEW a \in Ids, NEW name, NEW b, Leads(c, a, name, b)
         PROVE  Leads(e, a, name, b)
    <2>1. name # NoName => e[a].st = "live" /\ e[a].parent = c[a].parent
      BY <1>1, <1>11 DEF Leads
    <2>2. Childs(c, a, name) \subseteq Childs(e, a, name)
      BY <1>1, IdsFacts DEF Childs
    <2> QED
      BY <1>11, <2>1, <2>2 DEF Leads
  <1>12. ASSUME NEW n \in Nat, NEW s, NEW names, NEW b, Cached(c, s, names, n, b)
         PROVE  Cached(e, s, names, n, b)
    <2>1. PICK g \in [0 .. n -> Ids] :
            /\ g[0] = s /\ g[n] = b
            /\ \A k \in 1 .. n : Leads(c, g[k - 1], names[k], g[k])
      BY <1>12 DEF Cached
    <2>2. ASSUME NEW k \in 1 .. n PROVE Leads(e, g[k - 1], names[k], g[k])
      <3>1. g[k - 1] \in Ids
        OBVIOUS
      <3> QED
        BY <2>1, <3>1, <1>11
    <2> QED
      BY <2>1, <2>2 DEF Cached
  <1>13. ASSUME NEW d, NEW q, Fits(c, d, q) PROVE Fits(e, d, q)
    <2>1. Stale(e, q) = Stale(c, q) /\ Stale(c, q) \subseteq Live(c)
      BY <1>2, <1>4 DEF Stale
    <2>2. \A x \in Live(c) : x \in Stale(e, q) \/ Stands(e, d, x)
      BY <1>10, <1>13, <2>1 DEF Fits
    <2>3. \A x \in Stale(e, q) : d[e[x].ino].type = "free"
      BY <1>4, <1>13, <2>1 DEF Fits
    <2>4. \A x \in Live(c) : e[x].parent \notin Stale(e, q)
      BY <1>4, <1>13, <2>1 DEF Fits
    <2> QED
      BY <1>2, <1>9, <2>2, <2>3, <2>4 DEF Fits
  <1> QED
    BY <1>2, <1>9, <1>10, <1>12, <1>13

\* dirent_dup, dirent_free and what the model forgets are such changes.
LEMMA SameChanges ==
  ASSUME NEW c \in Cache
  PROVE  /\ \A x \in Ids : \A v \in Int : Same(c, [c EXCEPT ![x].ref = v])
         /\ \A x \in Ids : Same(c, dirent_dup(c, x))
         /\ \A q : Same(c, Forget(c, q))
PROOF
  <1>1. \A x \in Ids : c[x] \in Dirent
    BY DEF Cache
  <1>2. ASSUME NEW x \in Ids, NEW v \in Int PROVE Same(c, [c EXCEPT ![x].ref = v])
    <2>1. PICK r : r = [c[x] EXCEPT !.ref = v]
      OBVIOUS
    <2>2. /\ r \in Dirent /\ r.st = c[x].st /\ r.parent = c[x].parent /\ r.name = c[x].name
          /\ r.ino = c[x].ino
      BY <1>1, <2>1 DEF Dirent
    <2>3. PICK e : e = [c EXCEPT ![x] = r]
      OBVIOUS
    <2>4. e \in Cache /\ e[x] = r /\ \A y \in Ids \ {x} : e[y] = c[y]
      BY <2>2, <2>3 DEF Cache
    <2>5. Same(c, e)
      BY <2>2, <2>4 DEF Same
    <2> QED
      BY <2>1, <2>3, <2>5
  <1>3. \A x \in Ids : Same(c, dirent_dup(c, x))
    BY <1>1, <1>2 DEF dirent_dup, Dirent
  <1>4. ASSUME NEW q PROVE Same(c, Forget(c, q))
    <2>1. PICK e : e = Forget(c, q)
      OBVIOUS
    <2>2. e \in Cache
      BY <2>1, CacheTypes
    <2>3. \A x \in Ids : e[x] = c[x] \/ (e[x] = NoDirent /\ c[x].st = "deleted")
      BY <2>1 DEF Forget
    <2>4. NoDirent.st = "none"
      BY DEF NoDirent
    <2>5. Same(c, e)
      BY <2>2, <2>3, <2>4 DEF Same
    <2> QED
      BY <2>1, <2>5
  <1> QED
    BY <1>2, <1>3, <1>4

\* A dirent with nothing below it is its own subtree.
LEMMA LeafSubtree ==
  ASSUME NEW c, NEW y, \A x \in Live(c) : c[x].parent # y
  PROVE  Subtree(c, y) = {y}
PROOF
  <1> DEFINE Below(s) == s \cup {x \in DirentIds : c[x].st = "live" /\ c[x].parent \in s}
             Def(f) == f = [n \in 0 .. Cardinality(DirentIds) |->
                              IF n = 0 THEN {y} ELSE Below(f[n - 1])]
  <1>0. PICK m \in Nat : m = Cardinality(DirentIds)
    BY FileSystemAssumption, FS_CardinalityType
  <1>1. Below({y}) = {y}
    BY DEF Live
  <1>2. PICK below : below = CHOOSE f : Def(f)
    OBVIOUS
  <1>3. Subtree(c, y) = below[m]
    BY <1>0, <1>2 DEF Subtree
  <1>4. Def([n \in 0 .. m |-> {y}])
    <2>1. PICK h : h = [n \in 0 .. m |-> {y}]
      OBVIOUS
    <2>2. \A n \in 0 .. m : n # 0 => n - 1 \in 0 .. m
      OBVIOUS
    <2>3. \A n \in 0 .. m : n # 0 => h[n - 1] = {y}
      BY <2>1, <2>2
    <2>4. \A n \in 0 .. m : h[n] = IF n = 0 THEN {y} ELSE Below(h[n - 1])
      BY <1>1, <2>1, <2>3
    <2>5. h = [n \in 0 .. m |-> IF n = 0 THEN {y} ELSE Below(h[n - 1])]
      BY <2>1, <2>4
    <2> QED
      BY <1>0, <2>1, <2>5
  <1>5. Def(below)
    <2> HIDE DEF Def
    <2> QED
      BY <1>2, <1>4
  <1>6. /\ below[0] = {y}
        /\ \A n \in Nat : n + 1 <= m => below[n + 1] = Below(below[n])
    <2>1. below = [n \in 0 .. m |-> IF n = 0 THEN {y} ELSE Below(below[n - 1])]
      BY <1>0, <1>5
    <2>2. ASSUME NEW n \in Nat, n + 1 <= m PROVE below[n + 1] = Below(below[n])
      <3>1. n + 1 \in 0 .. m /\ n + 1 # 0 /\ (n + 1) - 1 = n
        BY <2>2
      <3>2. below[n + 1] = Below(below[(n + 1) - 1])
        BY <2>1, <3>1
      <3> QED
        BY <3>1, <3>2
    <2>3. below[0] = {y}
      BY <2>1
    <2> QED
      BY <2>2, <2>3
  <1> DEFINE S == {n \in Nat : n <= m => below[n] = {y}}
  <1>7. 0 \in S
    BY <1>6
  <1>8. ASSUME NEW n \in Nat, n \in S PROVE n + 1 \in S
    <2>1. n + 1 <= m => below[n] = {y}
      BY <1>8
    <2> QED
      BY <1>1, <1>6, <2>1
  <1> HIDE DEF S
  <1>9. Nat \subseteq S
    BY <1>7, <1>8, InductionSet
  <1>10. m \in S
    BY <1>9
  <1> QED
    BY <1>3, <1>10 DEF S

\* dirent_delete of a dirent with nothing below it takes it out of the tree
\* and leaves the others.
LEMMA DeleteKeeps ==
  ASSUME NEW c, CacheTree(c), NEW y \in Live(c), \A x \in Live(c) : c[x].parent # y,
         NEW e, e = dirent_delete(c, y)
  PROVE  /\ CacheTree(e) /\ Live(e) = Live(c) \ {y} /\ \A x \in Ids \ {y} : e[x] = c[x]
         /\ e[y].st = "deleted"
         /\ \A d, x : x \in Live(e) /\ Stands(c, d, x) => Stands(e, d, x)
PROOF
  <1>1. c \in Cache /\ \A x \in Ids : c[x] \in Dirent
    BY DEF CacheTree, Cache
  <1>2. e \in Cache
    BY <1>1, CacheTypes
  <1>3. y \in Ids /\ y # Root
    BY IdsFacts DEF Live
  <1>4. Subtree(c, y) = {y}
    BY LeafSubtree
  <1>5. PICK f : f = [x \in Ids |-> [NoDirent EXCEPT !.st = "deleted", !.ref = c[x].ref - 1]]
    OBVIOUS
  <1>6. e = [x \in Ids |-> IF x \in {y} THEN f[x] ELSE c[x]]
    <2>1. e = [x \in Ids |-> IF x \in Subtree(c, y) THEN f[x] ELSE c[x]]
      BY <1>5 DEF dirent_delete
    <2> QED
      BY <1>4, <2>1
  <1>7. \A x \in Ids \ {y} : e[x] = c[x]
    BY <1>6
  <1>8. e[y].st = "deleted"
    <2>1. e[y] = [NoDirent EXCEPT !.st = "deleted", !.ref = c[y].ref - 1]
      BY <1>3, <1>5, <1>6
    <2> QED
      BY <2>1 DEF NoDirent
  <1>9. Live(e) = Live(c) \ {y}
    BY <1>7, <1>8, IdsFacts DEF Live
  <1>10. \A x \in Live(c) : x \in Ids /\ c[x].parent \in Ids \ {y}
                            /\ c[c[x].parent].st = "live" /\ Rooted(c, x)
    <2>1. \A x \in Live(c) : x \in Ids
      BY IdsFacts DEF Live
    <2> QED
      BY <1>1, <2>1 DEF CacheTree, Dirent
  <1>11. \A x \in Live(e) : /\ x \in Live(c) /\ e[x] = c[x]
                            /\ e[e[x].parent] = c[c[x].parent]
    BY <1>7, <1>9, <1>10
  <1>12. ASSUME NEW x \in Live(e) PROVE Rooted(e, x)
    <2>1. PICK n \in Nat : \E ch : Chain(c, ch, n, x)
      BY <1>10, <1>11 DEF Rooted
    <2>2. PICK ch : Chain(c, ch, n, x)
      BY <2>1
    <2>3. /\ ch \in [0 .. n -> Ids] /\ ch[0] = Root /\ ch[n] = x
          /\ \A i \in 1 .. n : ch[i] \in Live(c) /\ c[ch[i]].parent = ch[i - 1]
      BY <2>2 DEF Chain
    <2>4. ASSUME NEW i \in 1 .. n PROVE ch[i] # y
      <3>1. CASE i = n
        BY <2>3, <3>1, <1>9
      <3>2. CASE i # n
        <4>1. i + 1 \in 1 .. n /\ (i + 1) - 1 = i
          BY <3>2
        <4>2. ch[i + 1] \in Live(c) /\ c[ch[i + 1]].parent = ch[i]
          BY <2>3, <4>1
        <4> QED
          BY <4>2
      <3> QED
        BY <3>1, <3>2
    <2>5. \A i \in 1 .. n : ch[i] \in Live(e) /\ e[ch[i]].parent = ch[i - 1]
      BY <1>9, <1>11, <2>3, <2>4
    <2>6. Chain(e, ch, n, x)
      BY <2>3, <2>5 DEF Chain
    <2> QED
      BY <2>6 DEF Rooted
  <1>13. e[Root] = c[Root]
    BY <1>3, <1>7, IdsFacts
  <1>14. \A x, z \in Live(e) \cup {Root} : e[x].ino = e[z].ino => x = z
    BY <1>11, <1>13 DEF CacheTree
  <1>15. \A x, z \in Live(e) : e[x].parent = e[z].parent /\ e[x].name = e[z].name => x = z
    BY <1>11 DEF CacheTree
  <1>16. CacheTree(e)
    BY <1>2, <1>10, <1>11, <1>12, <1>13, <1>14, <1>15 DEF CacheTree
  <1>17. \A d, x : x \in Live(e) /\ Stands(c, d, x) => Stands(e, d, x)
    BY <1>11 DEF Stands
  <1> QED
    BY <1>7, <1>8, <1>9, <1>16, <1>17

-----------------------------------------------------------------------------
(* Changes of the disk.                                                    *)

\* The dirents whose directory and inode stay stand for what they did.
LEMMA StandsKept ==
  ASSUME NEW c, CacheTree(c), NEW x \in Live(c), NEW d \in [Slots -> Inode], Stands(c, d, x),
         NEW e, \A i \in Slots : d[i].type \in {"dir", "file"} => e[i] = d[i]
  PROVE  Stands(c, e, x)
PROOF
  <1>1. c[x] \in Dirent /\ x \in Ids /\ c[c[x].parent] \in Dirent
    <2>1. x \in Ids /\ c \in Cache
      BY IdsFacts DEF Live, CacheTree
    <2>2. c[x] \in Dirent
      BY <2>1 DEF Cache
    <2>3. c[x].parent \in Ids
      BY <2>2 DEF Dirent
    <2> QED
      BY <2>1, <2>2, <2>3 DEF Cache
  <1>2. PICK i \in Slots : i = c[c[x].parent].ino
    BY <1>1 DEF Dirent
  <1>3. PICK j \in Slots : j = c[x].ino
    BY <1>1 DEF Dirent
  <1>4. /\ lookup(d, i, c[x].name) # 0 /\ EntryIno(d, i, c[x].name) = j
        /\ d[j].type \in {"dir", "file"} /\ c[x].name # NoName /\ j # 0
    BY <1>2, <1>3 DEF Stands
  <1>5. d[i].type = "dir"
    BY <1>4, LookupFinds
  <1>6. e[i] = d[i] /\ e[j] = d[j]
    BY <1>4, <1>5
  <1>7. lookup(e, i, c[x].name) = lookup(d, i, c[x].name)
    BY <1>6 DEF lookup
  <1>8. EntryIno(e, i, c[x].name) = j
    BY <1>4, <1>6, <1>7 DEF EntryIno
  <1> QED
    BY <1>2, <1>3, <1>4, <1>6, <1>7, <1>8 DEF Stands

\* denemefs_lookup depends on the places that have the name.
LEMMA LookupSame ==
  ASSUME NEW d, NEW e, NEW i, NEW name, d[i].type = "dir", e[i].type = "dir",
         {k \in DOMAIN d[i].ents : d[i].ents[k].name = name}
           = {k \in DOMAIN e[i].ents : e[i].ents[k].name = name}
  PROVE  lookup(d, i, name) = lookup(e, i, name)
PROOF
  <1>1. PICK A : A = {k \in DOMAIN d[i].ents : d[i].ents[k].name = name}
    OBVIOUS
  <1>2. A = {k \in DOMAIN e[i].ents : e[i].ents[k].name = name}
    BY <1>1
  <1>3. lookup(d, i, name) = IF A = {} THEN 0 ELSE CHOOSE k \in A : \A m \in A : k <= m
    BY <1>1 DEF lookup
  <1>4. lookup(e, i, name) = IF A = {} THEN 0 ELSE CHOOSE k \in A : \A m \in A : k <= m
    BY <1>2 DEF lookup
  <1> QED
    BY <1>3, <1>4

\* denemefs_add_entry of a new name
LEMMA AppendStands ==
  ASSUME NEW c, CacheTree(c), NEW x \in Live(c), NEW d \in [Slots -> Inode], Stands(c, d, x),
         NEW e, NEW i \in Slots, NEW v \in Entry, OnlyAt(d, e, i), d[i].type = "dir",
         e[i].type = "dir", e[i].ents = Append(d[i].ents, v), lookup(d, i, v.name) = 0
  PROVE  Stands(c, e, x)
PROOF
  <1>1. c[x] \in Dirent /\ x \in Ids /\ c[c[x].parent] \in Dirent
    <2>1. x \in Ids /\ c \in Cache
      BY IdsFacts DEF Live, CacheTree
    <2>2. c[x] \in Dirent
      BY <2>1 DEF Cache
    <2>3. c[x].parent \in Ids
      BY <2>2 DEF Dirent
    <2> QED
      BY <2>1, <2>2, <2>3 DEF Cache
  <1>2. PICK h \in Slots : h = c[c[x].parent].ino
    BY <1>1 DEF Dirent
  <1>3. PICK j \in Slots : j = c[x].ino
    BY <1>1 DEF Dirent
  <1>4. PICK name : name = c[x].name
    OBVIOUS
  <1>5. /\ lookup(d, h, name) # 0 /\ EntryIno(d, h, name) = j
        /\ d[j].type \in {"dir", "file"} /\ name # NoName /\ j # 0
    BY <1>2, <1>3, <1>4 DEF Stands
  <1>6. e[j].type = d[j].type
    BY DEF OnlyAt
  <1>7. lookup(e, h, name) = lookup(d, h, name) /\ EntryIno(e, h, name) = EntryIno(d, h, name)
    <2>1. CASE h # i
      <3>1. e[h] = d[h]
        BY <2>1 DEF OnlyAt
      <3> QED
        BY <3>1 DEF lookup, EntryIno
    <2>2. CASE h = i
      <3>1. name # v.name
        BY <1>5, <2>2
      <3>2. PICK s \in Seq(Entry) : s = d[i].ents
        BY DEF Inode
      <3>3. /\ DOMAIN s = 1 .. Len(s) /\ DOMAIN e[i].ents = 1 .. Len(s) + 1
            /\ e[i].ents[Len(s) + 1] = v /\ \A k \in 1 .. Len(s) : e[i].ents[k] = s[k]
        BY <3>2
      <3>4. {k \in DOMAIN d[i].ents : d[i].ents[k].name = name}
              = {k \in DOMAIN e[i].ents : e[i].ents[k].name = name}
        BY <3>1, <3>2, <3>3
      <3>5. lookup(d, i, name) = lookup(e, i, name)
        BY <3>4, LookupSame, SMTT(30)
      <3>6. lookup(d, i, name) \in 1 .. Len(s)
        BY <1>5, <2>2, <3>2, LookupFinds
      <3> QED
        BY <2>2, <3>2, <3>3, <3>5, <3>6 DEF EntryIno
    <2> QED
      BY <2>1, <2>2
  <1> QED
    BY <1>2, <1>3, <1>4, <1>5, <1>6, <1>7 DEF Stands

\* remove keeps what every other dirent stands for.
LEMMA RemoveStands ==
  ASSUME NEW c, CacheTree(c), NEW x \in Live(c), NEW d, DiskTree(d, {}, {}),
         Stands(c, d, x), NEW y \in Live(c) \cup {Root}, NEW name,
         NEW type \in {"file", "dir"}, may_remove(type, d, c[y].ino, name),
         NEW e, e = remove(d, c[y].ino, name), ~(c[x].parent = y /\ c[x].name = name)
  PROVE  Stands(c, e, x) /\ c[x].ino # EntryIno(d, c[y].ino, name)
PROOF
  <1>0. d \in [Slots -> Inode]
    BY DEF DiskTree
  <1>1. c[x] \in Dirent /\ c[y] \in Dirent /\ c[x].parent \in Live(c) \cup {Root}
        /\ c[c[x].parent] \in Dirent
    <2>1. x \in Ids /\ y \in Ids /\ c \in Cache
      BY IdsFacts DEF Live, CacheTree
    <2>2. c[x] \in Dirent /\ c[y] \in Dirent
      BY <2>1 DEF Cache
    <2>3. c[x].parent \in Ids
      BY <2>2 DEF Dirent
    <2>4. c[c[x].parent].st = "live"
      BY DEF CacheTree
    <2> QED
      BY <2>1, <2>2, <2>3, <2>4, IdsFacts DEF Cache, Live
  <1>2. PICK i \in Slots : i = c[y].ino
    BY <1>1 DEF Dirent
  <1>3. PICK h \in Slots : h = c[c[x].parent].ino
    BY <1>1 DEF Dirent
  <1>4. PICK other : other = c[x].name
    OBVIOUS
  <1>5. PICK l \in Slots : l = c[x].ino
    BY <1>1 DEF Dirent
  <1>6. /\ lookup(d, h, other) # 0 /\ EntryIno(d, h, other) = l
        /\ d[l].type \in {"dir", "file"} /\ other # NoName /\ l # 0
    BY <1>3, <1>4, <1>5 DEF Stands
  <1>7. h = i => other # name
    BY <1>1, <1>2, <1>3, <1>4 DEF CacheTree
  <1>8. lookup(d, i, name) # 0
    BY <1>2 DEF may_remove, denemefs_unlink, denemefs_rmdir
  <1>9. PICK k : k = lookup(d, i, name)
    OBVIOUS
  <1>10. PICK j : j = EntryIno(d, i, name)
    OBVIOUS
  <1>11. j \in Slots /\ k \in 1 .. Len(d[i].ents) /\ d[i].ents[k].name = name
         /\ d[i].type = "dir" /\ d[i].ents[k].no = j
    BY <1>0, <1>8, <1>9, <1>10, LookupFinds DEF Names
  <1>12. d[j].type = "file" \/ (d[j].type = "dir" /\ d[j].ents = <<>>)
    BY <1>2, <1>10 DEF may_remove, denemefs_unlink, denemefs_rmdir, is_empty_dir
  <1>13. l # j
    BY <1>2, <1>6, <1>7, <1>8, <1>10, EntryUnique
  <1>14. h # j /\ i # j
    <2>1. \A b \in Slots : \A z : lookup(d, b, z) # 0 => b # j
      <3>1. SUFFICES ASSUME NEW z, lookup(d, j, z) # 0 PROVE FALSE
        BY <1>11
      <3>2. d[j].type = "dir" /\ lookup(d, j, z) \in 1 .. Len(d[j].ents)
        BY <1>0, <1>11, <3>1, LookupFinds
      <3> QED
        BY <1>12, <3>2
    <2> QED
      BY <1>6, <1>8, <2>1
  <1>15. e = [[d EXCEPT ![i].ents[k] = [name |-> NoName, no |-> 0]] EXCEPT ![j] = Free]
    BY <1>2, <1>9, <1>10 DEF remove, denemefs_free_inode, remove_entry
  <1>16. PICK r : r = [d[i] EXCEPT !.ents[k] = [name |-> NoName, no |-> 0]]
    OBVIOUS
  <1>17. e = [[d EXCEPT ![i] = r] EXCEPT ![j] = Free]
    BY <1>15, <1>16
  <1>18. e[i] = r /\ \A b \in Slots \ {i, j} : e[b] = d[b]
    BY <1>0, <1>11, <1>14, <1>17
  <1>19. r.type = d[i].type /\ r.ents = [d[i].ents EXCEPT ![k] = [name |-> NoName, no |-> 0]]
    BY <1>0, <1>16 DEF Inode
  <1>20. lookup(e, h, other) = lookup(d, h, other)
         /\ EntryIno(e, h, other) = EntryIno(d, h, other)
    <2>1. CASE h # i
      <3>1. e[h] = d[h]
        BY <1>14, <1>18, <2>1
      <3> QED
        BY <3>1 DEF lookup, EntryIno
    <2>2. CASE h = i
      <3>1. other # name
        BY <1>7, <2>2
      <3>2. PICK s \in Seq(Entry) : s = d[i].ents
        BY <1>0 DEF Inode
      <3>3. PICK q : q = e[i].ents
        OBVIOUS
      <3>4. /\ DOMAIN s = 1 .. Len(s) /\ DOMAIN q = 1 .. Len(s)
            /\ q[k].name = NoName /\ \A m \in 1 .. Len(s) : m # k => q[m] = s[m]
        BY <1>11, <1>18, <1>19, <3>2, <3>3, SMTT(30)
      <3>5. {m \in DOMAIN s : s[m].name = other} = {m \in DOMAIN q : q[m].name = other}
        BY <1>6, <1>11, <3>1, <3>2, <3>4
      <3>6. lookup(d, i, other) = lookup(e, i, other)
        BY <1>11, <1>18, <1>19, <3>2, <3>3, <3>5, LookupSame, SMTT(30)
      <3>7. lookup(d, i, other) \in 1 .. Len(s) /\ s[lookup(d, i, other)].name = other
        BY <1>0, <1>6, <2>2, <3>2, LookupFinds
      <3>8. lookup(d, i, other) # k
        BY <1>11, <3>1, <3>2, <3>7
      <3> QED
        BY <2>2, <3>2, <3>3, <3>4, <3>6, <3>7, <3>8 DEF EntryIno
    <2> QED
      BY <2>1, <2>2
  <1>21. e[l].type = d[l].type
    BY <1>13, <1>18, <1>19
  <1> QED
    BY <1>2, <1>3, <1>4, <1>5, <1>6, <1>10, <1>13, <1>20, <1>21 DEF Stands

\* The names of the disk after each change of it: an inode without entries or
\* with the entries it had, a new entry, a removed one.
LEMMA NamedKept ==
  ASSUME NEW d \in [Slots -> Inode], DiskNamed(d), NEW e, NEW i \in Slots
  PROVE  /\ OnlyAt(d, e, i) /\ (e[i].ents = <<>> \/ e[i].ents = d[i].ents) => DiskNamed(e)
         /\ \A v \in Entry : /\ OnlyAt(d, e, i) /\ e[i].ents = Append(d[i].ents, v)
                             /\ v.no # 0
                             => DiskNamed(e)
         /\ \A name : /\ lookup(d, i, name) # 0 /\ e = remove(d, i, name)
                      /\ EntryIno(d, i, name) # i
                      => DiskNamed(e)
PROOF
  <1>0. \A x \in Slots : d[x].ents \in Seq(Entry)
    BY DEF Inode
  <1>1. ASSUME OnlyAt(d, e, i), e[i].ents = <<>> \/ e[i].ents = d[i].ents
        PROVE  DiskNamed(e)
    <2>1. \A x \in Slots : e[x].ents = <<>> \/ e[x].ents = d[x].ents
      BY <1>1 DEF OnlyAt
    <2>2. ASSUME NEW x \in Slots, NEW k \in 1 .. Len(e[x].ents)
          PROVE  e[x].ents[k].no = 0 => e[x].ents[k].name = NoName
      <3>1. e[x].ents = d[x].ents
        BY <2>1
      <3> QED
        BY <3>1 DEF DiskNamed
    <2> QED
      BY <2>2 DEF DiskNamed
  <1>2. ASSUME NEW v \in Entry, OnlyAt(d, e, i), e[i].ents = Append(d[i].ents, v), v.no # 0
        PROVE  DiskNamed(e)
    <2>1. ASSUME NEW x \in Slots, NEW k \in 1 .. Len(e[x].ents)
          PROVE  e[x].ents[k].no = 0 => e[x].ents[k].name = NoName
      <3>1. CASE x # i
        <4>1. e[x] = d[x]
          BY <1>2, <3>1 DEF OnlyAt
        <4> QED
          BY <4>1 DEF DiskNamed
      <3>2. CASE x = i
        <4>1. PICK s \in Seq(Entry) : s = d[i].ents
          BY <1>0
        <4>2. k \in 1 .. Len(s) + 1 /\ e[i].ents[Len(s) + 1] = v
              /\ \A m \in 1 .. Len(s) : e[i].ents[m] = s[m]
          BY <1>2, <3>2, <4>1
        <4>3. CASE k = Len(s) + 1
          BY <1>2, <3>2, <4>2, <4>3
        <4>4. CASE k # Len(s) + 1
          <5>1. k \in 1 .. Len(s)
            BY <4>2, <4>4
          <5> QED
            BY <3>2, <4>1, <4>2, <5>1 DEF DiskNamed
        <4> QED
          BY <4>3, <4>4
      <3> QED
        BY <3>1, <3>2
    <2> QED
      BY <2>1 DEF DiskNamed
  <1>3. ASSUME NEW name, lookup(d, i, name) # 0, e = remove(d, i, name), EntryIno(d, i, name) # i
        PROVE  DiskNamed(e)
    <2>1. PICK k : k = lookup(d, i, name)
      OBVIOUS
    <2>2. PICK j : j = EntryIno(d, i, name)
      OBVIOUS
    <2>3. j \in Slots /\ k \in 1 .. Len(d[i].ents) /\ j # i
      BY <1>3, <2>1, <2>2, LookupFinds
    <2>4. e = [[d EXCEPT ![i].ents[k] = [name |-> NoName, no |-> 0]] EXCEPT ![j] = Free]
      BY <1>3, <2>1, <2>2 DEF remove, denemefs_free_inode, remove_entry
    <2>5. PICK r : r = [d[i] EXCEPT !.ents[k] = [name |-> NoName, no |-> 0]]
      OBVIOUS
    <2>6. e = [[d EXCEPT ![i] = r] EXCEPT ![j] = Free]
      BY <2>4, <2>5
    <2>7. e[i] = r /\ e[j] = Free /\ \A b \in Slots \ {i, j} : e[b] = d[b]
      BY <2>3, <2>6
    <2>8. r.ents = [d[i].ents EXCEPT ![k] = [name |-> NoName, no |-> 0]]
      BY <2>5 DEF Inode
    <2>9. ASSUME NEW x \in Slots, NEW m \in 1 .. Len(e[x].ents)
          PROVE  e[x].ents[m].no = 0 => e[x].ents[m].name = NoName
      <3>1. CASE x = i
        <4>1. PICK s \in Seq(Entry) : s = d[i].ents
          BY <1>0
        <4>2. PICK q : q = e[i].ents
          OBVIOUS
        <4>3. /\ q = [s EXCEPT ![k] = [name |-> NoName, no |-> 0]] /\ k \in 1 .. Len(s)
          BY <2>3, <2>7, <2>8, <4>1, <4>2
        <4>4. /\ Len(q) = Len(s) /\ q[k].name = NoName /\ q[k].no = 0
              /\ \A b \in 1 .. Len(s) : b # k => q[b] = s[b]
          BY <4>3
        <4>5. m \in 1 .. Len(s)
          BY <3>1, <4>2, <4>4
        <4> QED
          BY <3>1, <4>1, <4>2, <4>4, <4>5 DEF DiskNamed
      <3>2. CASE x = j
        <4>1. Len(e[x].ents) = 0
          BY <2>7, <3>2 DEF Free
        <4> QED
          BY <4>1
      <3>3. CASE x \notin {i, j}
        BY <2>7, <3>3 DEF DiskNamed
      <3> QED
        BY <3>1, <3>2, <3>3
    <2> QED
      BY <2>9 DEF DiskNamed
  <1> QED
    BY <1>1, <1>2, <1>3

\* What may be removed has no entries.
LEMMA RemovedLeaf ==
  ASSUME NEW d \in [Slots -> Inode], NEW i \in Slots, NEW name, NEW type \in {"file", "dir"},
         may_remove(type, d, i, name)
  PROVE  /\ \A z : lookup(d, EntryIno(d, i, name), z) = 0
         /\ lookup(d, i, name) # 0 /\ EntryIno(d, i, name) # i
         /\ remove(d, i, name)[EntryIno(d, i, name)].type = "free"
PROOF
  <1>1. lookup(d, i, name) # 0
    BY DEF may_remove, denemefs_unlink, denemefs_rmdir
  <1>2. PICK j : j = EntryIno(d, i, name)
    OBVIOUS
  <1>3. j \in Slots
    BY <1>1, <1>2, LookupFinds
  <1>4. d[j].type = "file" \/ (d[j].type = "dir" /\ d[j].ents = <<>>)
    BY <1>2 DEF may_remove, denemefs_unlink, denemefs_rmdir, is_empty_dir
  <1>5. ASSUME NEW z PROVE lookup(d, j, z) = 0
    <2>1. SUFFICES ASSUME lookup(d, j, z) # 0 PROVE FALSE
      OBVIOUS
    <2>2. d[j].type = "dir" /\ lookup(d, j, z) \in 1 .. Len(d[j].ents)
      BY <1>3, <2>1, LookupFinds
    <2> QED
      BY <1>4, <2>2
  <1>6. remove(d, i, name)[j].type = "free"
    <2>1. PICK e : e = remove_entry(d, i, name)
      OBVIOUS
    <2>2. DOMAIN e = Slots
      BY <2>1 DEF remove_entry
    <2>3. [e EXCEPT ![j] = Free][j] = Free
      BY <1>3, <2>2
    <2>4. remove(d, i, name) = [e EXCEPT ![j] = Free]
      BY <1>2, <2>1 DEF remove, denemefs_free_inode
    <2> QED
      BY <2>3, <2>4 DEF Free
  <1> QED
    BY <1>1, <1>2, <1>5, <1>6

-----------------------------------------------------------------------------
(* The invariant of the cache.                                             *)

\* The cache fits the disk, the current directories are in memory, and
\* dirent_cache_remove will find the directory that unlink locked.
Coherent(d, c, q, r) ==
  /\ DiskNamed(d) /\ Fits(c, d, q)
  /\ \A t \in Tasks : c[r[t]].st # "none"
  /\ \A t \in Tasks : q[t].step = "cache_remove" =>
       Cached(c, StartOf(r, t, q[t].path), q[t].path.dirs, Len(q[t].path.dirs), q[t].locked)

CacheInv == Running /\ ~overlap => Coherent(di, dc, pc, pwd)

\* Without a removal under way the cache says what the disk does.
LEMMA FitsGood ==
  ASSUME NEW d, NEW c, NEW q, \A t \in Tasks : q[t].step # "cache_remove"
  PROVE  Fits(c, d, q) <=> Good(c, d)
PROOF
  <1>1. Stale(c, q) = {}
    BY DEF Stale
  <1> QED
    BY <1>1 DEF Fits, Good

LEMMA CoherentGood ==
  ASSUME NEW d, NEW c, NEW q, NEW r, \A t \in Tasks : q[t].step # "cache_remove"
  PROVE  Coherent(d, c, q, r) <=>
           DiskNamed(d) /\ Good(c, d) /\ \A t \in Tasks : c[r[t]].st # "none"
  BY FitsGood DEF Coherent

\* A removal under way is one of a path.
LEMMA RemoveFacts ==
  ASSUME Consistent(di, pc), NEW t \in Tasks, pc[t].step = "cache_remove"
  PROVE  pc[t].path \in Paths /\ pc[t].locked \in Ids /\ Len(pc[t].path.dirs) \in Nat
PROOF
  <1>1. pc[t] \in Calls
    BY DEF Consistent
  <1>2. Idle.step = "idle"
    BY DEF Idle
  <1>3. \A v \in CreateCall : v.step # "cache_remove"
    BY DEF CreateCall
  <1>4. pc[t] \in RemoveCall
    BY <1>1, <1>2, <1>3 DEF Calls
  <1>5. pc[t].path \in Paths /\ pc[t].locked \in Ids
    BY <1>4 DEF RemoveCall
  <1> QED
    BY <1>5, FileSystemAssumption

\* A call other than cache_remove is the only one.
LEMMA NoRemoval ==
  ASSUME NEW t \in Tasks, Alone(t), pc[t].step # "cache_remove"
  PROVE  \A u \in Tasks : pc[u].step # "cache_remove"
PROOF
  <1>1. Idle.step = "idle"
    BY DEF Idle
  <1> QED
    BY <1>1 DEF Alone

\* dirent_free counts a reference down.
LEMMA FreeKeeps ==
  ASSUME NEW w \in WalkState, NEW v, v = dirent_free(w)
  PROVE  /\ v.d = w.d /\ Same(w.c, v.c) /\ \A y \in Ids : v.c[y].st = w.c[y].st
         /\ v.r = "ok" => w.r = "ok"
         /\ v.r = "dirent_free" \/ v.r = w.r
PROOF
  <1>1. w.c \in Cache /\ w.d \in Ids /\ w.c[w.d] \in Dirent
    BY DEF WalkState, Cache
  <1>2. PICK n \in Int : n = w.c[w.d].ref - 1
    BY <1>1 DEF Dirent
  <1>3. PICK k : k = [w.c EXCEPT ![w.d].ref = n]
    OBVIOUS
  <1>4. Same(w.c, k)
    BY <1>1, <1>3, SameChanges
  <1>5. PICK s : s = IF w.c[w.d].ref = 0 THEN "dirent_free" ELSE w.r
    OBVIOUS
  <1>6. v = [w EXCEPT !.c = k, !.r = s]
    BY <1>2, <1>3, <1>5 DEF dirent_free
  <1>7. v.c = k /\ v.d = w.d /\ v.r = s
    BY <1>6 DEF WalkState
  <1>8. \A y \in Ids : k[y].st = w.c[y].st
    <2>1. PICK a : a = [w.c[w.d] EXCEPT !.ref = n]
      OBVIOUS
    <2>2. a.st = w.c[w.d].st
      BY <1>1, <2>1 DEF Dirent
    <2>3. k = [w.c EXCEPT ![w.d] = a]
      BY <1>3, <2>1
    <2> QED
      BY <1>1, <2>2, <2>3 DEF Cache
  <1>9. (s = "ok" => w.r = "ok") /\ (s = "dirent_free" \/ s = w.r)
    BY <1>5
  <1> QED
    BY <1>4, <1>7, <1>8, <1>9

\* What the walk of a system call leaves
WalkLeaves(w) ==
  /\ w \in WalkState /\ Fits(w.c, di, pc) /\ w.c[w.d].st # "none"
  /\ \A u \in Tasks : w.c[pwd[u]].st # "none"
  /\ \A n \in Nat : \A s, names, b : Cached(dc, s, names, n, b) => Cached(w.c, s, names, n, b)

\* A way through the cache stays when the cache grows.
LEMMA CachedGrows ==
  ASSUME NEW c, NEW e, Grows(c, e), NEW n \in Nat, NEW s, NEW names, NEW b,
         Cached(c, s, names, n, b)
  PROVE  Cached(e, s, names, n, b)
PROOF
  <1>1. PICK g \in [0 .. n -> Ids] :
          /\ g[0] = s /\ g[n] = b
          /\ \A k \in 1 .. n : Leads(c, g[k - 1], names[k], g[k])
    BY DEF Cached
  <1>2. ASSUME NEW k \in 1 .. n PROVE Leads(e, g[k - 1], names[k], g[k])
    <2>1. g[k - 1] \in Ids
      OBVIOUS
    <2> QED
      BY <1>1, <2>1, LeadsGrows
  <1> QED
    BY <1>1, <1>2 DEF Cached

LEMMA WalksKeep ==
  ASSUME WalkTypes, NEW L, NEW N, DiskTree(di, L, N), DiskNamed(di), Fits(dc, di, pc),
         \A u \in Tasks : dc[pwd[u]].st # "none", NEW t \in Tasks, NEW p \in Paths
  PROVE  /\ WalkLeaves(dirent_find(t, p, Append(p.dirs, p.name)))
         /\ WalkLeaves(inode_find(t, p)) /\ WalkLeaves(inode_find2(t, p))
         /\ LET w == inode_find2(t, p)
            IN  w.r = "ok" => /\ w.c[w.d].st = "live"
                              /\ Cached(w.c, StartOf(pwd, t, p), p.dirs, Len(p.dirs), w.d)
PROOF
  <1>1. p.dirs \in Seq(Name) /\ p.name \in Name
    BY FileSystemAssumption DEF Name
  <1>3. PICK names \in Seq(Name) : names = Append(p.dirs, p.name)
    <2>1. Append(p.dirs, p.name) \in Seq(Name)
      BY <1>1
    <2> QED
      BY <2>1
  <1>5. PICK s : s = StartOf(pwd, t, p)
    OBVIOUS
  <1>6. PICK w : w = dirent_find(t, p, names)
    OBVIOUS
  <1>7. PICK v : v = dirent_find(t, p, p.dirs)
    OBVIOUS
  <1>8. Walking(w, s, names, Len(names)) /\ Walking(v, s, p.dirs, Len(p.dirs))
    BY <1>1, <1>5, <1>6, <1>7, FindGrows
  <1>9. ASSUME NEW a, NEW b, NEW n, Walking(a, s, b, n) PROVE WalkLeaves(a)
    <2>1. \A u \in Tasks : a.c[pwd[u]].st # "none"
      BY <1>9 DEF Walking, Grows, WalkTypes
    <2>2. \A k \in Nat : \A x, names2, y :
            Cached(dc, x, names2, k, y) => Cached(a.c, x, names2, k, y)
      BY <1>9, CachedGrows DEF Walking
    <2> QED
      BY <1>9, <2>1, <2>2 DEF Walking, WalkLeaves
  <1>10. WalkLeaves(w) /\ WalkLeaves(v)
    BY <1>8, <1>9
  <1>11. ASSUME NEW a, WalkLeaves(a)
         PROVE  /\ WalkLeaves(inode_dup(a)) /\ inode_dup(a).c = a.c /\ inode_dup(a).d = a.d
                /\ inode_dup(a).r = "ok" => a.r = "ok" /\ a.c[a.d].st = "live"
    <2>1. a \in WalkState /\ inode_dup(a) \in WalkState
      BY <1>11, CacheTypes DEF WalkLeaves
    <2>2. PICK b : b = inode_dup(a)
      OBVIOUS
    <2>3. b.c = a.c /\ b.d = a.d
      BY <2>1, <2>2 DEF inode_dup, WalkState
    <2>4. b.r = "ok" => a.r = "ok" /\ a.c[a.d].st # "deleted"
      BY <2>1, <2>2 DEF inode_dup, WalkState
    <2>5. a.c[a.d].st \in {"none", "live", "deleted"}
      BY <2>1 DEF WalkState, Cache, Dirent
    <2> QED
      BY <1>11, <2>1, <2>2, <2>3, <2>4, <2>5 DEF WalkLeaves
  <1>12. PICK u : u = dirent_find2(t, p)
    OBVIOUS
  <1>13. u = v \/ u = dirent_free(v)
    BY <1>7, <1>12 DEF dirent_find2
  <1>14. PICK m \in Nat : m = Len(p.dirs)
    BY <1>1
  <1>15. WalkLeaves(u) /\ (u.r = "ok" => Cached(u.c, s, p.dirs, m, u.d))
    <2>1. CASE u = v
      BY <1>8, <1>10, <1>14, <2>1 DEF Walking
    <2>2. CASE u = dirent_free(v)
      <3>1. v \in WalkState /\ u \in WalkState
        BY <1>10, <2>2, CacheTypes DEF WalkLeaves
      <3>2. /\ u.d = v.d /\ Same(v.c, u.c) /\ \A y \in Ids : u.c[y].st = v.c[y].st
            /\ u.r = "ok" => v.r = "ok"
        BY <2>2, <3>1, FreeKeeps
      <3>3. CacheTree(v.c) /\ Fits(v.c, di, pc)
        BY <1>10 DEF WalkLeaves, Fits
      <3>4. PICK a : a = v.c
        OBVIOUS
      <3>9. PICK b : b = u.c
        OBVIOUS
      <3>5. /\ Fits(b, di, pc)
            /\ \A k \in Nat : \A x, names2, y :
                 Cached(a, x, names2, k, y) => Cached(b, x, names2, k, y)
        BY <3>2, <3>3, <3>4, <3>9, SameKeeps
      <3>6. v.d \in Ids /\ pwd \in [Tasks -> Ids]
        BY <3>1 DEF WalkState, WalkTypes
      <3>7. WalkLeaves(u)
        <4>1. \A k \in Nat : \A x, names2, y :
                Cached(dc, x, names2, k, y) => Cached(u.c, x, names2, k, y)
          BY <1>10, <3>4, <3>5, <3>9 DEF WalkLeaves
        <4>2. u.c[u.d].st # "none" /\ \A x \in Tasks : u.c[pwd[x]].st # "none"
          BY <1>10, <3>2, <3>6 DEF WalkLeaves
        <4> QED
          BY <3>1, <3>5, <3>9, <4>1, <4>2 DEF WalkLeaves
      <3>8. u.r = "ok" => Cached(u.c, s, p.dirs, m, u.d)
        BY <1>8, <1>14, <3>2, <3>4, <3>5, <3>9 DEF Walking
      <3> QED
        BY <3>7, <3>8
    <2> QED
      BY <1>13, <2>1, <2>2
  <1>16. inode_find2(t, p) = inode_dup(u) /\ inode_find(t, p) = inode_dup(w)
    BY <1>3, <1>6, <1>12 DEF inode_find, inode_find2
  <1> QED
    BY <1>3, <1>5, <1>6, <1>10, <1>11, <1>14, <1>15, <1>16

-----------------------------------------------------------------------------
(* The steps and the cache.                                                *)

\* What a call that starts now finds
LEMMA CallStarts ==
  ASSUME WalkTypes, Consistent(di, pc), Coherent(di, dc, pc, pwd), NEW t \in Tasks, Alone(t),
         pc[t] = Idle
  PROVE  /\ DiskTree(di, {}, {}) /\ DiskNamed(di) /\ Good(dc, di)
         /\ \A u \in Tasks : dc[pwd[u]].st # "none" /\ pc[u] = Idle
                             /\ pc[u].step # "cache_remove"
PROOF
  <1>1. Idle.step = "idle"
    BY DEF Idle
  <1>2. DiskTree(di, {}, {})
    BY <1>1, CallDisk DEF Alone
  <1>3. \A u \in Tasks : pc[u] = Idle
    BY DEF Alone
  <1> QED
    BY <1>1, <1>2, <1>3, CoherentGood

\* A step that changes the cache only by a walk
LEMMA LookCache ==
  ASSUME Consistent(di, pc), Coherent(di, dc, pc, pwd), NEW w, WalkLeaves(w),
         dc' = w.c, UNCHANGED <<di, pc, pwd>>
  PROVE  CacheInv'
PROOF
  <1>1. ASSUME NEW u \in Tasks, pc[u].step = "cache_remove"
        PROVE  Cached(w.c, StartOf(pwd, u, pc[u].path), pc[u].path.dirs,
                      Len(pc[u].path.dirs), pc[u].locked)
    <2>1. Cached(dc, StartOf(pwd, u, pc[u].path), pc[u].path.dirs,
                 Len(pc[u].path.dirs), pc[u].locked)
      BY <1>1 DEF Coherent
    <2>2. Len(pc[u].path.dirs) \in Nat
      BY <1>1, RemoveFacts
    <2> QED
      BY <2>1, <2>2 DEF WalkLeaves
  <1>2. Coherent(di, w.c, pc, pwd)
    BY <1>1 DEF WalkLeaves, Coherent
  <1> QED
    BY <1>2 DEF CacheInv

\* The walks of a call, also of one that comes between the steps of another's
LEMMA CallWalks ==
  ASSUME WalkTypes, Consistent(di, pc), Coherent(di, dc, pc, pwd), NEW t \in Tasks,
         NEW p \in Paths
  PROVE  /\ WalkLeaves(dirent_find(t, p, Append(p.dirs, p.name)))
         /\ WalkLeaves(inode_find(t, p)) /\ WalkLeaves(inode_find2(t, p))
         /\ LET w == inode_find2(t, p)
            IN  w.r = "ok" => /\ w.c[w.d].st = "live"
                              /\ Cached(w.c, StartOf(pwd, t, p), p.dirs, Len(p.dirs), w.d)
PROOF
  <1>1. PICK L : L = AtStep(pc, "add_entry")
    OBVIOUS
  <1>2. PICK N : N = AtStep(pc, "fill")
    OBVIOUS
  <1>3. DiskTree(di, L, N)
    BY <1>1, <1>2 DEF Consistent
  <1>4. DiskNamed(di) /\ Fits(dc, di, pc) /\ \A u \in Tasks : dc[pwd[u]].st # "none"
    BY DEF Coherent
  <1> QED
    BY <1>3, <1>4, WalksKeep

\* open, stat, mknod
LEMMA LookedUpCache ==
  ASSUME WalkTypes, Consistent(di, pc), Coherent(di, dc, pc, pwd),
         NEW t \in Tasks, NEW p \in Paths, NEW w,
         w = inode_find2(t, p) \/ w = inode_find(t, p), looked_up(t, w)
  PROVE  CacheInv'
PROOF
  <1>1. dc' = w.c /\ UNCHANGED <<di, pc, pwd>>
    BY DEF looked_up
  <1>2. WalkLeaves(w)
    BY CallWalks
  <1> QED
    BY <1>1, <1>2, LookCache

\* chdir
LEMMA ChdirCache ==
  ASSUME WalkTypes, Consistent(di, pc), Coherent(di, dc, pc, pwd),
         NEW t \in Tasks, NEW p \in Paths, sys_chdir(t, p)
  PROVE  CacheInv'
PROOF
  <1>1. PICK w : w = dirent_find(t, p, Append(p.dirs, p.name))
    OBVIOUS
  <1>2. pc[t] = Idle /\ UNCHANGED <<di, pc>>
    BY DEF sys_chdir
  <1>4. WalkLeaves(w)
    BY <1>1, CallWalks
  <1>5. w.c \in Cache /\ w.d \in Ids
    BY <1>4 DEF WalkLeaves, WalkState
  <1>6. \/ pwd' = [pwd EXCEPT ![t] = w.d] /\ dc' = Forget(dirent_dup(w.c, w.d), pwd')
        \/ dc' = w.c /\ UNCHANGED pwd
    BY <1>1 DEF sys_chdir
  <1>7. CASE dc' = w.c /\ UNCHANGED pwd
    BY <1>2, <1>4, <1>7, LookCache
  <1>8. CASE pwd' = [pwd EXCEPT ![t] = w.d] /\ dc' = Forget(dirent_dup(w.c, w.d), pwd')
    <2>1. PICK q : q = pwd'
      OBVIOUS
    <2>2. PICK b : b = dirent_dup(w.c, w.d)
      OBVIOUS
    <2>3. PICK e : e = Forget(b, q)
      OBVIOUS
    <2>4. b \in Cache /\ Same(w.c, b)
      BY <1>5, <2>2, CacheTypes, SameChanges
    <2>5. Same(b, e)
      BY <2>3, <2>4, SameChanges
    <2>6. PICK a : a = w.c
      OBVIOUS
    <2>7. /\ CacheTree(a) /\ Fits(a, di, pc)
          /\ \A n \in Nat : \A s, names, y : Cached(dc, s, names, n, y) => Cached(a, s, names, n, y)
      BY <1>4, <2>6 DEF WalkLeaves, Fits
    <2>13. /\ CacheTree(b) /\ Fits(b, di, pc)
           /\ \A n \in Nat : \A s, names, y : Cached(a, s, names, n, y) => Cached(b, s, names, n, y)
      BY <2>4, <2>6, <2>7, SameKeeps
    <2>8. /\ Fits(e, di, pc)
          /\ \A n \in Nat : \A s, names, y : Cached(b, s, names, n, y) => Cached(e, s, names, n, y)
      BY <2>5, <2>13, SameKeeps
    <2>9. \A y \in Ids : b[y].st = w.c[y].st
      <3>1. PICK z : z = [w.c[w.d] EXCEPT !.ref = w.c[w.d].ref + 1]
        OBVIOUS
      <3>2. z.st = w.c[w.d].st
        BY <1>5, <3>1 DEF Cache, Dirent
      <3>3. b = [w.c EXCEPT ![w.d] = z]
        BY <2>2, <3>1 DEF dirent_dup
      <3> QED
        BY <1>5, <3>2, <3>3 DEF Cache
    <2>10. ASSUME NEW u \in Tasks PROVE e[q[u]].st # "none"
      <3>1. pwd \in [Tasks -> Ids]
        BY DEF WalkTypes
      <3>2. q[u] \in Ids /\ (q[u] = w.d \/ q[u] = pwd[u])
        BY <1>5, <1>8, <2>1, <3>1
      <3>3. w.c[q[u]].st # "none"
        BY <1>4, <3>2 DEF WalkLeaves
      <3>4. e[q[u]] = b[q[u]]
        BY <2>3, <3>2 DEF Forget
      <3> QED
        BY <2>9, <3>2, <3>3, <3>4
    <2>11. ASSUME NEW u \in Tasks, pc[u].step = "cache_remove"
           PROVE  Cached(e, StartOf(q, u, pc[u].path), pc[u].path.dirs,
                         Len(pc[u].path.dirs), pc[u].locked)
      <3>1. u # t
        BY <1>2, <2>11 DEF Idle
      <3>2. StartOf(q, u, pc[u].path) = StartOf(pwd, u, pc[u].path)
        BY <1>8, <2>1, <3>1 DEF StartOf, WalkTypes
      <3>3. Cached(dc, StartOf(pwd, u, pc[u].path), pc[u].path.dirs,
                   Len(pc[u].path.dirs), pc[u].locked)
        BY <2>11 DEF Coherent
      <3>4. Len(pc[u].path.dirs) \in Nat
        BY <2>11, RemoveFacts
      <3> QED
        BY <2>7, <2>8, <2>13, <3>2, <3>3, <3>4
    <2>12. Coherent(di, e, pc, q)
      BY <2>8, <2>10, <2>11 DEF Coherent
    <2> QED
      BY <1>2, <1>8, <2>1, <2>2, <2>3, <2>12 DEF CacheInv
  <1> QED
    BY <1>6, <1>7, <1>8

\* A call that goes on to v, and is not a removal, with the disk d
LEMMA CallGoesOnCache ==
  ASSUME WalkTypes, Consistent(di, pc), NEW t \in Tasks, Alone(t), NEW d, NEW c, NEW v,
         DiskNamed(d), Good(c, d), \A u \in Tasks : c[pwd[u]].st # "none",
         v.step # "cache_remove",
         di' = d, dc' = c, pwd' = pwd, pc' = [pc EXCEPT ![t] = v]
  PROVE  CacheInv'
PROOF
  <1>1. PICK q : q = pc'
    OBVIOUS
  <1>2. pc \in [Tasks -> Calls]
    BY DEF Consistent
  <1>3. Idle.step = "idle"
    BY DEF Idle
  <1>4. \A u \in Tasks : q[u] = v \/ q[u] = Idle
    BY <1>1, <1>2 DEF Alone
  <1>5. Coherent(d, c, q, pwd)
    BY <1>3, <1>4, CoherentGood
  <1> QED
    BY <1>1, <1>5 DEF CacheInv

\* creat and mkdir up to the operation of the directory
LEMMA CreateCache ==
  ASSUME WalkTypes, Consistent(di, pc), Coherent(di, dc, pc, pwd),
         NEW t \in Tasks, ~Overlapping', NEW p \in Paths, NEW type, NEW rw, create(t, p, type, rw)
  PROVE  CacheInv'
PROOF
  <1>1. PICK w : w = inode_find2(t, p)
    OBVIOUS
  <1>2. PICK v : v = [step |-> "find_empty_di", dir |-> w.c[w.d].ino, name |-> p.name,
                      type |-> type, rw |-> rw, ino |-> 0]
    OBVIOUS
  <1>3. dc' = w.c /\ di' = di /\ pwd' = pwd /\ (pc' = pc \/ pc' = [pc EXCEPT ![t] = v])
        /\ pc[t] = Idle
    BY <1>1, <1>2 DEF create
  <1>5. WalkLeaves(w)
    BY <1>1, CallWalks
  <1>6. CASE pc' = pc
    BY <1>3, <1>5, <1>6, LookCache
  <1>7. CASE pc' = [pc EXCEPT ![t] = v]
    <2>1. v.step = "find_empty_di"
      BY <1>2
    <2>2. PICK c : c = w.c
      OBVIOUS
    <2>3. Alone(t)
      BY <1>7, <2>1, StartsAlone
    <2>4. DiskNamed(di) /\ \A u \in Tasks : pc[u].step # "cache_remove"
      BY <1>3, <2>3, CallStarts
    <2>5. Good(c, di) /\ \A u \in Tasks : c[pwd[u]].st # "none"
      BY <1>5, <2>2, <2>4, FitsGood DEF WalkLeaves
    <2> QED
      BY <1>3, <1>7, <2>1, <2>2, <2>3, <2>4, <2>5, CallGoesOnCache
  <1> QED
    BY <1>3, <1>6, <1>7

\* What a call inside create finds
LEMMA CreateFinds ==
  ASSUME WalkTypes, Consistent(di, pc), Coherent(di, dc, pc, pwd), NEW t \in Tasks, Alone(t),
         pc[t].step \in {"find_empty_di", "take_di", "add_entry", "fill"}
  PROVE  /\ pc[t] \in CreateCall /\ pc[t].name \in Name
         /\ pc[t].ino \in Slots /\ pc[t].dir \in Slots
         /\ DiskNamed(di) /\ Good(dc, di) /\ CacheTree(dc) /\ di \in [Slots -> Inode]
         /\ \A u \in Tasks : dc[pwd[u]].st # "none"
         /\ \A s \in {"find_empty_di", "take_di", "add_entry", "fill"} : \A i :
              LET v == [pc[t] EXCEPT !.step = s]
                  w == [pc[t] EXCEPT !.step = s, !.ino = i]
              IN  v.step = s /\ w.step = s
PROOF
  <1>1. pc[t] \in CreateCall
    BY CreateCalls
  <1>2. \A u \in Tasks : pc[u].step # "cache_remove"
    BY NoRemoval
  <1>3. DiskNamed(di) /\ Good(dc, di) /\ \A u \in Tasks : dc[pwd[u]].st # "none"
    BY <1>2, CoherentGood
  <1> QED
    BY <1>1, <1>3, InCreate DEF Good, WalkTypes, CreateCall

\* find_empty_di
LEMMA FindEmptyCache ==
  ASSUME WalkTypes, Consistent(di, pc), Coherent(di, dc, pc, pwd), NEW t \in Tasks, Alone(t),
         find_empty_di(t)
  PROVE  CacheInv'
PROOF
  <1>1. pc[t].step = "find_empty_di" /\ di' = di /\ dc' = dc /\ pwd' = pwd
    BY DEF find_empty_di
  <1>2. /\ DiskNamed(di) /\ Good(dc, di) /\ \A u \in Tasks : dc[pwd[u]].st # "none"
        /\ \A i : LET w == [pc[t] EXCEPT !.step = "take_di", !.ino = i]
                  IN  w.step = "take_di"
    BY <1>1, CreateFinds
  <1>3. PICK i : i = CHOOSE j \in EmptySlots : \A k \in EmptySlots : j <= k
    OBVIOUS
  <1>4. PICK v : v = IF EmptySlots = {} THEN Idle
                     ELSE [pc[t] EXCEPT !.step = "take_di", !.ino = i]
    OBVIOUS
  <1>5. pc' = [pc EXCEPT ![t] = v]
    BY <1>3, <1>4 DEF find_empty_di, Consistent
  <1>6. v.step # "cache_remove"
    <2>1. Idle.step = "idle"
      BY DEF Idle
    <2> QED
      BY <1>2, <1>4, <2>1
  <1> QED
    BY <1>1, <1>2, <1>5, <1>6, CallGoesOnCache

\* It takes the inode, which no dirent has.
LEMMA TakeCache ==
  ASSUME WalkTypes, Consistent(di, pc), Coherent(di, dc, pc, pwd), NEW t \in Tasks, Alone(t),
         take_di(t)
  PROVE  CacheInv'
PROOF
  <1>1. pc[t].step = "take_di" /\ dc' = dc /\ pwd' = pwd
    BY DEF take_di
  <1>2. /\ pc[t].ino \in Slots /\ DiskNamed(di) /\ Good(dc, di) /\ CacheTree(dc)
        /\ di \in [Slots -> Inode]
        /\ \A u \in Tasks : dc[pwd[u]].st # "none"
        /\ LET v == [pc[t] EXCEPT !.step = "add_entry"]
           IN  v.step = "add_entry"
    BY <1>1, CreateFinds
  <1>3. PICK i \in Slots : i = pc[t].ino
    BY <1>2
  <1>4. di[i].type = "free"
    BY <1>1, <1>3 DEF Consistent
  <1>5. PICK r : r = [di[i] EXCEPT !.type = "new"]
    OBVIOUS
  <1>6. r \in Inode /\ r.ents = di[i].ents
    BY <1>2, <1>5 DEF Inode
  <1>7. PICK d : d = di'
    OBVIOUS
  <1>8. d = [di EXCEPT ![i] = r]
    BY <1>2, <1>3, <1>4, <1>5, <1>7 DEF take_di
  <1>9. OnlyAt(di, d, i) /\ d[i].ents = di[i].ents
        /\ \A x \in Slots : di[x].type \in {"dir", "file"} => d[x] = di[x]
    BY <1>2, <1>4, <1>6, <1>8 DEF OnlyAt
  <1>10. DiskNamed(d)
    BY <1>2, <1>9, NamedKept
  <1>11. Good(dc, d)
    <2>1. \A x \in Live(dc) : Stands(dc, di, x)
      BY <1>2 DEF Good
    <2>2. \A x \in Live(dc) : Stands(dc, d, x)
      BY <1>2, <1>9, <2>1, StandsKept
    <2> QED
      BY <1>2, <2>2 DEF Good
  <1>12. PICK v : v = [pc[t] EXCEPT !.step = "add_entry"]
    OBVIOUS
  <1>13. v.step # "cache_remove" /\ pc' = [pc EXCEPT ![t] = v]
    BY <1>2, <1>12 DEF take_di, Consistent
  <1> QED
    BY <1>1, <1>2, <1>7, <1>10, <1>11, <1>13, CallGoesOnCache

\* denemefs_add_entry adds a name that no dirent has, or the inode goes back.
LEMMA AddEntryCache ==
  ASSUME WalkTypes, Consistent(di, pc), Coherent(di, dc, pc, pwd), NEW t \in Tasks, Alone(t),
         add_entry(t)
  PROVE  CacheInv'
PROOF
  <1>1. pc[t].step = "add_entry" /\ dc' = dc /\ pwd' = pwd
    BY DEF add_entry
  <1>2. /\ pc[t] \in CreateCall /\ pc[t].ino \in Slots /\ pc[t].dir \in Slots
        /\ DiskNamed(di) /\ Good(dc, di)
        /\ CacheTree(dc) /\ di \in [Slots -> Inode]
        /\ \A u \in Tasks : dc[pwd[u]].st # "none"
        /\ pc[t].name \in Name
        /\ LET v == [pc[t] EXCEPT !.step = "fill"]
           IN  v.step = "fill"
    BY <1>1, CreateFinds
  <1>3. PICK i \in Slots : i = pc[t].ino
    BY <1>2
  <1>4. PICK x \in Slots : x = pc[t].dir
    BY <1>2
  <1>5. PICK name \in Name : name = pc[t].name
    BY <1>2
  <1>6. DiskTree(di, {i}, {})
    BY <1>1, <1>3, CallDisk DEF Alone
  <1>7. di[i].type = "new" /\ i # 0
    BY <1>6 DEF DiskTree, Used, Directories
  <1>8. \A y \in Live(dc) : Stands(dc, di, y)
    BY <1>2 DEF Good
  <1>9. PICK d : d = di'
    OBVIOUS
  <1>10. CASE /\ di[x].type = "dir" /\ ~exists(di, x, name)
              /\ di' = [di EXCEPT ![x].ents = Append(@, [name |-> name, no |-> i])]
              /\ pc' = [pc EXCEPT ![t].step = "fill"]
    <2>1. PICK e : e = [name |-> name, no |-> i]
      OBVIOUS
    <2>2. e \in Entry /\ e.name = name /\ e.no = i
      BY <2>1 DEF Entry
    <2>3. di[x].ents \in Seq(Entry)
      BY <1>2 DEF Inode
    <2>4. Append(di[x].ents, e) \in Seq(Entry)
      BY <2>2, <2>3, AppendProperties
    <2>5. PICK r : r = [di[x] EXCEPT !.ents = Append(di[x].ents, e)]
      OBVIOUS
    <2>6. r \in Inode /\ r.type = "dir" /\ r.ents = Append(di[x].ents, e)
      BY <1>2, <1>10, <2>4, <2>5 DEF Inode
    <2>7. d = [di EXCEPT ![x] = r]
      BY <1>9, <1>10, <2>1, <2>5
    <2>8. OnlyAt(di, d, x) /\ d[x].type = "dir" /\ d[x].ents = Append(di[x].ents, e)
      BY <1>2, <2>6, <2>7 DEF OnlyAt
    <2>9. DiskNamed(d)
      BY <1>2, <1>7, <2>2, <2>8, NamedKept
    <2>10. lookup(di, x, e.name) = 0
      BY <1>10, <2>2 DEF exists
    <2>11. \A y \in Live(dc) : Stands(dc, d, y)
      BY <1>2, <1>8, <1>10, <2>2, <2>8, <2>10, AppendStands
    <2>12. Good(dc, d)
      BY <1>2, <2>11 DEF Good
    <2>13. PICK v : v = [pc[t] EXCEPT !.step = "fill"]
      OBVIOUS
    <2>14. v.step # "cache_remove" /\ pc' = [pc EXCEPT ![t] = v]
      BY <1>2, <1>10, <2>13 DEF Consistent
    <2> HIDE <1>10
    <2> QED
      BY <1>1, <1>2, <1>9, <2>9, <2>12, <2>14, CallGoesOnCache
  <1>11. CASE di' = denemefs_free_inode(di, i) /\ pc' = [pc EXCEPT ![t] = Idle]
    <2>1. Free \in Inode /\ Free.ents = <<>>
      BY DEF Free, Inode
    <2>2. d = [di EXCEPT ![i] = Free]
      BY <1>9, <1>11 DEF denemefs_free_inode
    <2>3. OnlyAt(di, d, i) /\ d[i].ents = <<>>
          /\ \A y \in Slots : di[y].type \in {"dir", "file"} => d[y] = di[y]
      BY <1>2, <1>7, <2>1, <2>2 DEF OnlyAt
    <2>4. DiskNamed(d)
      BY <1>2, <2>3, NamedKept
    <2>5. \A y \in Live(dc) : Stands(dc, d, y)
      BY <1>2, <1>8, <2>3, StandsKept
    <2>6. Good(dc, d)
      BY <1>2, <2>5 DEF Good
    <2>7. Idle.step = "idle"
      BY DEF Idle
    <2> QED
      BY <1>1, <1>2, <1>9, <1>11, <2>4, <2>6, <2>7, CallGoesOnCache
  <1>12. CASE Panic("subdentry overflow")
    BY <1>12 DEF CacheInv, Running, Panic
  <1> QED
    BY <1>3, <1>4, <1>5, <1>10, <1>11, <1>12 DEF add_entry

\* The end of denemefs_create and denemefs_mkdir
LEMMA FillCache ==
  ASSUME WalkTypes, Consistent(di, pc), Coherent(di, dc, pc, pwd), NEW t \in Tasks, Alone(t),
         NEW type \in {"file", "dir"}, fill(t, type)
  PROVE  CacheInv'
PROOF
  <1>1. pc[t].step = "fill" /\ dc' = dc /\ pwd' = pwd
    BY DEF fill
  <1>2. /\ pc[t] \in CreateCall /\ pc[t].ino \in Slots /\ DiskNamed(di) /\ Good(dc, di)
        /\ CacheTree(dc) /\ di \in [Slots -> Inode]
        /\ \A u \in Tasks : dc[pwd[u]].st # "none"
    BY <1>1, CreateFinds
  <1>3. PICK i \in Slots : i = pc[t].ino
    BY <1>2
  <1>4. DiskTree(di, {}, {i})
    BY <1>1, <1>3, CallDisk DEF Alone
  <1>5. di[i].type = "new"
    BY <1>4 DEF DiskTree, Used
  <1>6. PICK d : d = di'
    OBVIOUS
  <1>7. PICK v : v = [type |-> type, rw |-> pc[t].rw, ents |-> <<>>]
    OBVIOUS
  <1>8. v \in Inode /\ v.ents = <<>>
    BY <1>2, <1>7 DEF Inode, CreateCall
  <1>9. d = [di EXCEPT ![i] = v] /\ pc' = [pc EXCEPT ![t] = Idle]
    BY <1>3, <1>6, <1>7 DEF fill
  <1>10. OnlyAt(di, d, i) /\ d[i].ents = <<>>
         /\ \A y \in Slots : di[y].type \in {"dir", "file"} => d[y] = di[y]
    BY <1>2, <1>5, <1>8, <1>9 DEF OnlyAt
  <1>11. DiskNamed(d)
    BY <1>2, <1>10, NamedKept
  <1>12. Good(dc, d)
    <2>1. \A x \in Live(dc) : Stands(dc, di, x)
      BY <1>2 DEF Good
    <2>2. \A x \in Live(dc) : Stands(dc, d, x)
      BY <1>2, <1>10, <2>1, StandsKept
    <2> QED
      BY <1>2, <2>2 DEF Good
  <1>13. Idle.step = "idle"
    BY DEF Idle
  <1> QED
    BY <1>1, <1>2, <1>6, <1>9, <1>11, <1>12, <1>13, CallGoesOnCache

\* unlink and rmdir: the dirent of what they remove is stale until
\* dirent_cache_remove.
LEMMA UnlinkCache ==
  ASSUME WalkTypes, Consistent(di, pc), Coherent(di, dc, pc, pwd),
         NEW t \in Tasks, ~Overlapping', NEW p \in Paths, NEW type \in {"file", "dir"},
         unlink(t, p, type)
  PROVE  CacheInv'
PROOF
  <1>1. PICK w : w = inode_find2(t, p)
    OBVIOUS
  <1>2. PICK i : i = w.c[w.d].ino
    OBVIOUS
  <1>3. PICK v : v = [step |-> "cache_remove", path |-> p, locked |-> w.d]
    OBVIOUS
  <1>4. /\ pc[t] = Idle /\ dc' = w.c /\ pwd' = pwd
        /\ \/ di' = di /\ pc' = pc
           \/ /\ w.r = "ok" /\ may_remove(type, di, i, p.name)
              /\ di' = remove(di, i, p.name) /\ pc' = [pc EXCEPT ![t] = v]
    BY <1>1, <1>2, <1>3 DEF unlink
  <1>6. /\ WalkLeaves(w)
        /\ w.r = "ok" => /\ w.c[w.d].st = "live"
                         /\ Cached(w.c, StartOf(pwd, t, p), p.dirs, Len(p.dirs), w.d)
    BY <1>1, CallWalks
  <1>7. CASE di' = di /\ pc' = pc
    BY <1>4, <1>6, <1>7, LookCache
  <1>8. CASE /\ w.r = "ok" /\ may_remove(type, di, i, p.name)
             /\ di' = remove(di, i, p.name) /\ pc' = [pc EXCEPT ![t] = v]
    <2>0. Alone(t)
      <3>1. v.step = "cache_remove"
        BY <1>3
      <3> QED
        BY <1>8, <3>1, StartsAlone
    <2>6. /\ DiskTree(di, {}, {}) /\ DiskNamed(di)
          /\ \A u \in Tasks : pc[u] = Idle /\ pc[u].step # "cache_remove"
      BY <1>4, <2>0, CallStarts
    <2>1. PICK c : c = w.c
      OBVIOUS
    <2>2. PICK y \in Ids : y = w.d
      BY <1>6 DEF WalkLeaves, WalkState
    <2>3. PICK d : d = di'
      OBVIOUS
    <2>4. PICK q : q = pc'
      OBVIOUS
    <2>5. PICK name : name = p.name
      OBVIOUS
    <2>7. c \in Cache /\ CacheTree(c) /\ \A x \in Live(c) : Stands(c, di, x)
      <3>1. Good(c, di)
        BY <1>6, <2>1, <2>6, FitsGood DEF WalkLeaves
      <3> QED
        BY <3>1 DEF Good, CacheTree
    <2>8. c[y].st = "live" /\ y \in Live(c) \cup {Root} /\ i = c[y].ino /\ i \in Slots
      <3>1. c[y].st = "live"
        BY <1>6, <1>8, <2>1, <2>2
      <3> QED
        BY <1>2, <2>1, <2>2, <2>7, <3>1, IdsFacts DEF Live, Cache, Dirent
    <2>9. /\ may_remove(type, di, i, name) /\ d = remove(di, i, name)
          /\ di \in [Slots -> Inode]
      BY <1>8, <2>3, <2>5 DEF WalkTypes
    <2>10. /\ \A z : lookup(di, EntryIno(di, i, name), z) = 0
           /\ lookup(di, i, name) # 0 /\ EntryIno(di, i, name) # i
           /\ d[EntryIno(di, i, name)].type = "free"
      BY <2>8, <2>9, RemovedLeaf
    <2>11. DiskNamed(d)
      BY <2>6, <2>8, <2>9, <2>10, NamedKept
    <2>12. v.step = "cache_remove" /\ v.path = p /\ v.locked = y
      BY <1>3, <2>2
    <2>13. q[t] = v /\ \A u \in Tasks \ {t} : q[u] = Idle
      BY <1>8, <2>4, <2>6 DEF Consistent
    <2>14. Idle.step = "idle"
      BY DEF Idle
    <2>15. Stale(c, q) = {x \in Live(c) : c[x].parent = y /\ c[x].name = name}
      BY <2>5, <2>12, <2>13, <2>14 DEF Stale
    <2>16. ASSUME NEW x \in Live(c), x \notin Stale(c, q) PROVE Stands(c, d, x)
      <3>1. ~(c[x].parent = y /\ c[x].name = name)
        BY <2>15, <2>16
      <3>2. may_remove(type, di, c[y].ino, name) /\ d = remove(di, c[y].ino, name)
        BY <2>8, <2>9
      <3> QED
        BY <2>6, <2>7, <2>8, <3>1, <3>2, RemoveStands, ZenonT(30)
    <2>17. ASSUME NEW x \in Live(c) PROVE c[x].parent \notin Stale(c, q)
      <3>1. SUFFICES ASSUME NEW z \in Live(c), c[z].parent = y, c[z].name = name,
                            c[x].parent = z
                     PROVE  FALSE
        BY <2>15
      <3>2. EntryIno(di, i, name) = c[z].ino
        BY <2>7, <2>8, <3>1 DEF Stands
      <3>3. lookup(di, c[z].ino, c[x].name) # 0
        BY <2>7, <3>1 DEF Stands
      <3> QED
        BY <2>10, <3>2, <3>3
    <2>18. \A u \in Tasks : c[pwd[u]].st # "none"
      BY <1>6, <2>1 DEF WalkLeaves
    <2>19. Cached(c, StartOf(pwd, t, p), p.dirs, Len(p.dirs), y)
      BY <1>6, <1>8, <2>1, <2>2
    <2>20. ASSUME NEW u \in Tasks, q[u].step = "cache_remove"
           PROVE  Cached(c, StartOf(pwd, u, q[u].path), q[u].path.dirs,
                         Len(q[u].path.dirs), q[u].locked)
      <3>1. u = t
        BY <2>13, <2>14, <2>20
      <3> QED
        BY <2>12, <2>13, <2>19, <3>1
    <2>21. ASSUME NEW x \in Stale(c, q) PROVE d[c[x].ino].type = "free"
      <3>1. x \in Live(c) /\ c[x].parent = y /\ c[x].name = name
        BY <2>15
      <3>2. EntryIno(di, i, name) = c[x].ino
        BY <2>7, <2>8, <3>1 DEF Stands
      <3> QED
        BY <2>10, <3>2
    <2>22. Coherent(d, c, q, pwd)
      BY <2>7, <2>11, <2>16, <2>17, <2>18, <2>20, <2>21 DEF Coherent, Fits
    <2> QED
      BY <1>4, <2>1, <2>3, <2>4, <2>22 DEF CacheInv
  <1> QED
    BY <1>4, <1>7, <1>8

\* dirent_cache_remove finds the locked directory again, and the stale dirent
\* in it.
LEMMA CacheRemoveCache ==
  ASSUME WalkTypes, Consistent(di, pc), Coherent(di, dc, pc, pwd), NEW t \in Tasks, Alone(t),
         dirent_cache_remove(t)
  PROVE  CacheInv'
PROOF
  <1>1. pc[t].step = "cache_remove" /\ di' = di /\ pwd' = pwd
        /\ pc' = [pc EXCEPT ![t] = Idle]
    BY DEF dirent_cache_remove
  <1>2. pc[t].path \in Paths /\ pc[t].locked \in Ids
    BY <1>1, RemoveFacts
  <1>3. PICK p \in Paths : p = pc[t].path
    BY <1>2
  <1>4. PICK b \in Ids : b = pc[t].locked
    BY <1>2
  <1>5. PICK name : name = p.name
    OBVIOUS
  <1>6. /\ DiskNamed(di) /\ CacheTree(dc)
        /\ \A x \in Live(dc) : x \in Stale(dc, pc) \/ Stands(dc, di, x)
        /\ \A x \in Live(dc) : dc[x].parent \notin Stale(dc, pc)
        /\ \A u \in Tasks : dc[pwd[u]].st # "none"
        /\ Cached(dc, StartOf(pwd, t, p), p.dirs, Len(p.dirs), b)
    BY <1>1, <1>3, <1>4 DEF Coherent, Fits
  <1>7. Stale(dc, pc) = {x \in Live(dc) : dc[x].parent = b /\ dc[x].name = name}
    <2>1. Idle.step = "idle"
      BY DEF Idle
    <2>2. \A u \in Tasks : pc[u].step = "cache_remove" <=> u = t
      BY <1>1, <2>1 DEF Alone
    <2> QED
      BY <1>3, <1>4, <1>5, <2>2 DEF Stale
  <1>8. p.dirs \in Seq(Name)
    BY FileSystemAssumption DEF Name
  <1>9. PICK v : v = dirent_find(t, p, p.dirs)
    OBVIOUS
  <1>10. v \in WalkState
    BY <1>8, <1>9, FindType
  <1>11. v.c = dc /\ v.d = b /\ v.r = "ok"
    <2>1. v = [c |-> dc, d |-> b, r |-> "ok"]
      BY <1>6, <1>8, <1>9, CachedFind
    <2> QED
      BY <2>1
  <1>12. PICK w : w = dirent_find2(t, p)
    OBVIOUS
  <1>13. PICK f : f = w.c
    OBVIOUS
  <1>14. /\ w.d = b /\ w.r # "fail" /\ Same(dc, f)
         /\ \A y \in Ids : f[y].st = dc[y].st
    <2>1. CASE w = v
      BY <1>11, <1>13, <2>1 DEF Same, WalkTypes
    <2>2. CASE w = dirent_free(v)
      BY <1>10, <1>11, <1>13, <2>2, FreeKeeps
    <2> QED
      BY <1>9, <1>12, <2>1, <2>2 DEF dirent_find2
  <1>15. /\ CacheTree(f) /\ Live(f) = Live(dc)
         /\ \A x \in Live(dc) : Stands(dc, di, x) => Stands(f, di, x)
    BY <1>6, <1>14, SameKeeps
  <1>16. \A x \in Live(dc) : f[x].parent = dc[x].parent /\ f[x].name = dc[x].name
    BY <1>14, IdsFacts DEF Same, Live
  <1>17. PICK X : X = Childs(f, b, name)
    OBVIOUS
  <1>18. X = Stale(dc, pc)
    <2>1. X = {x \in Live(f) : f[x].parent = b /\ f[x].name = name}
      BY <1>17 DEF Childs, Live
    <2> QED
      BY <1>7, <1>15, <1>16, <2>1
  <1>19. PICK y : y = CHOOSE z \in X : TRUE
    OBVIOUS
  <1>20. PICK c : c = IF X = {} THEN f ELSE dirent_delete(f, y)
    OBVIOUS
  <1>21. PICK e : e = Forget(c, pwd)
    OBVIOUS
  <1>22. dc' = e
    <2>1. dc' = Forget(IF X = {} THEN f ELSE dirent_delete(f, y), pwd)
      BY <1>3, <1>5, <1>12, <1>13, <1>14, <1>17, <1>19 DEF dirent_cache_remove
    <2> QED
      BY <1>20, <1>21, <2>1
  <1>23. Good(c, di) /\ \A u \in Tasks : c[pwd[u]].st # "none"
    <2>0. \A u \in Tasks : pwd[u] \in Ids
      BY DEF WalkTypes
    <2>1. CASE X = {}
      <3>1. c = f
        BY <1>20, <2>1
      <3> QED
        BY <1>6, <1>14, <1>15, <1>18, <2>0, <2>1, <3>1 DEF Good
    <2>2. CASE X # {}
      <3>1. y \in X /\ c = dirent_delete(f, y)
        BY <1>19, <1>20, <2>2
      <3>2. y \in Live(f) /\ f[y].parent = b /\ f[y].name = name
        BY <1>17, <3>1 DEF Childs, Live
      <3>3. \A x \in Live(f) : f[x].parent # y
        BY <1>6, <1>15, <1>16, <1>18, <3>1
      <3>4. /\ CacheTree(c) /\ Live(c) = Live(f) \ {y} /\ \A x \in Ids \ {y} : c[x] = f[x]
            /\ c[y].st = "deleted"
            /\ \A x \in Live(c) : Stands(f, di, x) => Stands(c, di, x)
        BY <1>15, <3>1, <3>2, <3>3, DeleteKeeps
      <3>5. ASSUME NEW x \in Live(c) PROVE Stands(c, di, x)
        <4>1. x \in Live(f) /\ x # y
          BY <3>4
        <4>2. x \notin Stale(dc, pc)
          <5>1. ~(f[x].parent = b /\ f[x].name = name)
            BY <1>15, <3>2, <4>1 DEF CacheTree
          <5> QED
            BY <1>7, <1>15, <1>16, <4>1, <5>1
        <4>3. Stands(f, di, x)
          BY <1>6, <1>15, <4>1, <4>2
        <4> QED
          BY <3>4, <4>3
      <3>6. \A u \in Tasks : c[pwd[u]].st # "none"
        BY <1>6, <1>14, <2>0, <3>4
      <3> QED
        BY <3>4, <3>5, <3>6 DEF Good
    <2> QED
      BY <2>1, <2>2
  <1>24. c \in Cache /\ Same(c, e)
    BY <1>21, <1>23, SameChanges DEF Good, CacheTree
  <1>25. Good(e, di)
    BY <1>23, <1>24, SameKeeps DEF Good
  <1>26. \A u \in Tasks : e[pwd[u]].st # "none"
    BY <1>21, <1>23 DEF Forget, WalkTypes
  <1>27. Idle.step = "idle"
    BY DEF Idle
  <1> QED
    BY <1>1, <1>6, <1>22, <1>25, <1>26, <1>27, CallGoesOnCache

\* At the start only the root is in memory.
LEMMA InitCache ==
  ASSUME Init
  PROVE  CacheInv
PROOF
  <1>1. DiskInv /\ Running /\ ~overlap
    BY InitDisk DEF Init, Running
  <1>2. dc \in Cache
    BY <1>1 DEF DiskInv, WalkTypes
  <1>3. dc[Root].st = "live" /\ dc[Root].ino = 0 /\ dc[Root].parent = Root
    <2>1. dc[Root] = [NoDirent EXCEPT !.st = "live", !.ref = 1 + 2 * Cardinality(Tasks)]
      BY IdsFacts DEF Init
    <2> QED
      BY <2>1 DEF NoDirent
  <1>4. Live(dc) = {}
    <2>1. \A x \in DirentIds : dc[x] = NoDirent
      BY IdsFacts DEF Init
    <2>2. NoDirent.st = "none"
      BY DEF NoDirent
    <2> QED
      BY <2>1, <2>2 DEF Live
  <1>5. CacheTree(dc)
    BY <1>2, <1>3, <1>4 DEF CacheTree
  <1>6. DiskNamed(di)
    <2>1. PICK h : h = [name |-> "home", no |-> 1]
      OBVIOUS
    <2>2. h.no # 0 /\ h.name # NoName
      BY <2>1 DEF NoName
    <2>3. PICK E : E = <<h>>
      OBVIOUS
    <2>4. Len(E) = 1 /\ E[1] = h
      BY <2>3
    <2>5. \A x \in Slots : di[x].ents = E \/ Len(di[x].ents) = 0
      <3>1. \A x \in Slots : \/ di[x] = [type |-> "dir", rw |-> FALSE, ents |-> E]
                             \/ di[x] = [type |-> "dir", rw |-> TRUE, ents |-> <<>>]
                             \/ di[x] = Free
        BY <2>1, <2>3 DEF Init
      <3> QED
        BY <3>1 DEF Free
    <2>6. \A k \in 1 .. Len(E) : E[k] = h
      BY <2>4
    <2> HIDE <2>1, <2>3
    <2> QED
      BY <2>2, <2>5, <2>6 DEF DiskNamed
  <1>7. \A t \in Tasks : pwd[t] = Root /\ pc[t] = Idle
    BY DEF Init, fs_fork
  <1>8. Idle.step = "idle"
    BY DEF Idle
  <1>9. Coherent(di, dc, pc, pwd)
    BY <1>3, <1>4, <1>5, <1>6, <1>7, <1>8, CoherentGood DEF Good
  <1> QED
    BY <1>9 DEF CacheInv

\* Every action keeps the cache coherent, whatever other tasks look up, open or
\* enter between the steps of a call.
LEMMA NextCache ==
  ASSUME DiskInv, CacheInv, [Next]_vars
  PROVE  CacheInv'
PROOF
  <1>1. CASE UNCHANGED vars
    BY <1>1 DEF vars, CacheInv, Running
  <1>2. CASE Next /\ overlap'
    BY <1>2 DEF CacheInv
  <1>3. CASE Step /\ ~overlap /\ ~Overlapping'
    <2>1. ASSUME Running
          PROVE  WalkTypes /\ Consistent(di, pc) /\ Coherent(di, dc, pc, pwd)
      BY <1>3, <2>1 DEF DiskInv, CacheInv
    <2>2. ASSUME NEW t \in Tasks, Running, pc[t].step # "idle"
          PROVE  /\ WalkTypes /\ Consistent(di, pc) /\ Coherent(di, dc, pc, pwd)
                 /\ Alone(t)
      BY <2>1, <2>2, InCallAlone
    <2>3. ASSUME NEW t \in Tasks, NEW p \in Paths, NEW rw \in Modes,
                 sys_creat(t, p, rw) \/ sys_mkdir(t, p, rw)
          PROVE  CacheInv'
      <3>1. PICK type \in {"file", "dir"} : create(t, p, type, rw)
        BY <2>3 DEF sys_creat, sys_mkdir
      <3>2. Running
        BY <3>1 DEF create
      <3> QED
        BY <1>3, <2>1, <3>1, <3>2, CreateCache
    <2>4. ASSUME NEW t \in Tasks, NEW p \in Paths,
                 sys_mknod(t, p) \/ sys_open(t, p) \/ sys_stat(t, p)
          PROVE  CacheInv'
      <3>1. PICK w : looked_up(t, w) /\ (w = inode_find2(t, p) \/ w = inode_find(t, p))
        BY <2>4 DEF sys_mknod, sys_open, sys_stat, file_open, file_stat
      <3>2. Running
        BY <3>1 DEF looked_up
      <3> QED
        BY <2>1, <3>1, <3>2, LookedUpCache
    <2>5. ASSUME NEW t \in Tasks, NEW p \in Paths, sys_unlink(t, p) \/ sys_rmdir(t, p)
          PROVE  CacheInv'
      <3>1. PICK type \in {"file", "dir"} : unlink(t, p, type)
        BY <2>5 DEF sys_unlink, sys_rmdir
      <3>2. Running
        BY <3>1 DEF unlink
      <3> QED
        BY <1>3, <2>1, <3>1, <3>2, UnlinkCache
    <2>6. ASSUME NEW t \in Tasks, NEW p \in Paths, sys_chdir(t, p)
          PROVE  CacheInv'
      <3>1. Running
        BY <2>6 DEF sys_chdir
      <3> QED
        BY <2>1, <2>6, <3>1, ChdirCache
    <2>7. ASSUME NEW t \in Tasks, find_empty_di(t)
          PROVE  CacheInv'
      <3>1. Running /\ pc[t].step # "idle"
        BY <2>7 DEF find_empty_di
      <3> QED
        BY <2>2, <2>7, <3>1, FindEmptyCache
    <2>8. ASSUME NEW t \in Tasks, take_di(t)
          PROVE  CacheInv'
      <3>1. Running /\ pc[t].step # "idle"
        BY <2>8 DEF take_di
      <3> QED
        BY <2>2, <2>8, <3>1, TakeCache
    <2>9. ASSUME NEW t \in Tasks, add_entry(t)
          PROVE  CacheInv'
      <3>1. Running /\ pc[t].step # "idle"
        BY <2>9 DEF add_entry
      <3> QED
        BY <2>2, <2>9, <3>1, AddEntryCache
    <2>10. ASSUME NEW t \in Tasks, denemefs_create(t) \/ denemefs_mkdir(t)
           PROVE  CacheInv'
      <3>1. PICK type \in {"file", "dir"} : fill(t, type)
        BY <2>10 DEF denemefs_create, denemefs_mkdir
      <3>2. Running /\ pc[t].step # "idle"
        BY <3>1 DEF fill
      <3> QED
        BY <2>2, <3>1, <3>2, FillCache
    <2>11. ASSUME NEW t \in Tasks, dirent_cache_remove(t)
           PROVE  CacheInv'
      <3>1. Running /\ pc[t].step # "idle"
        BY <2>11 DEF dirent_cache_remove
      <3> QED
        BY <2>2, <2>11, <3>1, CacheRemoveCache
    <2> QED
      BY <1>3, <2>3, <2>4, <2>5, <2>6, <2>7, <2>8, <2>9, <2>10, <2>11 DEF Step
  <1> QED
    BY <1>1, <1>2, <1>3 DEF Next

\* The cache is coherent also in the middle of unlink and rmdir: only the
\* dirent of what they removed is stale, and dirent_cache_remove, which walks
\* the path a second time, comes to the directory they locked.
THEOREM CacheInvariant == Spec => []CacheInv
PROOF
  <1>1. Init => CacheInv
    BY InitCache
  <1>2. DiskInv /\ CacheInv /\ [Next]_vars => CacheInv'
    BY NextCache
  <1> QED
    BY <1>1, <1>2, DiskInvariant, PTL DEF Spec

-----------------------------------------------------------------------------
(* Paths.                                                                  *)

\* f iterates G from s.
Iterates(f, s, G, m) == f = [n \in 0 .. m |-> IF n = 0 THEN s ELSE G[f[n - 1]]]

LEMMA IterateExists ==
  ASSUME NEW U, NEW s \in U, NEW G \in [U -> U], NEW m \in Nat
  PROVE  \E f \in [0 .. m -> U] : Iterates(f, s, G, m)
PROOF
  <1> DEFINE S == {k \in Nat : \E f \in [0 .. k -> U] : Iterates(f, s, G, k)}
  <1>1. 0 \in S
    <2>1. PICK f : f = [n \in 0 .. 0 |-> s]
      OBVIOUS
    <2>2. f \in [0 .. 0 -> U] /\ Iterates(f, s, G, 0)
      BY <2>1 DEF Iterates
    <2> QED
      BY <2>2
  <1>2. ASSUME NEW k \in Nat, k \in S PROVE k + 1 \in S
    <2>1. PICK g \in [0 .. k -> U] : Iterates(g, s, G, k)
      BY <1>2
    <2>2. g[k] \in U /\ G[g[k]] \in U
      OBVIOUS
    <2>3. PICK v \in U : v = G[g[k]]
      BY <2>2
    <2>4. PICK h : h = [n \in 0 .. k + 1 |-> IF n = k + 1 THEN v ELSE g[n]]
      OBVIOUS
    <2>5. h[k + 1] = v /\ \A n \in 0 .. k : h[n] = g[n]
      BY <2>4
    <2>6. h \in [0 .. k + 1 -> U]
      <3>1. \A n \in 0 .. k + 1 : n # k + 1 => g[n] \in U
        OBVIOUS
      <3> QED
        BY <2>4, <3>1
    <2>7. \A n \in 0 .. k : g[n] = IF n = 0 THEN s ELSE G[g[n - 1]]
      BY <2>1 DEF Iterates
    <2>8. ASSUME NEW n \in 0 .. k + 1 PROVE h[n] = IF n = 0 THEN s ELSE G[h[n - 1]]
      <3>1. CASE n = k + 1
        <4>1. n - 1 = k /\ n # 0 /\ h[n - 1] = g[k]
          BY <3>1, <2>5
        <4> QED
          BY <4>1, <3>1, <2>3, <2>5
      <3>2. CASE n = 0
        BY <3>2, <2>5, <2>7
      <3>3. CASE n # 0 /\ n # k + 1
        <4>1. n \in 0 .. k /\ n - 1 \in 0 .. k
          BY <3>3
        <4>2. h[n] = g[n] /\ h[n - 1] = g[n - 1]
          BY <4>1, <2>5
        <4> QED
          BY <4>1, <4>2, <3>3, <2>7
      <3> QED
        BY <3>1, <3>2, <3>3
    <2>9. Iterates(h, s, G, k + 1)
      BY <2>6, <2>8 DEF Iterates
    <2> QED
      BY <2>6, <2>9
  <1> HIDE DEF S
  <1>3. Nat \subseteq S
    BY <1>1, <1>2, InductionSet
  <1>4. m \in S
    BY <1>3
  <1> QED
    BY <1>4 DEF S

\* The way from the root to a dirent passes no dirent twice.
LEMMA ChainInjective ==
  ASSUME NEW c, NEW n \in Nat, NEW ch, NEW x, Chain(c, ch, n, x)
  PROVE  \A i, j \in 0 .. n : ch[i] = ch[j] => i = j
PROOF
  <1>1. /\ ch \in [0 .. n -> Ids] /\ ch[0] = Root
        /\ \A i \in 1 .. n : ch[i] \in Live(c) /\ c[ch[i]].parent = ch[i - 1]
    BY DEF Chain
  <1> DEFINE S == {i \in Nat : \A j \in 0 .. n : i <= j /\ ch[i] = ch[j] => i = j}
  <1>2. 0 \in S
    <2>1. ASSUME NEW j \in 0 .. n, ch[0] = ch[j] PROVE 0 = j
      <3>1. SUFFICES ASSUME j # 0 PROVE FALSE
        OBVIOUS
      <3>2. j \in 1 .. n
        BY <3>1
      <3>3. ch[j] \in DirentIds
        BY <1>1, <3>2 DEF Live
      <3> QED
        BY <1>1, <2>1, <3>3, IdsFacts
    <2> QED
      BY <2>1
  <1>3. ASSUME NEW i \in Nat, i \in S PROVE i + 1 \in S
    <2>1. ASSUME NEW j \in 0 .. n, i + 1 <= j, ch[i + 1] = ch[j] PROVE i + 1 = j
      <3>1. i + 1 \in 1 .. n /\ j \in 1 .. n /\ (i + 1) - 1 = i
            /\ j - 1 \in 0 .. n /\ i <= j - 1
        BY <2>1
      <3>2. c[ch[i + 1]].parent = ch[i] /\ c[ch[j]].parent = ch[j - 1]
        BY <1>1, <3>1
      <3>3. ch[i] = ch[j - 1]
        BY <2>1, <3>2
      <3>4. i = j - 1
        BY <1>3, <3>1, <3>3
      <3> QED
        BY <3>4
    <2> QED
      BY <2>1
  <1> HIDE DEF S
  <1>4. Nat \subseteq S
    BY <1>2, <1>3, InductionSet
  <1>5. \A i, j \in 0 .. n : i <= j /\ ch[i] = ch[j] => i = j
    BY <1>4 DEF S
  <1> QED
    BY <1>5

\* It has no more steps than there are dirents.
LEMMA ChainShort ==
  ASSUME NEW c, NEW n \in Nat, NEW ch, NEW x, Chain(c, ch, n, x)
  PROVE  n <= Cardinality(DirentIds)
PROOF
  <1>1. /\ ch \in [0 .. n -> Ids] /\ ch[0] = Root
        /\ \A i \in 1 .. n : ch[i] \in Live(c)
    BY DEF Chain
  <1>2. \A i, j \in 0 .. n : ch[i] = ch[j] => i = j
    BY ChainInjective
  <1>3. PICK f : f = [i \in 1 .. n |-> ch[i]]
    OBVIOUS
  <1>4. f \in [1 .. n -> DirentIds]
    BY <1>1, <1>3 DEF Live
  <1>5. f \in Injection(1 .. n, DirentIds)
    BY <1>2, <1>3, <1>4 DEF Injection, IsInjective
  <1>6. Cardinality(1 .. n) <= Cardinality(DirentIds)
    BY <1>5, FS_Injection, FileSystemAssumption
  <1>7. Cardinality(1 .. n) = n
    BY FS_Interval
  <1> QED
    BY <1>6, <1>7

\* dirent_topath gives the names on the way from the root.
LEMMA TopathNames ==
  ASSUME CacheTree(dc), NEW n \in Nat, NEW ch, NEW x, Chain(dc, ch, n, x)
  PROVE  dirent_topath(x) = [i \in 1 .. n |-> dc[ch[i]].name]
PROOF
  <1> DEFINE U == [d : Ids, names : Seq(Name)]
             Up(u) == IF u.d = Root THEN u
                      ELSE [d |-> dc[u.d].parent, names |-> <<dc[u.d].name>> \o u.names]
             s == [d |-> x, names |-> <<>>]
             Def(f) == f = [k \in 0 .. Cardinality(DirentIds) |->
                              IF k = 0 THEN s ELSE Up(f[k - 1])]
  <1>1. /\ ch \in [0 .. n -> Ids] /\ ch[0] = Root /\ ch[n] = x
        /\ \A i \in 1 .. n : ch[i] \in Live(dc) /\ dc[ch[i]].parent = ch[i - 1]
    BY DEF Chain
  <1>2. PICK m \in Nat : m = Cardinality(DirentIds)
    BY FileSystemAssumption, FS_CardinalityType
  <1>3. n <= m
    BY <1>2, ChainShort
  <1>4. \A y \in Ids : dc[y].parent \in Ids /\ dc[y].name \in Name
    BY DEF CacheTree, Cache, Dirent
  <1>5. PICK G : G = [u \in U |-> Up(u)]
    OBVIOUS
  <1>6. G \in [U -> U]
    <2>1. ASSUME NEW u \in U PROVE Up(u) \in U
      <3>1. u.d \in Ids /\ u.names \in Seq(Name)
        OBVIOUS
      <3>2. dc[u.d].parent \in Ids /\ <<dc[u.d].name>> \in Seq(Name)
        BY <1>4, <3>1
      <3>3. <<dc[u.d].name>> \o u.names \in Seq(Name)
        BY <3>1, <3>2
      <3> QED
        BY <3>2, <3>3
    <2> HIDE DEF U, Up
    <2> QED
      BY <1>5, <2>1
  <1>7. s \in U
    BY <1>1
  <1>8. \E f : Def(f)
    <2> HIDE DEF U, Up, s
    <2>1. PICK f \in [0 .. m -> U] : Iterates(f, s, G, m)
      BY <1>6, <1>7, IterateExists
    <2>2. \A k \in 0 .. m : f[k] = IF k = 0 THEN s ELSE G[f[k - 1]]
      BY <2>1 DEF Iterates
    <2>3. \A k \in 0 .. m : k # 0 => f[k - 1] \in U
      BY <2>1
    <2>4. \A k \in 0 .. m : f[k] = IF k = 0 THEN s ELSE Up(f[k - 1])
      BY <1>5, <2>2, <2>3
    <2>5. f = [k \in 0 .. m |-> IF k = 0 THEN s ELSE Up(f[k - 1])]
      BY <2>1, <2>4
    <2> QED
      BY <1>2, <2>5
  <1>9. PICK up : up = CHOOSE f : Def(f)
    OBVIOUS
  <1>10. dirent_topath(x) = up[m].names
    BY <1>2, <1>9 DEF dirent_topath
  <1>11. Def(up)
    <2> HIDE DEF Def
    <2> QED
      BY <1>8, <1>9
  <1>12. up[0] = s /\ \A k \in Nat : k + 1 <= m => up[k + 1] = Up(up[k])
    <2> HIDE DEF s, Up
    <2>1. up = [k \in 0 .. m |-> IF k = 0 THEN s ELSE Up(up[k - 1])]
      BY <1>2, <1>11
    <2>2. ASSUME NEW k \in Nat, k + 1 <= m PROVE up[k + 1] = Up(up[k])
      <3>1. k + 1 \in 0 .. m /\ k + 1 # 0 /\ (k + 1) - 1 = k
        BY <2>2
      <3>2. up[k + 1] = Up(up[(k + 1) - 1])
        BY <2>1, <3>1
      <3> QED
        BY <3>1, <3>2
    <2>3. up[0] = s
      BY <2>1
    <2> QED
      BY <2>2, <2>3
  <1> DEFINE At(u, j) == u.d = ch[j] /\ u.names = [i \in 1 .. n - j |-> dc[ch[j + i]].name]
             Place(k) == IF k <= n THEN n - k ELSE 0
             S == {k \in Nat : k <= m => At(up[k], Place(k))}
  <1>13. 0 \in S
    <2>1. up[0].d = ch[n] /\ up[0].names = <<>>
      BY <1>1, <1>12
    <2>2. [i \in 1 .. n - n |-> dc[ch[n + i]].name] = <<>>
      OBVIOUS
    <2> QED
      BY <2>1, <2>2
  <1>14. ASSUME NEW k \in Nat, k \in S PROVE k + 1 \in S
    <2>1. SUFFICES ASSUME k + 1 <= m PROVE At(up[k + 1], Place(k + 1))
      OBVIOUS
    <2>2. PICK u : u = up[k]
      OBVIOUS
    <2>3. PICK j \in 0 .. n : j = Place(k)
      OBVIOUS
    <2>4. At(u, j)
      BY <1>14, <2>1, <2>2, <2>3
    <2>5. up[k + 1] = Up(u)
      BY <1>12, <2>1, <2>2
    <2>6. CASE j = 0
      <3>1. Place(k + 1) = 0
        BY <2>3, <2>6
      <3>2. Up(u) = u
        BY <1>1, <2>4, <2>6
      <3> QED
        BY <2>4, <2>5, <2>6, <3>1, <3>2
    <2>7. CASE j # 0
      <3>1. Place(k + 1) = j - 1 /\ j \in 1 .. n /\ j - 1 \in 0 .. n
        BY <2>3, <2>7
      <3>2. ch[j] # Root /\ dc[ch[j]].parent = ch[j - 1]
        BY <1>1, <3>1, IdsFacts DEF Live
      <3>3. PICK a \in Name : a = dc[ch[j]].name
        BY <1>1, <1>4, <3>1
      <3>4. PICK q : q = [i \in 1 .. n - j |-> dc[ch[j + i]].name]
        OBVIOUS
      <3>5. q \in Seq(Name) /\ Len(q) = n - j
        <4>1. PICK l \in Nat : l = n - j
          OBVIOUS
        <4>2. \A i \in 1 .. l : ch[j + i] \in Ids
          BY <1>1, <4>1
        <4>3. q \in [1 .. l -> Name]
          BY <1>4, <3>4, <4>1, <4>2
        <4>4. q \in Seq(Name) /\ Len(q) = l
          BY ONLY <4>3
        <4> QED
          BY <4>1, <4>4
      <3>6. u.d = ch[j] /\ u.names = q
        BY <2>4, <3>4
      <3>7. Up(u) = [d |-> ch[j - 1], names |-> <<a>> \o q]
        BY <3>2, <3>3, <3>6
      <3>8. <<a>> \in Seq(Name) /\ Len(<<a>>) = 1 /\ <<a>>[1] = a
        BY <3>3
      <3>9. /\ <<a>> \o q \in Seq(Name) /\ Len(<<a>> \o q) = 1 + (n - j)
            /\ \A i \in 1 .. 1 + (n - j) :
                 (<<a>> \o q)[i] = IF i <= 1 THEN <<a>>[i] ELSE q[i - 1]
        BY <3>5, <3>8, ConcatProperties
      <3>10. PICK r : r = <<a>> \o q
        OBVIOUS
      <3>11. r = [i \in 1 .. n - (j - 1) |-> dc[ch[(j - 1) + i]].name]
        <4>1. 1 + (n - j) = n - (j - 1)
          OBVIOUS
        <4>2. r = [i \in 1 .. n - (j - 1) |-> r[i]]
          BY <3>9, <3>10, <4>1
        <4>3. ASSUME NEW i \in 1 .. n - (j - 1) PROVE r[i] = dc[ch[(j - 1) + i]].name
          <5>1. CASE i = 1
            <6>1. (j - 1) + i = j
              BY <5>1
            <6> QED
              BY <3>3, <3>8, <3>9, <3>10, <4>1, <5>1, <6>1
          <5>2. CASE i # 1
            <6>1. i - 1 \in 1 .. n - j /\ j + (i - 1) = (j - 1) + i /\ ~(i <= 1)
              BY <5>2
            <6>2. r[i] = q[i - 1]
              BY <3>9, <3>10, <4>1, <6>1
            <6> QED
              BY <3>4, <6>1, <6>2
          <5> QED
            BY <5>1, <5>2
        <4> QED
          BY <4>2, <4>3
      <3>12. Up(u).d = ch[j - 1] /\ Up(u).names = r
        <4>1. PICK v : v = Up(u)
          OBVIOUS
        <4>2. v = [d |-> ch[j - 1], names |-> r]
          BY <3>7, <3>10, <4>1
        <4>3. v.d = ch[j - 1] /\ v.names = r
          BY <4>2
        <4> HIDE DEF Up
        <4> QED
          BY <4>1, <4>3
      <3> QED
        BY <2>5, <3>1, <3>11, <3>12
    <2> QED
      BY <2>6, <2>7
  <1> HIDE DEF S
  <1>15. Nat \subseteq S
    BY <1>13, <1>14, InductionSet
  <1>16. m \in S
    BY <1>15
  <1>17. At(up[m], 0)
    <2>1. Place(m) = 0
      BY <1>3
    <2> QED
      BY <1>16, <2>1 DEF S
  <1>18. [i \in 1 .. n - 0 |-> dc[ch[0 + i]].name] = [i \in 1 .. n |-> dc[ch[i]].name]
    OBVIOUS
  <1> QED
    BY <1>10, <1>17, <1>18

-----------------------------------------------------------------------------
(* What a path stands for on a disk.                                       *)

\* Directory x has an entry of the name, for a file or directory y.
Edge(d, x, name, y) ==
  /\ y \in Slots \ {0} /\ d[y].type \in {"dir", "file"}
  /\ \E k \in 1 .. Len(d[x].ents) : d[x].ents[k].name = name /\ d[x].ents[k].no = y

\* The path q leads from the root to inode y.
Reach(d, q, y) ==
  \E g \in [0 .. Len(q) -> Slots] :
    /\ g[0] = 0 /\ g[Len(q)] = y
    /\ \A k \in 1 .. Len(q) : Edge(d, g[k - 1], q[k], g[k])

\* What the paths of a disk need of it
Shaped(d) == d \in [Slots -> Inode] /\ d[0].type = "dir" /\ NamesDiffer(d) /\ NamedOnce(d)

LEMMA DiskShaped ==
  ASSUME NEW d, NEW L, NEW N, DiskTree(d, L, N)
  PROVE  Shaped(d)
  BY DEF DiskTree, Shaped, Directories

\* An inode is in one place, and a name has one inode.
LEMMA EdgeUnique ==
  ASSUME NEW d, Shaped(d), NEW x \in Slots, NEW a, NEW y, Edge(d, x, a, y)
  PROVE  /\ \A z \in Slots : \A b : Edge(d, z, b, y) => z = x /\ b = a
         /\ \A z : Edge(d, x, a, z) => z = y
PROOF
  <1>1. y \in Slots \ {0}
    BY DEF Edge
  <1>2. PICK k \in 1 .. Len(d[x].ents) : d[x].ents[k].name = a /\ d[x].ents[k].no = y
    BY DEF Edge
  <1>3. ASSUME NEW z \in Slots, NEW b, Edge(d, z, b, y) PROVE z = x /\ b = a
    <2>1. PICK j \in 1 .. Len(d[z].ents) : d[z].ents[j].name = b /\ d[z].ents[j].no = y
      BY <1>3 DEF Edge
    <2>2. Names(d, x, k, y) /\ Names(d, z, j, y)
      BY <1>2, <2>1 DEF Names
    <2>3. x = z /\ j = k
      BY <1>1, <2>2 DEF Shaped, NamedOnce
    <2> QED
      BY <1>2, <2>1, <2>3
  <1>4. ASSUME NEW z, Edge(d, x, a, z) PROVE z = y
    <2>1. z # 0
      BY <1>4 DEF Edge
    <2>2. PICK j \in 1 .. Len(d[x].ents) : d[x].ents[j].name = a /\ d[x].ents[j].no = z
      BY <1>4 DEF Edge
    <2>3. j = k
      BY <1>1, <1>2, <2>1, <2>2 DEF Shaped, NamesDiffer
    <2> QED
      BY <1>2, <2>2, <2>3
  <1> QED
    BY <1>3, <1>4

\* Names on the disk are names.
LEMMA EdgeNamed ==
  ASSUME NEW d \in [Slots -> Inode], NEW x \in Slots, NEW a, NEW y, Edge(d, x, a, y)
  PROVE  a \in Name /\ y \in Slots \ {0} /\ d[y].type \in {"dir", "file"}
PROOF
  <1>1. PICK k \in 1 .. Len(d[x].ents) : d[x].ents[k].name = a
    BY DEF Edge
  <1>2. d[x].ents \in Seq(Entry)
    BY DEF Inode
  <1>3. d[x].ents[k] \in Entry
    BY <1>1, <1>2
  <1> QED
    BY <1>1, <1>3 DEF Edge, Entry

\* A path is empty, or one name longer than another.
LEMMA PathCases ==
  ASSUME NEW q \in Seq(Name), q # <<>>
  PROVE  \E r \in Seq(Name), a \in Name : q = Append(r, a) /\ Len(q) = Len(r) + 1
PROOF
  <1>1. PICK r : r = SubSeq(q, 1, Len(q) - 1)
    OBVIOUS
  <1>2. PICK n \in Nat : n = Len(q)
    OBVIOUS
  <1>3. n # 0
    BY <1>2, EmptySeq
  <1>4. r \in Seq(Name) /\ Len(r) = n - 1 /\ \A i \in 1 .. n - 1 : r[i] = q[i]
    BY <1>1, <1>2, <1>3, SubSeqProperties
  <1>5. q[n] \in Name
    BY <1>2, <1>3
  <1>6. PICK a \in Name : a = q[n]
    BY <1>5
  <1>7. PICK s : s = Append(r, a)
    OBVIOUS
  <1>8. /\ s \in Seq(Name) /\ Len(s) = n /\ s[n] = a
        /\ \A i \in 1 .. n - 1 : s[i] = r[i]
    BY <1>3, <1>4, <1>7, AppendProperties
  <1>9. \A i \in 1 .. n : s[i] = q[i]
    <2>1. \A i \in 1 .. n : i = n \/ i \in 1 .. n - 1
      OBVIOUS
    <2> QED
      BY <1>4, <1>6, <1>8, <2>1
  <1>10. q = s
    BY <1>2, <1>8, <1>9, SeqEqual
  <1> QED
    BY <1>2, <1>4, <1>7, <1>10

LEMMA FrontOfAppend ==
  ASSUME NEW r \in Seq(Name), NEW a \in Name
  PROVE  Front(Append(r, a)) = r /\ Append(r, a) # <<>> /\ Append(r, a) \in Seq(Name)
PROOF
  <1>1. PICK q : q = Append(r, a)
    OBVIOUS
  <1>2. PICK n \in Nat : n = Len(r)
    OBVIOUS
  <1>3. q \in Seq(Name) /\ Len(q) = n + 1 /\ q # <<>> /\ \A i \in 1 .. n : q[i] = r[i]
    BY <1>1, <1>2, AppendProperties
  <1>4. PICK s : s = SubSeq(q, 1, n)
    OBVIOUS
  <1>5. s \in Seq(Name) /\ Len(s) = n /\ \A i \in 1 .. n : s[i] = q[i]
    BY <1>3, <1>4, SubSeqProperties
  <1>6. s = r
    BY <1>2, <1>3, <1>5, SeqEqual
  <1>7. Front(q) = s
    BY <1>3, <1>4 DEF Front
  <1> QED
    BY <1>1, <1>3, <1>6, <1>7

\* The empty path is the root's.
LEMMA ReachRoot ==
  ASSUME NEW d, NEW y
  PROVE  Reach(d, <<>>, y) <=> y = 0
PROOF
  <1>1. Len(<<>>) = 0
    OBVIOUS
  <1>2. ASSUME Reach(d, <<>>, y) PROVE y = 0
    BY <1>1, <1>2 DEF Reach
  <1>3. ASSUME y = 0 PROVE Reach(d, <<>>, y)
    <2>1. PICK g : g = [i \in 0 .. 0 |-> 0]
      OBVIOUS
    <2>2. g \in [0 .. 0 -> Slots] /\ g[0] = 0
      BY <2>1, FileSystemAssumption
    <2> QED
      BY <1>1, <1>3, <2>2 DEF Reach
  <1> QED
    BY <1>2, <1>3

\* A longer path is a step more.
LEMMA ReachNext ==
  ASSUME NEW d, NEW r \in Seq(Name), NEW a \in Name, NEW y
  PROVE  Reach(d, Append(r, a), y) <=> \E x \in Slots : Reach(d, r, x) /\ Edge(d, x, a, y)
PROOF
  <1>1. PICK q : q = Append(r, a)
    OBVIOUS
  <1>2. PICK n \in Nat : n = Len(r)
    OBVIOUS
  <1>3. Len(q) = n + 1 /\ q[n + 1] = a /\ \A i \in 1 .. n : q[i] = r[i]
    BY <1>1, <1>2, AppendProperties
  <1>4. ASSUME Reach(d, q, y) PROVE \E x \in Slots : Reach(d, r, x) /\ Edge(d, x, a, y)
    <2>1. PICK g \in [0 .. n + 1 -> Slots] :
            /\ g[0] = 0 /\ g[n + 1] = y
            /\ \A k \in 1 .. n + 1 : Edge(d, g[k - 1], q[k], g[k])
      BY <1>3, <1>4 DEF Reach
    <2>2. PICK h : h = [i \in 0 .. n |-> g[i]]
      OBVIOUS
    <2>3. h \in [0 .. n -> Slots] /\ h[0] = 0 /\ h[n] = g[n] /\ g[n] \in Slots
      BY <2>1, <2>2
    <2>4. ASSUME NEW k \in 1 .. n PROVE Edge(d, h[k - 1], r[k], h[k])
      <3>1. k \in 1 .. n + 1 /\ h[k] = g[k] /\ h[k - 1] = g[k - 1] /\ q[k] = r[k]
        BY <1>3, <2>2
      <3>2. Edge(d, g[k - 1], q[k], g[k])
        BY <2>1, <3>1
      <3> QED
        BY <3>1, <3>2
    <2>5. Reach(d, r, g[n])
      BY <1>2, <2>3, <2>4 DEF Reach
    <2>6. Edge(d, g[n], a, y)
      <3>1. n + 1 \in 1 .. n + 1 /\ (n + 1) - 1 = n
        OBVIOUS
      <3>2. Edge(d, g[(n + 1) - 1], q[n + 1], g[n + 1])
        BY <2>1, <3>1
      <3> QED
        BY <1>3, <2>1, <3>1, <3>2
    <2> QED
      BY <2>3, <2>5, <2>6
  <1>5. ASSUME NEW x \in Slots, Reach(d, r, x), Edge(d, x, a, y) PROVE Reach(d, q, y)
    <2>1. PICK g \in [0 .. n -> Slots] :
            /\ g[0] = 0 /\ g[n] = x
            /\ \A k \in 1 .. n : Edge(d, g[k - 1], r[k], g[k])
      BY <1>2, <1>5 DEF Reach
    <2>2. PICK h : h = [i \in 0 .. n + 1 |-> IF i = n + 1 THEN y ELSE g[i]]
      OBVIOUS
    <2>3. h[n + 1] = y /\ \A i \in 0 .. n : h[i] = g[i]
      BY <2>2
    <2>4. h \in [0 .. n + 1 -> Slots]
      <3>1. \A i \in 0 .. n + 1 : i # n + 1 => g[i] \in Slots
        OBVIOUS
      <3>2. y \in Slots
        BY <1>5 DEF Edge
      <3> QED
        BY <2>2, <3>1, <3>2
    <2>5. ASSUME NEW k \in 1 .. n + 1 PROVE Edge(d, h[k - 1], q[k], h[k])
      <3>1. CASE k = n + 1
        <4>1. h[k] = y /\ h[k - 1] = x /\ q[k] = a
          BY <1>3, <2>1, <2>3, <3>1
        <4> QED
          BY <1>5, <4>1
      <3>2. CASE k # n + 1
        <4>1. k \in 1 .. n /\ h[k] = g[k] /\ h[k - 1] = g[k - 1] /\ q[k] = r[k]
          BY <1>3, <2>3, <3>2
        <4> QED
          BY <2>1, <4>1
      <3> QED
        BY <3>1, <3>2
    <2>6. h[0] = 0
      BY <2>1, <2>3
    <2> QED
      BY <1>3, <2>3, <2>4, <2>5, <2>6 DEF Reach
  <1> QED
    BY <1>1, <1>4, <1>5

\* A path leads to one inode, and an inode has one path.
LEMMA ReachUnique ==
  ASSUME NEW d, Shaped(d), NEW q \in Seq(Name), NEW x \in Slots, Reach(d, q, x)
  PROVE  /\ \A y \in Slots : Reach(d, q, y) => y = x
         /\ \A r \in Seq(Name) : Reach(d, r, x) => r = q
         /\ d[x].type \in {"dir", "file"}
PROOF
  <1> DEFINE P(p, z) == /\ \A y \in Slots : Reach(d, p, y) => y = z
                        /\ \A r \in Seq(Name) : Reach(d, r, z) => r = p
                        /\ d[z].type \in {"dir", "file"}
             S == {n \in Nat : \A p \in Seq(Name) : \A z \in Slots :
                                 Len(p) = n /\ Reach(d, p, z) => P(p, z)}
  <1>0. d \in [Slots -> Inode] /\ d[0].type = "dir"
    BY DEF Shaped
  <1>1. 0 \in S
    <2>1. ASSUME NEW p \in Seq(Name), NEW z \in Slots, Len(p) = 0, Reach(d, p, z)
          PROVE  P(p, z)
      <3>1. p = <<>> /\ z = 0
        BY <2>1, ReachRoot, EmptySeq
      <3>2. \A y \in Slots : Reach(d, p, y) => y = z
        BY <3>1, ReachRoot
      <3>3. ASSUME NEW r \in Seq(Name), Reach(d, r, z) PROVE r = p
        <4>1. SUFFICES ASSUME r # <<>> PROVE FALSE
          BY <3>1
        <4>2. PICK s \in Seq(Name), a \in Name : r = Append(s, a)
          BY <4>1, PathCases
        <4>3. \E y \in Slots : Reach(d, s, y) /\ Edge(d, y, a, z)
          BY <3>3, <4>2, ReachNext
        <4> QED
          BY <3>1, <4>3 DEF Edge
      <3> QED
        BY <1>0, <3>1, <3>2, <3>3
    <2> HIDE DEF P
    <2> QED
      BY <2>1
  <1>2. ASSUME NEW n \in Nat, n \in S PROVE n + 1 \in S
    <2>1. ASSUME NEW p \in Seq(Name), NEW z \in Slots, Len(p) = n + 1, Reach(d, p, z)
          PROVE  P(p, z)
      <3>1. p # <<>>
        BY <2>1, EmptySeq
      <3>2. PICK s \in Seq(Name), a \in Name : p = Append(s, a) /\ Len(p) = Len(s) + 1
        BY <3>1, PathCases
      <3>3. PICK w \in Slots : Reach(d, s, w) /\ Edge(d, w, a, z)
        BY <2>1, <3>2, ReachNext
      <3>4. Len(s) = n
        BY <2>1, <3>2
      <3>5. P(s, w)
        <4> HIDE DEF P
        <4> QED
          BY <1>2, <3>3, <3>4
      <3>6. ASSUME NEW y \in Slots, Reach(d, p, y) PROVE y = z
        <4>1. PICK v \in Slots : Reach(d, s, v) /\ Edge(d, v, a, y)
          BY <3>2, <3>6, ReachNext
        <4>2. v = w
          BY <3>5, <4>1
        <4> QED
          BY <3>3, <4>1, <4>2, EdgeUnique
      <3>7. ASSUME NEW r \in Seq(Name), Reach(d, r, z) PROVE r = p
        <4>1. r # <<>>
          <5>1. z # 0
            BY <3>3 DEF Edge
          <5> QED
            BY <3>7, <5>1, ReachRoot
        <4>2. PICK u \in Seq(Name), b \in Name : r = Append(u, b)
          BY <4>1, PathCases
        <4>3. PICK v \in Slots : Reach(d, u, v) /\ Edge(d, v, b, z)
          BY <3>7, <4>2, ReachNext
        <4>4. v = w /\ b = a
          BY <3>3, <4>3, EdgeUnique
        <4>5. u = s
          BY <3>5, <4>3, <4>4
        <4> QED
          BY <3>2, <4>2, <4>4, <4>5
      <3>8. d[z].type \in {"dir", "file"}
        BY <3>3 DEF Edge
      <3> QED
        BY <3>6, <3>7, <3>8
    <2> HIDE DEF P
    <2> QED
      BY <2>1
  <1> HIDE DEF S, P
  <1>3. Nat \subseteq S
    BY <1>1, <1>2, InductionSet
  <1>4. Len(q) \in Nat
    OBVIOUS
  <1>5. P(q, x)
    BY <1>3, <1>4 DEF S
  <1> QED
    BY <1>5 DEF P

\* A path passes no inode twice, so it is shorter than the number of inodes.
LEMMA ReachShort ==
  ASSUME NEW d, Shaped(d), NEW q \in Seq(Name), NEW y, Reach(d, q, y)
  PROVE  Len(q) + 1 <= Cardinality(Slots)
PROOF
  <1>1. PICK n \in Nat : n = Len(q)
    OBVIOUS
  <1>2. PICK g \in [0 .. n -> Slots] :
          g[0] = 0 /\ \A k \in 1 .. n : Edge(d, g[k - 1], q[k], g[k])
    BY <1>1 DEF Reach
  <1> DEFINE S == {i \in Nat : \A j \in 0 .. n : i <= j /\ g[i] = g[j] => i = j}
  <1>3. 0 \in S
    <2>1. ASSUME NEW j \in 0 .. n, g[0] = g[j] PROVE 0 = j
      <3>1. SUFFICES ASSUME j # 0 PROVE FALSE
        OBVIOUS
      <3>2. j \in 1 .. n
        BY <3>1
      <3>3. g[j] # 0
        BY <1>2, <3>2 DEF Edge
      <3> QED
        BY <1>2, <2>1, <3>3
    <2> QED
      BY <2>1
  <1>4. ASSUME NEW i \in Nat, i \in S PROVE i + 1 \in S
    <2>1. ASSUME NEW j \in 0 .. n, i + 1 <= j, g[i + 1] = g[j] PROVE i + 1 = j
      <3>1. i + 1 \in 1 .. n /\ j \in 1 .. n /\ (i + 1) - 1 = i
            /\ j - 1 \in 0 .. n /\ i <= j - 1 /\ i \in 0 .. n
        BY <2>1
      <3>2. Edge(d, g[i], q[i + 1], g[j]) /\ Edge(d, g[j - 1], q[j], g[j])
        <4>1. Edge(d, g[(i + 1) - 1], q[i + 1], g[i + 1]) /\ Edge(d, g[j - 1], q[j], g[j])
          BY <1>2, <3>1
        <4> QED
          BY <2>1, <3>1, <4>1
      <3>3. g[i] \in Slots /\ g[j - 1] \in Slots
        BY <3>1
      <3>4. g[i] = g[j - 1]
        BY <3>2, <3>3, EdgeUnique
      <3>5. i = j - 1
        BY <1>4, <3>1, <3>4
      <3> QED
        BY <3>5
    <2> QED
      BY <2>1
  <1> HIDE DEF S
  <1>5. Nat \subseteq S
    BY <1>3, <1>4, InductionSet
  <1>6. \A i, j \in 0 .. n : i <= j /\ g[i] = g[j] => i = j
    BY <1>5 DEF S
  <1>7. \A i, j \in 0 .. n : g[i] = g[j] => i = j
    BY <1>6
  <1>8. g \in Injection(0 .. n, Slots)
    BY <1>7 DEF Injection, IsInjective
  <1>9. Cardinality(0 .. n) <= Cardinality(Slots)
    BY <1>8, FS_Injection, FileSystemAssumption
  <1>10. Cardinality(0 .. n) = n + 1
    BY FS_Interval
  <1> QED
    BY <1>1, <1>9, <1>10

-----------------------------------------------------------------------------
(* Walks.                                                                  *)

Walk == [path : Seq(Name), ino : Slots]

\* One step of Walks
WalkStep(d, x) ==
  {[path |-> Append(x.path, e.name), ino |-> e.no] :
     e \in {y \in Entries(d, x.ino) : d[y.no].type \in {"dir", "file"}}}

\* It follows the entries.
LEMMA StepEdges ==
  ASSUME NEW d \in [Slots -> Inode], NEW w \in Walk, NEW v
  PROVE  v \in WalkStep(d, w) <=>
           \E a \in Name, y \in Slots : /\ Edge(d, w.ino, a, y)
                                        /\ v = [path |-> Append(w.path, a), ino |-> y]
PROOF
  <1>1. PICK h \in Slots : h = w.ino
    BY DEF Walk
  <1>2. PICK s \in Seq(Entry) : s = d[h].ents
    BY DEF Inode
  <1>3. DOMAIN s = 1 .. Len(s) /\ \A k \in 1 .. Len(s) : s[k] \in Entry
    OBVIOUS
  <1>4. \A e \in Entry : e.name \in Name /\ e.no \in Slots
    BY DEF Entry
  <1>5. ASSUME v \in WalkStep(d, w)
        PROVE  \E a \in Name, y \in Slots : /\ Edge(d, w.ino, a, y)
                                            /\ v = [path |-> Append(w.path, a), ino |-> y]
    <2>1. PICK e \in Entries(d, h) : /\ d[e.no].type \in {"dir", "file"}
                                     /\ v = [path |-> Append(w.path, e.name), ino |-> e.no]
      BY <1>1, <1>5 DEF WalkStep
    <2>2. e \in Range(s) /\ e.no # 0
      BY <1>2 DEF Entries
    <2>3. PICK k \in 1 .. Len(s) : e = s[k]
      BY <1>3, <2>2 DEF Range
    <2>4. e.name \in Name /\ e.no \in Slots
      BY <1>3, <1>4, <2>3
    <2>5. Edge(d, h, e.name, e.no)
      BY <1>2, <2>1, <2>2, <2>3, <2>4 DEF Edge
    <2> QED
      BY <1>1, <2>1, <2>4, <2>5
  <1>6. ASSUME NEW a \in Name, NEW y \in Slots, Edge(d, w.ino, a, y),
               v = [path |-> Append(w.path, a), ino |-> y]
        PROVE  v \in WalkStep(d, w)
    <2>1. PICK k \in 1 .. Len(s) : s[k].name = a /\ s[k].no = y
      BY <1>1, <1>2, <1>6 DEF Edge
    <2>2. y # 0 /\ d[y].type \in {"dir", "file"}
      BY <1>6 DEF Edge
    <2>3. PICK e : e = s[k]
      OBVIOUS
    <2>4. e \in Entries(d, h)
      <3>1. e \in Range(s)
        BY <1>3, <2>3 DEF Range
      <3> QED
        BY <1>2, <2>1, <2>2, <2>3, <3>1 DEF Entries
    <2> QED
      BY <1>1, <1>6, <2>1, <2>2, <2>3, <2>4 DEF WalkStep
  <1> QED
    BY <1>5, <1>6

\* level[k] is what Walks finds k steps below the root.
Levels(d, level, m) ==
  /\ level[0] = {[path |-> <<>>, ino |-> 0]}
  /\ \A k \in 0 .. m : level[k] \in SUBSET Walk
  /\ \A k \in Nat : k + 1 <= m => level[k + 1] = UNION {WalkStep(d, x) : x \in level[k]}
  /\ Walks(d) = UNION {level[k] : k \in 0 .. m - 1}

\* Walks goes from directory to directory, as many steps as there are inodes.
LEMMA WalksLevels ==
  ASSUME NEW d \in [Slots -> Inode], NEW m \in Nat, m = Cardinality(Slots)
  PROVE  \E level : Levels(d, level, m)
PROOF
  <1> DEFINE U == SUBSET Walk
             Down(A) == UNION {WalkStep(d, x) : x \in A}
             s == {[path |-> <<>>, ino |-> 0]}
             Def(f) == f = [k \in 0 .. Cardinality(Slots) |->
                              IF k = 0 THEN s ELSE Down(f[k - 1])]
  <1>1. PICK G : G = [A \in U |-> Down(A)]
    OBVIOUS
  <1>2. G \in [U -> U]
    <2>1. ASSUME NEW x \in Walk, NEW w \in WalkStep(d, x) PROVE w \in Walk
      <3>1. PICK a \in Name, y \in Slots : w = [path |-> Append(x.path, a), ino |-> y]
        BY <2>1, StepEdges
      <3>2. x.path \in Seq(Name)
        BY DEF Walk
      <3>3. Append(x.path, a) \in Seq(Name)
        BY <3>2
      <3> QED
        BY <3>1, <3>3 DEF Walk
    <2>2. ASSUME NEW A \in U PROVE Down(A) \in U
      BY <2>1, Zenon
    <2> HIDE DEF U, Down
    <2> QED
      BY <1>1, <2>2
  <1>3. s \in U
    BY FileSystemAssumption DEF Walk
  <1>4. \E f : Def(f) /\ f \in [0 .. m -> U]
    <2> HIDE DEF U, Down, s
    <2>1. PICK f \in [0 .. m -> U] : Iterates(f, s, G, m)
      BY <1>2, <1>3, IterateExists
    <2>2. \A k \in 0 .. m : f[k] = IF k = 0 THEN s ELSE G[f[k - 1]]
      BY <2>1 DEF Iterates
    <2>3. \A k \in 0 .. m : k # 0 => f[k - 1] \in U
      BY <2>1
    <2>4. \A k \in 0 .. m : f[k] = IF k = 0 THEN s ELSE Down(f[k - 1])
      BY <1>1, <2>2, <2>3
    <2>5. f = [k \in 0 .. m |-> IF k = 0 THEN s ELSE Down(f[k - 1])]
      BY <2>1, <2>4
    <2> QED
      BY <2>1, <2>5
  <1>5. PICK level : level = CHOOSE f : Def(f)
    OBVIOUS
  <1>6. Walks(d) = UNION {level[k] : k \in 0 .. Cardinality(Slots) - 1}
    BY <1>5 DEF Walks, WalkStep
  <1>7. Def(level)
    <2> HIDE DEF Def
    <2> QED
      BY <1>4, <1>5
  <1>8. level[0] = s /\ \A k \in Nat : k + 1 <= m => level[k + 1] = Down(level[k])
    <2> HIDE DEF s, Down
    <2>1. level = [k \in 0 .. m |-> IF k = 0 THEN s ELSE Down(level[k - 1])]
      BY <1>7
    <2>2. ASSUME NEW k \in Nat, k + 1 <= m PROVE level[k + 1] = Down(level[k])
      <3>1. k + 1 \in 0 .. m /\ k + 1 # 0 /\ (k + 1) - 1 = k
        BY <2>2
      <3>2. level[k + 1] = Down(level[(k + 1) - 1])
        BY <2>1, <3>1
      <3> QED
        BY <3>1, <3>2
    <2>3. level[0] = s
      BY <2>1
    <2> QED
      BY <2>2, <2>3
  <1>9. \A k \in 0 .. m : level[k] \in U
    <2> HIDE DEF U, Down, s
    <2> DEFINE S == {k \in Nat : k <= m => level[k] \in U}
    <2>1. 0 \in S
      BY <1>3, <1>8
    <2>2. ASSUME NEW k \in Nat, k \in S PROVE k + 1 \in S
      <3>1. SUFFICES ASSUME k + 1 <= m PROVE level[k + 1] \in U
        OBVIOUS
      <3>2. level[k] \in U
        BY <2>2, <3>1
      <3>3. level[k + 1] = G[level[k]]
        BY <1>1, <1>8, <3>1, <3>2
      <3> QED
        BY <1>2, <3>2, <3>3
    <2> HIDE DEF S
    <2>3. Nat \subseteq S
      BY <2>1, <2>2, InductionSet
    <2> QED
      BY <2>3 DEF S
  <1>10. Levels(d, level, m)
    BY <1>6, <1>8, <1>9 DEF Levels
  <1> QED
    BY <1>10

\* What it finds k steps below the root are the paths of k names.
LEMMA LevelPaths ==
  ASSUME NEW d \in [Slots -> Inode], NEW m \in Nat, NEW level, Levels(d, level, m)
  PROVE  \A k \in 0 .. m : \A w \in Walk :
           w \in level[k] <=> Len(w.path) = k /\ Reach(d, w.path, w.ino)
PROOF
  <1>1. /\ level[0] = {[path |-> <<>>, ino |-> 0]}
        /\ \A k \in 0 .. m : level[k] \in SUBSET Walk
        /\ \A k \in Nat : k + 1 <= m => level[k + 1] = UNION {WalkStep(d, x) : x \in level[k]}
    BY DEF Levels
  <1>2. \A w \in Walk : w.path \in Seq(Name) /\ w.ino \in Slots
    BY DEF Walk
  <1> DEFINE S == {k \in Nat : k <= m => \A w \in Walk :
                      w \in level[k] <=> Len(w.path) = k /\ Reach(d, w.path, w.ino)}
  <1>3. 0 \in S
    <2>1. ASSUME NEW w \in Walk
          PROVE  w \in level[0] <=> Len(w.path) = 0 /\ Reach(d, w.path, w.ino)
      <3>1. w \in level[0] <=> w.path = <<>> /\ w.ino = 0
        BY <1>1 DEF Walk
      <3>2. w.path = <<>> <=> Len(w.path) = 0
        BY <1>2, EmptySeq
      <3> QED
        BY <3>1, <3>2, ReachRoot
    <2> QED
      BY <2>1
  <1>4. ASSUME NEW k \in Nat, k \in S PROVE k + 1 \in S
    <2>1. SUFFICES ASSUME k + 1 <= m, NEW w \in Walk
                   PROVE  w \in level[k + 1] <=> Len(w.path) = k + 1 /\ Reach(d, w.path, w.ino)
      OBVIOUS
    <2>2. level[k + 1] = UNION {WalkStep(d, x) : x \in level[k]} /\ level[k] \in SUBSET Walk
      BY <1>1, <2>1
    <2>3. \A x \in Walk : x \in level[k] <=> Len(x.path) = k /\ Reach(d, x.path, x.ino)
      BY <1>4, <2>1
    <2>4. ASSUME w \in level[k + 1] PROVE Len(w.path) = k + 1 /\ Reach(d, w.path, w.ino)
      <3>1. PICK x \in Walk : x \in level[k] /\ w \in WalkStep(d, x)
        BY <2>2, <2>4, Zenon
      <3>2. PICK a \in Name, y \in Slots :
              Edge(d, x.ino, a, y) /\ w = [path |-> Append(x.path, a), ino |-> y]
        BY <3>1, StepEdges
      <3>3. Len(x.path) = k /\ Reach(d, x.path, x.ino) /\ x.path \in Seq(Name) /\ x.ino \in Slots
        BY <1>2, <2>3, <3>1
      <3>4. Len(Append(x.path, a)) = k + 1
        BY <3>3, AppendProperties
      <3>5. Reach(d, Append(x.path, a), y)
        BY <3>2, <3>3, ReachNext
      <3> QED
        BY <3>2, <3>4, <3>5
    <2>5. ASSUME Len(w.path) = k + 1, Reach(d, w.path, w.ino) PROVE w \in level[k + 1]
      <3>1. w.path \in Seq(Name) /\ w.path # <<>>
        BY <1>2, <2>5, EmptySeq
      <3>2. PICK r \in Seq(Name), a \in Name : w.path = Append(r, a) /\ Len(w.path) = Len(r) + 1
        BY <3>1, PathCases
      <3>3. PICK y \in Slots : Reach(d, r, y) /\ Edge(d, y, a, w.ino)
        BY <2>5, <3>2, ReachNext
      <3>4. PICK x : x = [path |-> r, ino |-> y]
        OBVIOUS
      <3>5. x \in Walk /\ x.path = r /\ x.ino = y
        BY <3>4 DEF Walk
      <3>6. Len(r) = k
        BY <2>5, <3>2
      <3>7. x \in level[k]
        BY <2>3, <3>3, <3>5, <3>6
      <3>8. w = [path |-> Append(r, a), ino |-> w.ino] /\ w.ino \in Slots
        BY <3>2 DEF Walk
      <3>9. w \in WalkStep(d, x)
        BY <3>3, <3>5, <3>8, StepEdges
      <3> QED
        BY <2>2, <3>7, <3>9, Zenon
    <2> QED
      BY <2>4, <2>5
  <1> HIDE DEF S
  <1>5. Nat \subseteq S
    BY <1>3, <1>4, InductionSet
  <1> QED
    BY <1>5 DEF S

\* Walks are the paths of the disk.
LEMMA WalksAre ==
  ASSUME NEW d, Shaped(d)
  PROVE  /\ Walks(d) \subseteq Walk
         /\ \A w \in Walk : w \in Walks(d) <=> Reach(d, w.path, w.ino)
PROOF
  <1>1. d \in [Slots -> Inode]
    BY DEF Shaped
  <1>2. PICK m \in Nat : m = Cardinality(Slots)
    BY FileSystemAssumption, FS_CardinalityType
  <1>3. PICK level : Levels(d, level, m)
    BY <1>1, <1>2, WalksLevels
  <1>4. /\ \A k \in 0 .. m : level[k] \in SUBSET Walk
        /\ Walks(d) = UNION {level[k] : k \in 0 .. m - 1}
    BY <1>3 DEF Levels
  <1>5. \A k \in 0 .. m : \A w \in Walk :
          w \in level[k] <=> Len(w.path) = k /\ Reach(d, w.path, w.ino)
    BY <1>1, <1>3, LevelPaths
  <1>6. \A k \in 0 .. m - 1 : k \in 0 .. m
    OBVIOUS
  <1>7. ASSUME NEW w \in Walks(d) PROVE w \in Walk /\ Reach(d, w.path, w.ino)
    <2>1. PICK k \in 0 .. m - 1 : w \in level[k]
      BY <1>4, Zenon
    <2> QED
      BY <1>4, <1>5, <1>6, <2>1
  <1>8. ASSUME NEW w \in Walk, Reach(d, w.path, w.ino) PROVE w \in Walks(d)
    <2>1. w.path \in Seq(Name) /\ Len(w.path) \in Nat
      BY DEF Walk
    <2>2. Len(w.path) + 1 <= m
      BY <1>2, <1>8, <2>1, ReachShort
    <2>3. Len(w.path) \in 0 .. m - 1
      BY <2>1, <2>2
    <2>4. w \in level[Len(w.path)]
      BY <1>5, <1>6, <1>8, <2>3
    <2> QED
      BY <1>4, <2>3, <2>4, Zenon
  <1> QED
    BY <1>7, <1>8

\* A dirent stands for what the disk has at its path.
LEMMA ChainWalks ==
  ASSUME Shaped(di), Good(dc, di), NEW n \in Nat, NEW ch, NEW x, Chain(dc, ch, n, x)
  PROVE  [path |-> [i \in 1 .. n |-> dc[ch[i]].name], ino |-> dc[x].ino] \in Walks(di)
PROOF
  <1>1. /\ ch \in [0 .. n -> Ids] /\ ch[0] = Root /\ ch[n] = x
        /\ \A i \in 1 .. n : ch[i] \in Live(dc) /\ dc[ch[i]].parent = ch[i - 1]
    BY DEF Chain
  <1>2. CacheTree(dc) /\ (\A y \in Live(dc) : Stands(dc, di, y)) /\ di \in [Slots -> Inode]
    BY DEF Good, Shaped
  <1>3. (\A y \in Ids : dc[y].name \in Name /\ dc[y].ino \in Slots) /\ dc[Root].ino = 0
    BY <1>2 DEF CacheTree, Cache, Dirent
  <1>4. PICK q : q = [i \in 1 .. n |-> dc[ch[i]].name]
    OBVIOUS
  <1>5. q \in [1 .. n -> Name]
    <2>1. \A i \in 1 .. n : ch[i] \in Ids
      BY <1>1
    <2> QED
      BY <1>3, <1>4, <2>1
  <1>6. q \in Seq(Name) /\ Len(q) = n
    BY ONLY <1>5
  <1>7. PICK g : g = [k \in 0 .. n |-> dc[ch[k]].ino]
    OBVIOUS
  <1>8. g \in [0 .. n -> Slots] /\ g[0] = 0 /\ g[n] = dc[x].ino
    BY <1>1, <1>3, <1>7
  <1>9. ASSUME NEW k \in 1 .. n PROVE Edge(di, g[k - 1], q[k], g[k])
    <2>1. k \in 0 .. n /\ k - 1 \in 0 .. n
      OBVIOUS
    <2>2. ch[k] \in Live(dc) /\ ch[k] \in Ids /\ ch[k - 1] \in Ids
          /\ dc[ch[k]].parent = ch[k - 1]
      BY <1>1, <2>1
    <2>3. PICK h \in Slots : h = dc[ch[k - 1]].ino
      BY <1>3, <2>2
    <2>4. PICK j \in Slots : j = dc[ch[k]].ino
      BY <1>3, <2>2
    <2>5. PICK name \in Name : name = dc[ch[k]].name
      BY <1>3, <2>2
    <2>6. g[k - 1] = h /\ g[k] = j /\ q[k] = name
      BY <1>4, <1>7, <2>1, <2>3, <2>4, <2>5
    <2>7. /\ lookup(di, h, name) # 0 /\ EntryIno(di, h, name) = j /\ j # 0
          /\ di[j].type \in {"dir", "file"}
      BY <1>2, <2>2, <2>3, <2>4, <2>5 DEF Stands
    <2>8. /\ lookup(di, h, name) \in 1 .. Len(di[h].ents)
          /\ di[h].ents[lookup(di, h, name)].name = name
          /\ di[h].ents[lookup(di, h, name)].no = j
      BY <1>2, <2>7, LookupFinds DEF EntryIno
    <2> QED
      BY <2>6, <2>7, <2>8 DEF Edge
  <1>10. Reach(di, q, dc[x].ino)
    BY <1>6, <1>8, <1>9 DEF Reach
  <1>11. PICK w : w = [path |-> q, ino |-> dc[x].ino]
    OBVIOUS
  <1>12. w \in Walk /\ w.path = q /\ w.ino = dc[x].ino
    <2>1. n \in 0 .. n
      OBVIOUS
    <2>2. dc[x].ino \in Slots
      BY <1>8, <2>1
    <2> QED
      BY <1>6, <1>11, <2>2 DEF Walk
  <1>13. w \in Walks(di)
    BY <1>10, <1>12, WalksAre
  <1> QED
    BY <1>4, <1>11, <1>13


\* A coherent cache is what CacheCoherent says when no call is running.
LEMMA CoherentWhenQuiet ==
  ASSUME DiskInv, CacheInv
  PROVE  CacheCoherent
PROOF
  <1>1. SUFFICES ASSUME Quiet PROVE CacheCoherent
    BY DEF CacheCoherent
  <1>2. Running /\ ~overlap /\ \A t \in Tasks : pc[t] = Idle
    BY <1>1 DEF Quiet
  <1>3. WalkTypes /\ Consistent(di, pc) /\ Coherent(di, dc, pc, pwd)
    BY <1>2 DEF DiskInv, CacheInv
  <1>4. \A t \in Tasks : pc[t].step # "cache_remove"
    BY <1>2 DEF Idle
  <1>5. Good(dc, di)
    BY <1>3, <1>4, CoherentGood
  <1>6. CacheTree(dc) /\ (\A x \in Live(dc) : Stands(dc, di, x)) /\ di \in [Slots -> Inode]
    BY <1>3, <1>5 DEF Good, WalkTypes
  <1>7. ASSUME NEW t \in Tasks, dc[pwd[t]].st = "live"
        PROVE  [path |-> dirent_topath(pwd[t]), ino |-> dc[pwd[t]].ino] \in Walks(di)
    <2>1. PICK x \in Ids : x = pwd[t]
      BY <1>3 DEF WalkTypes
    <2>2. Rooted(dc, x)
      <3>1. x = Root \/ x \in Live(dc)
        BY <1>7, <2>1, IdsFacts DEF Live
      <3> QED
        BY <1>6, <3>1, RootRooted DEF CacheTree
    <2>3. PICK n \in Nat : \E ch : Chain(dc, ch, n, x)
      BY <2>2 DEF Rooted
    <2>4. PICK ch : Chain(dc, ch, n, x)
      BY <2>3
    <2>5. dirent_topath(x) = [i \in 1 .. n |-> dc[ch[i]].name]
      BY <1>6, <2>4, TopathNames
    <2>6. [path |-> [i \in 1 .. n |-> dc[ch[i]].name], ino |-> dc[x].ino] \in Walks(di)
      BY <1>3, <1>5, <2>4, ChainWalks, DiskShaped DEF Consistent
    <2> QED
      BY <2>1, <2>5, <2>6
  <1>8. ASSUME NEW x \in DirentIds, dc[x].st = "live", NEW up, up = dc[x].parent
        PROVE  /\ dc[up].st = "live" /\ di[dc[up].ino].type = "dir"
               /\ lookup(di, dc[up].ino, dc[x].name) # 0
               /\ EntryIno(di, dc[up].ino, dc[x].name) = dc[x].ino
               /\ Cardinality(Childs(dc, up, dc[x].name)) = 1
    <2>1. x \in Live(dc) /\ x \in Ids /\ Stands(dc, di, x)
      BY <1>6, <1>8, IdsFacts DEF Live
    <2>2. up \in Ids /\ dc[up].st = "live" /\ dc[up].ino \in Slots
      <3>1. \A y \in Ids : dc[y].parent \in Ids /\ dc[y].ino \in Slots
        BY <1>6 DEF CacheTree, Cache, Dirent
      <3> QED
        BY <1>6, <1>8, <2>1, <3>1 DEF CacheTree
    <2>3. /\ lookup(di, dc[up].ino, dc[x].name) # 0
          /\ EntryIno(di, dc[up].ino, dc[x].name) = dc[x].ino
      BY <1>8, <2>1 DEF Stands
    <2>4. di[dc[up].ino].type = "dir"
      BY <1>6, <2>2, <2>3, LookupFinds
    <2>5. Childs(dc, up, dc[x].name) = {x}
      BY <1>6, <1>8, <2>1 DEF CacheTree, Childs, Live
    <2>6. Cardinality(Childs(dc, up, dc[x].name)) = 1
      BY <2>5, FS_Singleton
    <2> QED
      BY <2>2, <2>3, <2>4, <2>6
  <1> QED
    BY <1>7, <1>8 DEF CacheCoherent

\* The directory cache never says what the disk does not, however many calls
\* of however many tasks come between: after any creat, mkdir, unlink, rmdir
\* and chdir a dirent in memory stands for the entry of its name, none stands
\* for an entry that was removed and whose inode was given away again, and
\* dirent_topath of a current directory is its path on the disk
\* (dirent_lookup, dirent_cache_remove and dirent_delete of dirent.cpp), until
\* two tasks are inside create or unlink at one time; other tasks may look up,
\* open and enter the same directories between the two halves of unlink.
THEOREM CacheStaysCoherent == Spec => []CacheCoherent
PROOF
  <1>1. DiskInv /\ CacheInv => CacheCoherent
    BY CoherentWhenQuiet
  <1> QED
    BY <1>1, DiskInvariant, CacheInvariant, PTL

-----------------------------------------------------------------------------
(* The tree of names.                                                      *)

\* The paths of a tree are those that lead to an inode, with its type.
LEMMA TreeIs ==
  ASSUME NEW d, Shaped(d)
  PROVE  /\ DOMAIN Tree(d) = {q \in Seq(Name) : \E y \in Slots : Reach(d, q, y)}
         /\ Tree(d) = [q \in DOMAIN Tree(d) |-> Tree(d)[q]]
         /\ \A q \in Seq(Name) : \A y \in Slots : Reach(d, q, y) => Tree(d)[q] = d[y].type
PROOF
  <1>1. PICK W : W = Walks(d)
    OBVIOUS
  <1>2. W \subseteq Walk /\ \A w \in Walk : w \in W <=> Reach(d, w.path, w.ino)
    BY <1>1, WalksAre
  <1>3. PICK D : D = {x.path : x \in W}
    OBVIOUS
  <1>4. Tree(d) = [q \in D |-> d[(CHOOSE x \in W : x.path = q).ino].type]
    BY <1>1, <1>3 DEF Tree
  <1>5. D = {q \in Seq(Name) : \E y \in Slots : Reach(d, q, y)}
    <2>1. ASSUME NEW q \in D PROVE q \in Seq(Name) /\ \E y \in Slots : Reach(d, q, y)
      <3>1. PICK w \in W : q = w.path
        BY <1>3
      <3>2. w \in Walk /\ w.path \in Seq(Name) /\ w.ino \in Slots
        BY <1>2, <3>1 DEF Walk
      <3> QED
        BY <1>2, <3>1, <3>2
    <2>2. ASSUME NEW q \in Seq(Name), NEW y \in Slots, Reach(d, q, y) PROVE q \in D
      <3>1. PICK w : w = [path |-> q, ino |-> y]
        OBVIOUS
      <3>2. w \in Walk /\ w.path = q /\ w.ino = y
        BY <3>1 DEF Walk
      <3>3. w \in W
        BY <1>2, <2>2, <3>2
      <3> QED
        BY <1>3, <3>2, <3>3
    <2> QED
      BY <2>1, <2>2
  <1>6. ASSUME NEW q \in Seq(Name), NEW y \in Slots, Reach(d, q, y)
        PROVE  Tree(d)[q] = d[y].type
    <2>1. q \in D
      BY <1>5, <1>6
    <2>2. PICK v : v = CHOOSE x \in W : x.path = q
      OBVIOUS
    <2>3. v \in W /\ v.path = q
      BY <1>3, <2>1, <2>2
    <2>4. v \in Walk /\ v.ino \in Slots /\ Reach(d, q, v.ino)
      BY <1>2, <2>3 DEF Walk
    <2>5. v.ino = y
      BY <1>6, <2>4, ReachUnique
    <2> QED
      BY <1>4, <2>1, <2>2, <2>5
  <1> QED
    BY <1>4, <1>5, <1>6

\* The same entries of files and directories make the same tree.
LEMMA SameTree ==
  ASSUME NEW d, NEW e, Shaped(d), Shaped(e),
         \A z \in Slots : \A c, y : Edge(e, z, c, y) <=> Edge(d, z, c, y),
         \A y \in Slots : d[y].type \in {"dir", "file"} => e[y].type = d[y].type
  PROVE  Tree(e) = Tree(d)
PROOF
  <1>1. ASSUME NEW q \in Seq(Name), NEW y \in Slots PROVE Reach(e, q, y) <=> Reach(d, q, y)
    <2>1. ASSUME NEW g \in [0 .. Len(q) -> Slots], NEW k \in 1 .. Len(q)
          PROVE  Edge(e, g[k - 1], q[k], g[k]) <=> Edge(d, g[k - 1], q[k], g[k])
      <3>1. k - 1 \in 0 .. Len(q)
        OBVIOUS
      <3>2. g[k - 1] \in Slots
        BY <3>1
      <3> QED
        BY <3>2
    <2> QED
      BY <2>1 DEF Reach
  <1>2. PICK D : D = {q \in Seq(Name) : \E y \in Slots : Reach(d, q, y)}
    OBVIOUS
  <1>3. PICK T : T = Tree(d)
    OBVIOUS
  <1>4. PICK R : R = Tree(e)
    OBVIOUS
  <1>5. DOMAIN T = D /\ T = [q \in D |-> T[q]]
    BY <1>2, <1>3, TreeIs
  <1>6. DOMAIN R = D /\ R = [q \in D |-> R[q]]
    BY <1>1, <1>2, <1>4, TreeIs
  <1>7. ASSUME NEW q \in D PROVE R[q] = T[q]
    <2>1. PICK y \in Slots : q \in Seq(Name) /\ Reach(d, q, y)
      BY <1>2
    <2>2. T[q] = d[y].type /\ R[q] = e[y].type
      BY <1>1, <1>3, <1>4, <2>1, TreeIs
    <2>3. d[y].type \in {"dir", "file"}
      BY <2>1, ReachUnique
    <2> QED
      BY <2>2, <2>3
  <1> QED
    BY <1>3, <1>4, <1>5, <1>6, <1>7

\* The disk e has one entry more than d, in x for i, which has none itself.
Leaf(d, e, x, a, i) ==
  /\ x \in Slots /\ a \in Name /\ i \in Slots \ {0}
  /\ \A z \in Slots : \A c, y : Edge(e, z, c, y) <=> Edge(d, z, c, y) \/ (z = x /\ c = a /\ y = i)
  /\ \A z \in Slots : \A c : ~Edge(d, z, c, i)
  /\ \A c, y : ~Edge(e, i, c, y)
  /\ \A y \in Slots \ {i} : e[y].type = d[y].type

\* So it has one path more.
LEMMA LeafReach ==
  ASSUME NEW d, NEW e, NEW x, NEW a, NEW i, Leaf(d, e, x, a, i)
  PROVE  \A q \in Seq(Name) : \A y \in Slots :
           Reach(e, q, y) <=> \/ Reach(d, q, y)
                              \/ y = i /\ \E r \in Seq(Name) : q = Append(r, a) /\ Reach(d, r, x)
PROOF
  <1>0. /\ x \in Slots /\ a \in Name /\ i \in Slots \ {0}
        /\ \A z \in Slots : \A c, y :
             Edge(e, z, c, y) <=> Edge(d, z, c, y) \/ (z = x /\ c = a /\ y = i)
        /\ \A c, y : ~Edge(e, i, c, y)
    BY DEF Leaf
  <1> DEFINE P(q, y) ==
               Reach(e, q, y) <=>
                 \/ Reach(d, q, y)
                 \/ y = i /\ \E r \in Seq(Name) : q = Append(r, a) /\ Reach(d, r, x)
             S == {n \in Nat : \A q \in Seq(Name) : \A y \in Slots : Len(q) = n => P(q, y)}
  <1>1. 0 \in S
    <2>1. ASSUME NEW q \in Seq(Name), NEW y \in Slots, Len(q) = 0 PROVE P(q, y)
      <3>1. q = <<>>
        BY <2>1, EmptySeq
      <3>2. \A r \in Seq(Name) : q # Append(r, a)
        BY <1>0, <3>1, FrontOfAppend
      <3> QED
        BY <3>1, <3>2, ReachRoot
    <2> HIDE DEF P
    <2> QED
      BY <2>1
  <1>2. ASSUME NEW n \in Nat, n \in S PROVE n + 1 \in S
    <2>1. ASSUME NEW q \in Seq(Name), NEW y \in Slots, Len(q) = n + 1 PROVE P(q, y)
      <3>1. q # <<>>
        BY <2>1, EmptySeq
      <3>2. PICK r \in Seq(Name), c \in Name : q = Append(r, c) /\ Len(q) = Len(r) + 1
        BY <3>1, PathCases
      <3>3. Len(r) = n
        BY <2>1, <3>2
      <3>4. \A z \in Slots : P(r, z)
        <4> HIDE DEF P
        <4> QED
          BY <1>2, <3>3
      <3>5. ASSUME NEW z \in Slots, Reach(d, r, z) PROVE Reach(e, r, z)
        BY <3>4, <3>5
      <3>6. ASSUME NEW z \in Slots, Reach(e, r, z), z # i PROVE Reach(d, r, z)
        BY <3>4, <3>6
      <3>7. ASSUME Reach(e, q, y)
            PROVE  \/ Reach(d, q, y)
                   \/ y = i /\ \E s \in Seq(Name) : q = Append(s, a) /\ Reach(d, s, x)
        <4>1. PICK z \in Slots : Reach(e, r, z) /\ Edge(e, z, c, y)
          BY <3>2, <3>7, ReachNext
        <4>2. z # i
          BY <1>0, <4>1
        <4>3. Reach(d, r, z)
          BY <3>6, <4>1, <4>2
        <4>4. Edge(d, z, c, y) \/ (z = x /\ c = a /\ y = i)
          BY <1>0, <4>1
        <4>5. CASE Edge(d, z, c, y)
          BY <3>2, <4>3, <4>5, ReachNext
        <4>6. CASE z = x /\ c = a /\ y = i
          BY <3>2, <4>3, <4>6
        <4> QED
          BY <4>4, <4>5, <4>6
      <3>8. ASSUME Reach(d, q, y) PROVE Reach(e, q, y)
        <4>1. PICK z \in Slots : Reach(d, r, z) /\ Edge(d, z, c, y)
          BY <3>2, <3>8, ReachNext
        <4>2. Reach(e, r, z) /\ Edge(e, z, c, y)
          BY <1>0, <3>5, <4>1
        <4> QED
          BY <3>2, <4>2, ReachNext
      <3>9. ASSUME y = i, NEW s \in Seq(Name), q = Append(s, a), Reach(d, s, x)
            PROVE  Reach(e, q, y)
        <4>1. s = r
          BY <1>0, <3>2, <3>9, FrontOfAppend
        <4>2. Reach(e, s, x)
          BY <1>0, <3>5, <3>9, <4>1
        <4>3. Edge(e, x, a, y)
          BY <1>0, <3>9
        <4> QED
          BY <1>0, <3>9, <4>2, <4>3, ReachNext
      <3> QED
        BY <3>7, <3>8, <3>9
    <2> HIDE DEF P
    <2> QED
      BY <2>1
  <1> HIDE DEF S, P
  <1>3. Nat \subseteq S
    BY <1>1, <1>2, InductionSet
  <1>4. \A q \in Seq(Name) : Len(q) \in Nat
    OBVIOUS
  <1>5. \A q \in Seq(Name) : \A y \in Slots : P(q, y)
    BY <1>3, <1>4 DEF S
  <1> QED
    BY <1>5 DEF P

\* The tree t is the tree s and one path p more, below a path of the type and
\* with nothing below itself.
LeafOf(s, t, p, type) ==
  /\ p # <<>> /\ p \in DOMAIN t /\ p \notin DOMAIN s
  /\ Front(p) \in DOMAIN s /\ s[Front(p)] = type
  /\ DOMAIN t = DOMAIN s \cup {p}
  /\ \A q \in DOMAIN s : t[q] = s[q]
  /\ \A q \in DOMAIN t \ {<<>>} : Front(q) # p

\* One entry more is one path more with nothing below it, or none when no path
\* leads to its directory.
LEMMA LeafTree ==
  ASSUME NEW d, NEW e, NEW x, NEW a, NEW i, Shaped(d), Shaped(e), Leaf(d, e, x, a, i)
  PROVE  Tree(e) = Tree(d) \/ \E p : LeafOf(Tree(d), Tree(e), p, d[x].type)
PROOF
  <1>1. /\ x \in Slots /\ a \in Name /\ i \in Slots \ {0}
        /\ \A z \in Slots : \A c, y :
             Edge(e, z, c, y) <=> Edge(d, z, c, y) \/ (z = x /\ c = a /\ y = i)
        /\ \A z \in Slots : \A c : ~Edge(d, z, c, i)
        /\ \A c, y : ~Edge(e, i, c, y)
        /\ \A y \in Slots \ {i} : e[y].type = d[y].type
    BY DEF Leaf
  <1>2. \A q \in Seq(Name) : \A y \in Slots :
          Reach(e, q, y) <=> \/ Reach(d, q, y)
                             \/ y = i /\ \E r \in Seq(Name) : q = Append(r, a) /\ Reach(d, r, x)
    BY LeafReach
  <1>3. PICK T : T = Tree(d)
    OBVIOUS
  <1>4. PICK R : R = Tree(e)
    OBVIOUS
  <1>5. /\ DOMAIN T = {q \in Seq(Name) : \E y \in Slots : Reach(d, q, y)}
        /\ T = [q \in DOMAIN T |-> T[q]]
        /\ \A q \in Seq(Name) : \A y \in Slots : Reach(d, q, y) => T[q] = d[y].type
    BY <1>3, TreeIs
  <1>6. /\ DOMAIN R = {q \in Seq(Name) : \E y \in Slots : Reach(e, q, y)}
        /\ R = [q \in DOMAIN R |-> R[q]]
        /\ \A q \in Seq(Name) : \A y \in Slots : Reach(e, q, y) => R[q] = e[y].type
    BY <1>4, TreeIs
  <1>7. ASSUME NEW q \in Seq(Name), NEW y \in Slots, Reach(d, q, y) PROVE y # i
    <2>1. CASE q = <<>>
      BY <1>1, <1>7, <2>1, ReachRoot
    <2>2. CASE q # <<>>
      <3>1. PICK r \in Seq(Name), c \in Name : q = Append(r, c)
        BY <2>2, PathCases
      <3>2. PICK z \in Slots : Edge(d, z, c, y)
        BY <1>7, <3>1, ReachNext
      <3> QED
        BY <1>1, <3>2
    <2> QED
      BY <2>1, <2>2
  <1>8. ASSUME NEW q \in DOMAIN T PROVE q \in DOMAIN R /\ R[q] = T[q]
    <2>1. PICK y \in Slots : q \in Seq(Name) /\ Reach(d, q, y)
      BY <1>5
    <2>2. Reach(e, q, y) /\ y # i
      BY <1>2, <1>7, <2>1
    <2> QED
      BY <1>1, <1>5, <1>6, <2>1, <2>2
  <1>9. CASE ~\E r \in Seq(Name) : Reach(d, r, x)
    <2>1. \A q \in Seq(Name) : \A y \in Slots : Reach(e, q, y) <=> Reach(d, q, y)
      BY <1>2, <1>9
    <2>2. DOMAIN R = DOMAIN T
      BY <1>5, <1>6, <2>1
    <2>3. R = T
      BY <1>5, <1>6, <1>8, <2>2
    <2> QED
      BY <1>3, <1>4, <2>3
  <1>10. ASSUME NEW r \in Seq(Name), Reach(d, r, x) PROVE \E p : LeafOf(T, R, p, d[x].type)
    <2>1. PICK p : p = Append(r, a)
      OBVIOUS
    <2>2. p \in Seq(Name) /\ p # <<>> /\ Front(p) = r
      BY <1>1, <2>1, FrontOfAppend
    <2>3. r \in DOMAIN T /\ T[r] = d[x].type
      BY <1>1, <1>5, <1>10
    <2>4. Reach(e, p, i)
      BY <1>1, <1>2, <1>10, <2>1, <2>2
    <2>5. p \in DOMAIN R
      BY <1>1, <1>6, <2>2, <2>4
    <2>6. p \notin DOMAIN T
      <3>1. SUFFICES ASSUME NEW y \in Slots, Reach(d, p, y) PROVE FALSE
        BY <1>5
      <3>2. Reach(e, p, y)
        BY <1>2, <2>2, <3>1
      <3>3. y = i
        BY <1>1, <2>2, <2>4, <3>2, ReachUnique
      <3> QED
        BY <1>7, <2>2, <3>1, <3>3
    <2>7. ASSUME NEW q \in DOMAIN R PROVE q \in DOMAIN T \/ q = p
      <3>1. PICK y \in Slots : q \in Seq(Name) /\ Reach(e, q, y)
        BY <1>6
      <3>2. CASE Reach(d, q, y)
        BY <1>5, <3>1, <3>2
      <3>3. CASE y = i /\ \E s \in Seq(Name) : q = Append(s, a) /\ Reach(d, s, x)
        <4>1. PICK s \in Seq(Name) : q = Append(s, a) /\ Reach(d, s, x)
          BY <3>3
        <4>2. s = r
          BY <1>1, <1>10, <4>1, ReachUnique
        <4> QED
          BY <2>1, <4>1, <4>2
      <3> QED
        BY <1>2, <3>1, <3>2, <3>3
    <2>8. DOMAIN R = DOMAIN T \cup {p}
      BY <1>8, <2>5, <2>7
    <2>9. ASSUME NEW q \in DOMAIN R \ {<<>>} PROVE Front(q) # p
      <3>1. SUFFICES ASSUME Front(q) = p PROVE FALSE
        OBVIOUS
      <3>2. PICK y \in Slots : q \in Seq(Name) /\ Reach(e, q, y)
        BY <1>6
      <3>3. PICK s \in Seq(Name), c \in Name : q = Append(s, c)
        BY <2>9, <3>2, PathCases
      <3>4. s = p
        BY <3>1, <3>3, FrontOfAppend
      <3>5. PICK z \in Slots : Reach(e, p, z) /\ Edge(e, z, c, y)
        BY <3>2, <3>3, <3>4, ReachNext
      <3>6. z = i
        BY <1>1, <2>2, <2>4, <3>5, ReachUnique
      <3> QED
        BY <1>1, <3>5, <3>6
    <2>10. LeafOf(T, R, p, d[x].type)
      BY <1>8, <2>2, <2>3, <2>5, <2>6, <2>8, <2>9 DEF LeafOf
    <2> QED
      BY <2>10
  <1> QED
    BY <1>3, <1>4, <1>9, <1>10

\* find_empty_di takes an inode, or denemefs_free_inode gives it back: no path
\* leads to it.
LEMMA SpareTree ==
  ASSUME NEW d, NEW e, NEW i \in Slots, Shaped(d), Shaped(e), OnlyAt(d, e, i),
         d[i].type \in {"free", "new"}, e[i].type \in {"free", "new"}, e[i].ents = d[i].ents
  PROVE  Tree(e) = Tree(d)
PROOF
  <1>1. \A y \in Slots \ {i} : e[y] = d[y]
    BY DEF OnlyAt
  <1>2. \A y \in Slots : e[y].ents = d[y].ents
    BY <1>1
  <1>3. \A y \in Slots : e[y].type \in {"dir", "file"} <=> d[y].type \in {"dir", "file"}
    BY <1>1
  <1>4. \A z \in Slots : \A c, y : Edge(e, z, c, y) <=> Edge(d, z, c, y)
    BY <1>2, <1>3 DEF Edge
  <1>5. \A y \in Slots : d[y].type \in {"dir", "file"} => e[y].type = d[y].type
    BY <1>1
  <1> QED
    BY <1>4, <1>5, SameTree

\* denemefs_add_entry names an inode that has no type yet.
LEMMA NewEntryTree ==
  ASSUME NEW d, NEW e, NEW x \in Slots, NEW i \in Slots, NEW name \in Name, Shaped(d), Shaped(e),
         OnlyAt(d, e, x), d[i].type = "new", d[x].type = "dir", e[x].type = "dir",
         e[x].ents = Append(d[x].ents, [name |-> name, no |-> i])
  PROVE  Tree(e) = Tree(d)
PROOF
  <1>1. \A y \in Slots \ {x} : e[y] = d[y]
    BY DEF OnlyAt
  <1>2. \A y \in Slots : e[y].type = d[y].type
    BY <1>1
  <1>3. PICK s \in Seq(Entry) : s = d[x].ents
    BY DEF Shaped, Inode
  <1>4. PICK v \in Entry : v = [name |-> name, no |-> i]
    BY DEF Entry
  <1>5. PICK n \in Nat : n = Len(s)
    OBVIOUS
  <1>6. PICK r : r = Append(s, v)
    OBVIOUS
  <1>7. Len(r) = n + 1 /\ r[n + 1] = v /\ \A k \in 1 .. n : r[k] = s[k]
    BY <1>5, <1>6, AppendProperties
  <1>8. e[x].ents = r /\ v.no = i
    BY <1>3, <1>4, <1>6
  <1>9. ASSUME NEW z \in Slots, NEW c, NEW y PROVE Edge(e, z, c, y) <=> Edge(d, z, c, y)
    <2>1. CASE z # x
      BY <1>1, <1>2, <2>1 DEF Edge
    <2>2. CASE z = x
      <3>1. ASSUME Edge(d, x, c, y) PROVE Edge(e, x, c, y)
        <4>1. PICK k \in 1 .. n : s[k].name = c /\ s[k].no = y
          BY <1>3, <1>5, <3>1 DEF Edge
        <4>2. k \in 1 .. n + 1 /\ r[k].name = c /\ r[k].no = y
          BY <1>7, <4>1
        <4> QED
          BY <1>2, <1>7, <1>8, <3>1, <4>2 DEF Edge
      <3>2. ASSUME Edge(e, x, c, y) PROVE Edge(d, x, c, y)
        <4>1. PICK k \in 1 .. n + 1 : r[k].name = c /\ r[k].no = y
          BY <1>7, <1>8, <3>2 DEF Edge
        <4>2. d[y].type \in {"dir", "file"} /\ y \in Slots \ {0}
          BY <1>2, <3>2 DEF Edge
        <4>3. k # n + 1
          BY <1>7, <1>8, <4>1, <4>2
        <4>4. k \in 1 .. n /\ s[k].name = c /\ s[k].no = y
          BY <1>7, <4>1, <4>3
        <4> QED
          BY <1>3, <1>5, <4>2, <4>4 DEF Edge
      <3> QED
        BY <2>2, <3>1, <3>2
    <2> QED
      BY <2>1, <2>2
  <1> QED
    BY <1>2, <1>9, SameTree

\* The end of denemefs_create and denemefs_mkdir: the new inode has an entry,
\* and with its type it gets its path.
LEMMA FillLeaf ==
  ASSUME NEW d, NEW e, NEW L, NEW N, NEW i \in Slots, DiskTree(d, L, N), i \in N,
         OnlyAt(d, e, i), e[i].type \in {"file", "dir"}, e[i].ents = <<>>
  PROVE  \E x \in Slots, a \in Name : Leaf(d, e, x, a, i) /\ d[x].type = "dir"
PROOF
  <1>1. d \in [Slots -> Inode] /\ Directories(d) /\ NamedOnce(d) /\ Used(d, L, N)
    BY DEF DiskTree
  <1>2. d[i].type = "new" /\ i \notin L
    BY <1>1 DEF Used
  <1>3. i # 0 /\ d[i].ents = <<>>
    BY <1>1, <1>2 DEF Directories
  <1>4. PICK x \in Slots : \E k : Names(d, x, k, i)
    BY <1>1, <1>2, <1>3 DEF Used
  <1>5. PICK k : Names(d, x, k, i)
    BY <1>4
  <1>6. PICK a : a = d[x].ents[k].name
    OBVIOUS
  <1>7. k \in 1 .. Len(d[x].ents) /\ d[x].ents[k].no = i
    BY <1>5 DEF Names
  <1>8. a \in Name
    <2>1. d[x].ents \in Seq(Entry)
      BY <1>1 DEF Inode
    <2>2. d[x].ents[k] \in Entry
      BY <1>7, <2>1
    <2> QED
      BY <1>6, <2>2 DEF Entry
  <1>9. x # i /\ d[x].type = "dir"
    <2>1. d[x].ents # <<>>
      BY <1>7
    <2> QED
      BY <1>1, <1>3, <2>1 DEF Directories
  <1>10. (\A y \in Slots \ {i} : e[y] = d[y]) /\ \A y \in Slots : e[y].ents = d[y].ents
    BY <1>3 DEF OnlyAt
  <1>11. \A y \in Slots \ {i} : e[y].type = d[y].type
    BY <1>10
  <1>12. \A z \in Slots : \A c : ~Edge(d, z, c, i)
    BY <1>2 DEF Edge
  <1>13. \A c, y : ~Edge(e, i, c, y)
    <2>1. Len(e[i].ents) = 0
      OBVIOUS
    <2> QED
      BY <2>1 DEF Edge
  <1>14. ASSUME NEW z \in Slots, NEW c, NEW y
         PROVE  Edge(e, z, c, y) <=> Edge(d, z, c, y) \/ (z = x /\ c = a /\ y = i)
    <2>1. CASE y # i
      BY <1>10, <1>11, <2>1 DEF Edge
    <2>2. CASE y = i
      <3>1. ~Edge(d, z, c, y)
        BY <1>12, <2>2
      <3>2. ASSUME Edge(e, z, c, y) PROVE z = x /\ c = a
        <4>1. PICK j \in 1 .. Len(d[z].ents) : d[z].ents[j].name = c /\ d[z].ents[j].no = i
          BY <1>10, <2>2, <3>2 DEF Edge
        <4>2. Names(d, z, j, i)
          BY <4>1 DEF Names
        <4>3. z = x /\ j = k
          BY <1>1, <1>3, <1>5, <4>2 DEF NamedOnce
        <4> QED
          BY <1>6, <4>1, <4>3
      <3>3. Edge(e, x, a, i)
        BY <1>3, <1>6, <1>7, <1>10 DEF Edge
      <3> QED
        BY <2>2, <3>1, <3>2, <3>3
    <2> QED
      BY <2>1, <2>2
  <1>15. Leaf(d, e, x, a, i)
    BY <1>3, <1>8, <1>11, <1>12, <1>13, <1>14 DEF Leaf
  <1> QED
    BY <1>8, <1>9, <1>15

\* denemefs_unlink and denemefs_rmdir: the disk had one entry more.
LEMMA RemoveLeaf ==
  ASSUME NEW d, NEW e, NEW L, NEW N, NEW x \in Slots, NEW name, NEW type \in {"file", "dir"},
         DiskTree(d, L, N), may_remove(type, d, x, name), e = remove(d, x, name)
  PROVE  \E a \in Name, i \in Slots : Leaf(e, d, x, a, i)
PROOF
  <1>1. d \in [Slots -> Inode] /\ Directories(d) /\ NamedOnce(d)
    BY DEF DiskTree
  <1>2. lookup(d, x, name) # 0
    BY DEF may_remove, denemefs_unlink, denemefs_rmdir
  <1>3. PICK k : k = lookup(d, x, name)
    OBVIOUS
  <1>4. PICK i : i = EntryIno(d, x, name)
    OBVIOUS
  <1>5. i \in Slots /\ Names(d, x, k, i) /\ d[x].type = "dir"
    BY <1>1, <1>2, <1>3, <1>4, LookupFinds
  <1>6. PICK s \in Seq(Entry) : s = d[x].ents
    BY <1>1 DEF Inode
  <1>7. k \in 1 .. Len(s) /\ s[k].no = i
    BY <1>5, <1>6 DEF Names
  <1>8. PICK a \in Name : a = s[k].name
    <2>1. s[k] \in Entry
      BY <1>7
    <2> QED
      BY <2>1 DEF Entry
  <1>9. /\ d[i].type \in {"file", "dir"} /\ d[i].ents = <<>>
    BY <1>1, <1>4, <1>5 DEF may_remove, denemefs_unlink, denemefs_rmdir, is_empty_dir, Directories
  <1>10. i # 0
    BY <1>1, <1>9 DEF Directories
  <1>11. i # x
    <2>1. Len(d[i].ents) = 0
      BY <1>9
    <2> QED
      BY <1>6, <1>7, <2>1
  <1>12. e = [[d EXCEPT ![x].ents[k] = [name |-> NoName, no |-> 0]] EXCEPT ![i] = Free]
    BY <1>3, <1>4 DEF remove, denemefs_free_inode, remove_entry
  <1>13. PICK v : v = [name |-> NoName, no |-> 0]
    OBVIOUS
  <1>14. PICK r : r = [s EXCEPT ![k] = v]
    OBVIOUS
  <1>15. /\ Len(r) = Len(s) /\ r[k].no = 0
         /\ \A j \in 1 .. Len(s) : j # k => r[j] = s[j]
    BY <1>7, <1>13, <1>14
  <1>16. /\ \A y \in Slots \ {x, i} : e[y] = d[y]
         /\ e[i] = Free /\ e[x].ents = r /\ e[x].type = d[x].type
    <2>1. PICK h : h = [d[x] EXCEPT !.ents[k] = v]
      OBVIOUS
    <2>2. h.ents = r /\ h.type = d[x].type
      BY <1>1, <1>6, <1>14, <2>1 DEF Inode
    <2>3. e = [[d EXCEPT ![x] = h] EXCEPT ![i] = Free]
      BY <1>12, <1>13, <2>1
    <2> QED
      BY <1>1, <1>5, <1>11, <2>2, <2>3
  <1> HIDE DEF remove
  <1>17. /\ \A y \in Slots \ {i} : d[y].type = e[y].type
         /\ e[i].type = "free" /\ e[i].ents = <<>>
         /\ \A y \in Slots \ {x} : e[y].ents = d[y].ents
    BY <1>9, <1>11, <1>16 DEF Free
  <1>18. \A z \in Slots : \A c : ~Edge(e, z, c, i)
    BY <1>17 DEF Edge
  <1>19. \A c, y : ~Edge(d, i, c, y)
    <2>1. Len(d[i].ents) = 0
      BY <1>9
    <2> QED
      BY <2>1 DEF Edge
  <1>20. ASSUME NEW z \in Slots, NEW c, NEW y
         PROVE  Edge(d, z, c, y) <=> Edge(e, z, c, y) \/ (z = x /\ c = a /\ y = i)
    <2>1. CASE y # i
      <3>1. CASE z # x
        BY <1>17, <2>1, <3>1 DEF Edge
      <3>2. CASE z = x
        <4>1. ASSUME Edge(d, x, c, y) PROVE Edge(e, x, c, y)
          <5>1. PICK j \in 1 .. Len(s) : s[j].name = c /\ s[j].no = y
            BY <1>6, <4>1 DEF Edge
          <5>2. j # k
            BY <1>7, <2>1, <5>1
          <5>3. j \in 1 .. Len(r) /\ r[j].name = c /\ r[j].no = y
            BY <1>15, <5>1, <5>2
          <5> QED
            BY <1>16, <1>17, <2>1, <4>1, <5>3 DEF Edge
        <4>2. ASSUME Edge(e, x, c, y) PROVE Edge(d, x, c, y)
          <5>1. PICK j \in 1 .. Len(r) : r[j].name = c /\ r[j].no = y
            BY <1>16, <4>2 DEF Edge
          <5>2. j # k
            BY <1>15, <4>2, <5>1 DEF Edge
          <5>3. j \in 1 .. Len(s) /\ s[j].name = c /\ s[j].no = y
            BY <1>15, <5>1, <5>2
          <5> QED
            BY <1>6, <1>17, <2>1, <4>2, <5>3 DEF Edge
        <4> QED
          BY <2>1, <3>2, <4>1, <4>2
      <3> QED
        BY <3>1, <3>2
    <2>2. CASE y = i
      <3>1. ~Edge(e, z, c, y)
        BY <1>18, <2>2
      <3>2. ASSUME Edge(d, z, c, y) PROVE z = x /\ c = a
        <4>1. PICK j \in 1 .. Len(d[z].ents) : d[z].ents[j].name = c /\ d[z].ents[j].no = i
          BY <2>2, <3>2 DEF Edge
        <4>2. Names(d, z, j, i)
          BY <4>1 DEF Names
        <4>3. z = x /\ j = k
          BY <1>1, <1>5, <1>10, <4>2 DEF NamedOnce
        <4> QED
          BY <1>6, <1>8, <4>1, <4>3
      <3>3. Edge(d, x, a, i)
        BY <1>5, <1>6, <1>7, <1>8, <1>9, <1>10 DEF Edge
      <3> QED
        BY <2>2, <3>1, <3>2, <3>3
    <2> QED
      BY <2>1, <2>2
  <1>21. Leaf(e, d, x, a, i)
    BY <1>5, <1>10, <1>17, <1>18, <1>19, <1>20 DEF Leaf
  <1> QED
    BY <1>5, <1>21

\* What Namespace lets a step make of its tree
NamesStep(old, new) ==
  \/ new = old
  \/ \E p \in DOMAIN new \ DOMAIN old : NS!Makes(old, new, p)
  \/ \E p \in DOMAIN old \ DOMAIN new : NS!Deletes(old, new, p)

\* A path more below a directory is made, a path less without one below it is
\* deleted.
LEMMA LeafNames ==
  ASSUME NEW s, NEW t, NEW p, NEW type, LeafOf(s, t, p, type)
  PROVE  NamesStep(t, s) /\ (type = "dir" => NamesStep(s, t))
PROOF
  <1>1. /\ p # <<>> /\ p \in DOMAIN t /\ p \notin DOMAIN s
        /\ Front(p) \in DOMAIN s /\ s[Front(p)] = type
        /\ DOMAIN t = DOMAIN s \cup {p}
        /\ \A q \in DOMAIN s : t[q] = s[q]
        /\ \A q \in DOMAIN t \ {<<>>} : Front(q) # p
    BY DEF LeafOf
  <1>2. DOMAIN s = DOMAIN t \ {p}
    BY <1>1
  <1>0. \A q : NS!Front(q) = Front(q)
    BY DEF Front, NS!Front
  <1>3. NS!Deletes(t, s, p)
    BY <1>0, <1>1, <1>2 DEF NS!Deletes
  <1>4. ASSUME type = "dir" PROVE NS!Makes(s, t, p)
    BY <1>0, <1>1, <1>4 DEF NS!Makes
  <1> QED
    BY <1>1, <1>3, <1>4 DEF NamesStep

\* find_empty_di takes an inode.
LEMMA TakeNames ==
  ASSUME WalkTypes, Consistent(di, pc), NEW t \in Tasks, Alone(t), take_di(t)
  PROVE  NamesStep(Tree(di), Tree(di'))
PROOF
  <1>1. pc[t].step = "take_di"
    BY DEF take_di
  <1>2. pc[t] \in CreateCall
    BY <1>1, CreateCalls
  <1>3. DiskTree(di, {}, {})
    BY <1>1, CallDisk DEF Alone
  <1>4. PICK i : i = pc[t].ino
    OBVIOUS
  <1>5. i \in Slots /\ di[i].type = "free"
    BY <1>1, <1>2, <1>4, InCreate DEF Consistent
  <1>6. PICK d : d = di'
    OBVIOUS
  <1>7. OnlyAt(di, d, i) /\ d[i].type = "new" /\ d[i].ents = di[i].ents
    <2>1. PICK v : v = [di[i] EXCEPT !.type = "new"]
      OBVIOUS
    <2>2. di \in [Slots -> Inode]
      BY DEF WalkTypes
    <2>3. v \in Inode /\ v.type = "new" /\ v.ents = di[i].ents
      BY <1>5, <2>1, <2>2 DEF Inode
    <2>4. d = [di EXCEPT ![i] = v]
      BY <1>4, <1>5, <1>6, <2>1, <2>2 DEF take_di
    <2> QED
      BY <1>5, <2>2, <2>3, <2>4 DEF OnlyAt
  <1>8. DiskTree(d, {} \cup {i}, {})
    BY <1>3, <1>5, <1>7, TakeTree
  <1>9. Tree(d) = Tree(di)
    BY <1>3, <1>5, <1>7, <1>8, DiskShaped, SpareTree
  <1> QED
    BY <1>6, <1>9 DEF NamesStep

\* denemefs_add_entry, or the inode goes back
LEMMA AddEntryNames ==
  ASSUME WalkTypes, Consistent(di, pc), NEW t \in Tasks, Alone(t), add_entry(t)
  PROVE  NamesStep(Tree(di), Tree(di'))
PROOF
  <1>1. pc[t].step = "add_entry" /\ di \in [Slots -> Inode]
    BY DEF add_entry, WalkTypes
  <1>2. pc[t] \in CreateCall
    BY <1>1, CreateCalls
  <1>3. PICK i : i = pc[t].ino
    OBVIOUS
  <1>4. PICK x : x = pc[t].dir
    OBVIOUS
  <1>5. PICK name : name = pc[t].name
    OBVIOUS
  <1>6. i \in Slots /\ x \in Slots /\ name \in Name
    BY <1>2, <1>3, <1>4, <1>5, InCreate
  <1>7. DiskTree(di, {i}, {})
    BY <1>1, <1>3, CallDisk DEF Alone
  <1>8. PICK d : d = di'
    OBVIOUS
  <1>9. di[i].type = "new" /\ di[i].ents = <<>>
    BY <1>6, <1>7 DEF DiskTree, Used, Directories
  <1>10. CASE /\ di[x].type = "dir" /\ ~exists(di, x, name)
              /\ Len(di[x].ents) < SubdentryCount
              /\ di' = [di EXCEPT ![x].ents = Append(@, [name |-> name, no |-> i])]
    <2>1. PICK v : v = [di[x] EXCEPT !.ents = Append(di[x].ents, [name |-> name, no |-> i])]
      OBVIOUS
    <2>2. di[x].ents \in Seq(Entry) /\ [name |-> name, no |-> i] \in Entry
      BY <1>1, <1>6 DEF Inode, Entry
    <2>3. Append(di[x].ents, [name |-> name, no |-> i]) \in Seq(Entry)
      BY <2>2, AppendProperties
    <2>4. /\ v \in Inode /\ v.type = "dir"
          /\ v.ents = Append(di[x].ents, [name |-> name, no |-> i])
      BY <1>1, <1>6, <1>10, <2>1, <2>3 DEF Inode
    <2>5. d = [di EXCEPT ![x] = v]
      BY <1>8, <1>10, <2>1
    <2>6. /\ OnlyAt(di, d, x) /\ d[x].type = "dir"
          /\ d[x].ents = Append(di[x].ents, [name |-> name, no |-> i])
      BY <1>1, <1>6, <2>4, <2>5 DEF OnlyAt
    <2>7. \A k \in 1 .. Len(di[x].ents) : di[x].ents[k].name # name
      BY <1>1, <1>6, <1>10, LookupFinds DEF exists
    <2>8. DiskTree(d, {i} \ {i}, {} \cup {i})
      BY <1>6, <1>7, <1>10, <2>6, <2>7, NameTree
    <2>9. Tree(d) = Tree(di)
      BY <1>6, <1>7, <1>9, <1>10, <2>6, <2>8, DiskShaped, NewEntryTree
    <2> QED
      BY <1>8, <2>9 DEF NamesStep
  <1>11. CASE di' = denemefs_free_inode(di, i)
    <2>1. Free \in Inode
      BY DEF Free, Inode
    <2>2. d = [di EXCEPT ![i] = Free]
      BY <1>8, <1>11 DEF denemefs_free_inode
    <2>3. OnlyAt(di, d, i) /\ d[i] = Free
      BY <1>1, <1>6, <2>1, <2>2 DEF OnlyAt
    <2>4. DiskTree(d, {i} \ {i}, {})
      BY <1>6, <1>7, <2>3, DropTree
    <2>5. d[i].type = "free" /\ d[i].ents = <<>>
      BY <2>3 DEF Free
    <2>6. Tree(d) = Tree(di)
      BY <1>6, <1>7, <1>9, <2>3, <2>4, <2>5, DiskShaped, SpareTree
    <2> QED
      BY <1>8, <2>6 DEF NamesStep
  <1>12. CASE di' = di
    BY <1>12 DEF NamesStep
  <1> QED
    BY <1>3, <1>4, <1>5, <1>10, <1>11, <1>12 DEF add_entry

\* The end of denemefs_create and denemefs_mkdir
LEMMA FillNames ==
  ASSUME WalkTypes, Consistent(di, pc), NEW t \in Tasks, Alone(t),
         NEW type \in {"file", "dir"}, fill(t, type)
  PROVE  NamesStep(Tree(di), Tree(di'))
PROOF
  <1>1. pc[t].step = "fill" /\ di \in [Slots -> Inode]
    BY DEF fill, WalkTypes
  <1>2. pc[t] \in CreateCall
    BY <1>1, CreateCalls
  <1>3. PICK i : i = pc[t].ino
    OBVIOUS
  <1>4. i \in Slots /\ pc[t].rw \in BOOLEAN
    BY <1>2, <1>3, InCreate
  <1>5. DiskTree(di, {}, {i})
    BY <1>1, <1>3, CallDisk DEF Alone
  <1>6. PICK d : d = di'
    OBVIOUS
  <1>7. PICK v : v = [type |-> type, rw |-> pc[t].rw, ents |-> <<>>]
    OBVIOUS
  <1>8. v \in Inode /\ v.type \in {"file", "dir"} /\ v.ents = <<>>
    BY <1>4, <1>7 DEF Inode
  <1>9. d = [di EXCEPT ![i] = v]
    BY <1>3, <1>6, <1>7 DEF fill
  <1>10. OnlyAt(di, d, i) /\ d[i].type \in {"file", "dir"} /\ d[i].ents = <<>>
    BY <1>1, <1>4, <1>8, <1>9 DEF OnlyAt
  <1>11. DiskTree(d, {}, {i} \ {i})
    BY <1>4, <1>5, <1>10, FillTree
  <1>12. PICK x \in Slots, a \in Name : Leaf(di, d, x, a, i) /\ di[x].type = "dir"
    BY <1>4, <1>5, <1>10, FillLeaf
  <1>13. Tree(d) = Tree(di) \/ \E p : LeafOf(Tree(di), Tree(d), p, di[x].type)
    BY <1>5, <1>11, <1>12, DiskShaped, LeafTree
  <1>14. NamesStep(Tree(di), Tree(d))
    <2>1. CASE Tree(d) = Tree(di)
      BY <2>1 DEF NamesStep
    <2>2. ASSUME NEW p, LeafOf(Tree(di), Tree(d), p, di[x].type)
          PROVE  NamesStep(Tree(di), Tree(d))
      BY <1>12, <2>2, LeafNames
    <2> QED
      BY <1>13, <2>1, <2>2
  <1> QED
    BY <1>6, <1>14

\* unlink and rmdir up to the cache
LEMMA UnlinkNames ==
  ASSUME WalkTypes, Consistent(di, pc), NEW t \in Tasks, ~Overlapping', NEW p \in Paths,
         NEW type \in {"file", "dir"}, unlink(t, p, type)
  PROVE  NamesStep(Tree(di), Tree(di'))
PROOF
  <1>1. PICK w : w = inode_find2(t, p)
    OBVIOUS
  <1>2. w \in WalkState
    BY <1>1, WalksTyped
  <1>3. PICK x : x = w.c[w.d].ino
    OBVIOUS
  <1>4. x \in Slots
    BY <1>2, <1>3, WalkEnds
  <1>8. PICK v : v = [step |-> "cache_remove", path |-> p, locked |-> w.d]
    OBVIOUS
  <1>5. /\ pc[t] = Idle
        /\ \/ di' = di
           \/ /\ may_remove(type, di, x, p.name) /\ di' = remove(di, x, p.name)
              /\ pc' = [pc EXCEPT ![t] = v]
    BY <1>1, <1>3, <1>8 DEF unlink
  <1>6. CASE di' = di
    BY <1>6 DEF NamesStep
  <1>7. CASE /\ may_remove(type, di, x, p.name) /\ di' = remove(di, x, p.name)
             /\ pc' = [pc EXCEPT ![t] = v]
    <2>1. PICK d : d = di'
      OBVIOUS
    <2>2. Idle.step = "idle"
      BY DEF Idle
    <2>8. Alone(t)
      <3>1. v.step = "cache_remove"
        BY <1>8
      <3> QED
        BY <1>7, <3>1, StartsAlone
    <2>3. DiskTree(di, {}, {})
      BY <1>5, <2>2, <2>8, CallDisk DEF Alone
    <2>4. DiskTree(d, {}, {})
      BY <1>4, <1>7, <2>1, <2>3, RemoveKeepsTree
    <2>5. PICK a \in Name, i \in Slots : Leaf(d, di, x, a, i)
      BY <1>4, <1>7, <2>1, <2>3, RemoveLeaf
    <2>6. Tree(di) = Tree(d) \/ \E r : LeafOf(Tree(d), Tree(di), r, d[x].type)
      BY <2>3, <2>4, <2>5, DiskShaped, LeafTree
    <2>7. NamesStep(Tree(di), Tree(d))
      <3>1. CASE Tree(di) = Tree(d)
        BY <3>1 DEF NamesStep
      <3>2. ASSUME NEW r, LeafOf(Tree(d), Tree(di), r, d[x].type)
            PROVE  NamesStep(Tree(di), Tree(d))
        BY <3>2, LeafNames
      <3> QED
        BY <2>6, <3>1, <3>2
    <2> QED
      BY <2>1, <2>7
  <1> QED
    BY <1>5, <1>6, <1>7

\* Every action does to the tree what Namespace says, as long as calls do not
\* overlap.
LEMMA NextNames ==
  ASSUME DiskInv, Step, ~overlap, ~Overlapping'
  PROVE  NamesStep(Tree(di), Tree(di'))
PROOF
  <1>0. ASSUME Running PROVE WalkTypes /\ Consistent(di, pc)
    BY <1>0 DEF DiskInv
  <1>1. ASSUME NEW t \in Tasks, Running, pc[t].step # "idle"
        PROVE  WalkTypes /\ Consistent(di, pc) /\ Alone(t)
    BY <1>0, <1>1, InCallAlone
  <1>2. CASE di' = di
    BY <1>2 DEF NamesStep
  <1>3. ASSUME NEW t \in Tasks, NEW p \in Paths, NEW rw \in Modes,
               sys_creat(t, p, rw) \/ sys_mkdir(t, p, rw)
        PROVE  di' = di
    BY <1>3 DEF sys_creat, sys_mkdir, create
  <1>4. ASSUME NEW t \in Tasks, NEW p \in Paths,
               sys_mknod(t, p) \/ sys_open(t, p) \/ sys_stat(t, p)
        PROVE  di' = di
    BY <1>4 DEF sys_mknod, sys_open, sys_stat, looked_up
  <1>5. ASSUME NEW t \in Tasks, NEW p \in Paths, sys_unlink(t, p) \/ sys_rmdir(t, p)
        PROVE  NamesStep(Tree(di), Tree(di'))
    <2>1. PICK type \in {"file", "dir"} : unlink(t, p, type)
      BY <1>5 DEF sys_unlink, sys_rmdir
    <2>2. Running
      BY <2>1 DEF unlink
    <2> QED
      BY <1>0, <2>1, <2>2, UnlinkNames
  <1>6. ASSUME NEW t \in Tasks, NEW p \in Paths, sys_chdir(t, p)
        PROVE  di' = di
    BY <1>6 DEF sys_chdir
  <1>7. ASSUME NEW t \in Tasks, find_empty_di(t) \/ dirent_cache_remove(t)
        PROVE  di' = di
    BY <1>7 DEF find_empty_di, dirent_cache_remove
  <1>8. ASSUME NEW t \in Tasks, take_di(t)
        PROVE  NamesStep(Tree(di), Tree(di'))
    <2>1. Running /\ pc[t].step # "idle"
      BY <1>8 DEF take_di
    <2> QED
      BY <1>1, <1>8, <2>1, TakeNames
  <1>9. ASSUME NEW t \in Tasks, add_entry(t)
        PROVE  NamesStep(Tree(di), Tree(di'))
    <2>1. Running /\ pc[t].step # "idle"
      BY <1>9 DEF add_entry
    <2> QED
      BY <1>1, <1>9, <2>1, AddEntryNames
  <1>10. ASSUME NEW t \in Tasks, denemefs_create(t) \/ denemefs_mkdir(t)
         PROVE  NamesStep(Tree(di), Tree(di'))
    <2>1. PICK type \in {"file", "dir"} : fill(t, type)
      BY <1>10 DEF denemefs_create, denemefs_mkdir
    <2>2. Running /\ pc[t].step # "idle"
      BY <2>1 DEF fill
    <2> QED
      BY <1>1, <2>1, <2>2, FillNames
  <1> QED
    BY <1>2, <1>3, <1>4, <1>5, <1>6, <1>7, <1>8, <1>9, <1>10 DEF Step

\* denemefs_init makes the root and /home.
LEMMA InitNames ==
  ASSUME Init
  PROVE  Tree(di) = StartTree
PROOF
  <1>0. 0 \in Slots /\ 1 \in Slots
    BY FileSystemAssumption
  <1>1. PICK h : h = "home"
    OBVIOUS
  <1>2. h \in Name
    BY <1>1 DEF Name
  <1>3. Shaped(di)
    BY InitTree, DiskShaped
  <1>4. PICK v : v = [name |-> h, no |-> 1]
    OBVIOUS
  <1>5. PICK E : E = <<v>>
    OBVIOUS
  <1>6. Len(E) = 1 /\ E[1] = v /\ v.name = h /\ v.no = 1
    BY <1>4, <1>5
  <1>7. /\ di[0].type = "dir" /\ di[0].ents = E /\ di[1].type = "dir"
        /\ \A z \in Slots \ {0} : di[z].ents = <<>>
    <2>1. PICK root : root = [type |-> "dir", rw |-> FALSE, ents |-> E]
      OBVIOUS
    <2>2. PICK home : home = [type |-> "dir", rw |-> TRUE, ents |-> <<>>]
      OBVIOUS
    <2>3. di = [i \in Slots |-> CASE i = 0 -> root [] i = 1 -> home [] OTHER -> Free]
      BY <1>1, <1>4, <1>5, <2>1, <2>2 DEF Init
    <2>4. \A i \in Slots : di[i] = IF i = 0 THEN root ELSE IF i = 1 THEN home ELSE Free
      BY <2>3
    <2>5. root.type = "dir" /\ root.ents = E /\ home.type = "dir" /\ home.ents = <<>>
      BY <2>1, <2>2
    <2>6. Free.ents = <<>>
      BY DEF Free
    <2> QED
      BY <1>0, <2>4, <2>5, <2>6
  <1>8. ASSUME NEW z \in Slots, NEW c, NEW y
        PROVE  Edge(di, z, c, y) <=> z = 0 /\ c = h /\ y = 1
    <2>1. CASE z # 0
      <3>1. Len(di[z].ents) = 0
        BY <1>7, <2>1
      <3> QED
        BY <2>1, <3>1 DEF Edge
    <2>2. CASE z = 0
      <3>1. \A k \in 1 .. Len(E) : k = 1
        BY <1>6
      <3>2. ASSUME Edge(di, 0, c, y) PROVE c = h /\ y = 1
        BY <1>6, <1>7, <3>1, <3>2 DEF Edge
      <3>3. Edge(di, 0, h, 1)
        <4>1. 1 \in 1 .. Len(E) /\ E[1].name = h /\ E[1].no = 1
          BY <1>6
        <4> QED
          BY <1>0, <1>7, <4>1 DEF Edge
      <3> QED
        BY <2>2, <3>2, <3>3
    <2> QED
      BY <2>1, <2>2
  <1>9. PICK e \in Seq(Name) : e = <<>>
    <2>1. <<>> \in Seq(Name)
      BY EmptySeq
    <2> QED
      BY <2>1, Zenon
  <1>10. PICK p \in Seq(Name) : p = Append(e, h)
    <2>1. Append(e, h) \in Seq(Name)
      BY <1>2, AppendProperties
    <2> QED
      BY <2>1, Zenon
  <1>11. Reach(di, e, 0) /\ Reach(di, p, 1)
    <2>1. Reach(di, e, 0)
      BY <1>9, ReachRoot
    <2> QED
      BY <1>0, <1>2, <1>8, <1>10, <2>1, ReachNext, SMTT(30)
  <1>12. ASSUME NEW q \in Seq(Name), NEW y \in Slots, Reach(di, q, y)
         PROVE  q = e \/ q = p
    <2>1. SUFFICES ASSUME q # <<>> PROVE q = p
      BY <1>9
    <2>2. PICK r \in Seq(Name), a \in Name : q = Append(r, a)
      BY <2>1, PathCases
    <2>3. PICK z \in Slots : Reach(di, r, z) /\ Edge(di, z, a, y)
      BY <1>12, <2>2, ReachNext
    <2>4. z = 0 /\ a = h
      BY <1>8, <2>3
    <2>5. r = e
      BY <1>0, <1>3, <1>11, <2>3, <2>4, ReachUnique
    <2> QED
      BY <1>10, <2>2, <2>4, <2>5
  <1>13. PICK T : T = Tree(di)
    OBVIOUS
  <1>14. /\ DOMAIN T = {q \in Seq(Name) : \E y \in Slots : Reach(di, q, y)}
         /\ T = [q \in DOMAIN T |-> T[q]]
         /\ \A q \in Seq(Name) : \A y \in Slots : Reach(di, q, y) => T[q] = di[y].type
    BY <1>3, <1>13, TreeIs
  <1>15. DOMAIN T = {e, p}
    BY <1>0, <1>11, <1>12, <1>14
  <1>16. \A q \in {e, p} : T[q] = "dir"
    BY <1>0, <1>7, <1>11, <1>14
  <1>17. T = [q \in {e, p} |-> "dir"]
    BY <1>14, <1>15, <1>16
  <1>18. p = <<"home">>
    <2>1. Append(<<>>, h) = <<h>>
      OBVIOUS
    <2> QED
      BY <1>1, <1>9, <1>10, <2>1
  <1> QED
    BY <1>9, <1>13, <1>17, <1>18 DEF StartTree

\* creat, mkdir, unlink and rmdir implement a tree of names, for any number of
\* inodes, entries and dirents and any paths: the end of denemefs_create and
\* denemefs_mkdir makes one path, which was not there, below a directory that
\* was; denemefs_unlink and denemefs_rmdir delete one path with nothing below
\* it; no other step, and no failure halfway, changes what any path stands
\* for, although inode numbers are used again and entries are not, until two
\* of these calls are under way at one time.
THEOREM TreeOfNames == Spec => ImplementsNamespace
PROOF
  <1>1. Init => Tree(di) = StartTree /\ ~overlap
    BY InitNames DEF Init
  <1>2. DiskInv /\ [Next]_vars => [NS!Next]_<<Tree(di), overlap>>
    <2>1. SUFFICES ASSUME DiskInv, [Next]_vars
                   PROVE  NS!Next \/ UNCHANGED <<Tree(di), overlap>>
      OBVIOUS
    <2>2. CASE UNCHANGED vars
      BY <2>2 DEF vars
    <2>3. CASE Next /\ overlap'
      BY <2>3 DEF NS!Next
    <2>4. CASE Step /\ ~overlap /\ ~Overlapping'
      <3>1. NamesStep(Tree(di), Tree(di'))
        BY <2>1, <2>4, NextNames
      <3> QED
        BY <3>1 DEF NamesStep, NS!Next
    <2> QED
      BY <2>1, <2>2, <2>3, <2>4 DEF Next
  <1> QED
    BY <1>1, <1>2, DiskInvariant, PTL DEF Spec, ImplementsNamespace, NS!Spec

=============================================================================
