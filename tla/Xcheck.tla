------------------------------- MODULE Xcheck -------------------------------
(***************************************************************************)
(* The file system checker of projects/filesystems-check: xcheck.c, the    *)
(* two contest versions that check the tree (xcheck_contest_1.c compares   *)
(* ".." with the entries of the parent, xcheck_contest_2.c follows ".." up *)
(* to the root) and xcheck_contest_3.c, which only prints what it finds    *)
(* and puts lost inodes into lost_found.                                   *)
(*                                                                         *)
(* The image is what is found on the disk, consistent or not: inodes with  *)
(* their type, link count and block addresses, the directories' entries,   *)
(* and the set of blocks the bitmap marks.  One action is one iteration of *)
(* the loop over the inodes, the scan of the bitmap, or one iteration of   *)
(* the second loop over the inodes.                                        *)
(*                                                                         *)
(* What is left out of the images: entries with an inode number past the   *)
(* last inode (they index the checker's arrays out of bounds), directories *)
(* with more than one ".." that is not the root's, and files whose bytes   *)
(* read as directory entries.  xcheck_contest_3.c calls trace_parent with  *)
(* its pointers swapped: for the inode numbers of these images it reads    *)
(* the zeroed boot block as an empty directory and has no effect.  It runs *)
(* with -r.  A run starts with the image mapped: the checks of the command *)
(* line and the calls that open and map the file are left out.             *)
(***************************************************************************)
EXTENDS Integers, Sequences, FiniteSets, FiniteSetsExt, Functions

CONSTANTS ninodes,      \* sb.ninodes
          DataStart,    \* data_start, the first data block
          FSSIZE,       \* blocks of the file system
          NBMAP,        \* where the scan of the bitmap ends, as a block number
          ByteBits,     \* blocks whose marks share a byte of the bitmap
          DirEnts,      \* entries of a directory block
          Images(_)     \* the images that each program is run on

VARIABLES variant,      \* which of the four programs runs
          img,          \* the image
          i,            \* the index of the loop that runs
          pc,           \* "inodes", "bitmap", "refs", or "exited"
          error,        \* the error it exited with, "none", or "overflow"
          bmap_mark, inode_dir, nlink, dir_links, maps,
          lost_found_dir_inum, data_end_block,
          written,      \* the blocks that the repair wrote
          added         \* the inodes put into lost_found

vars == <<variant, img, i, pc, error, bmap_mark, inode_dir, nlink, dir_links, maps,
          lost_found_dir_inum, data_end_block, written, added>>

ROOTINO == 1
Inodes == ROOTINO..(ninodes - 1)
NINDIRECT == 1
Zeroes == [inum |-> 0, name |-> ""]     \* what an entry reads as in a zeroed block

Start ==
  /\ i = ROOTINO /\ pc = "inodes" /\ error = "none"
  /\ bmap_mark = {} /\ inode_dir = {} /\ nlink = img.nlink
  /\ dir_links = [j \in 0..(ninodes - 1) |-> 0] /\ maps = [j \in 0..(ninodes - 1) |-> {}]
  /\ lost_found_dir_inum = 0 /\ data_end_block = 0 /\ written = {} /\ added = {}

Init ==
  /\ variant \in {"xcheck", "contest_1", "contest_2", "contest_3"}
  /\ img \in Images(variant) /\ Start

Exits == variant # "contest_3"
Fail(e) == pc' = "exited" /\ error' = e

(***************************************************************************)
(* check_inode_type and check_address.  The addresses of an inode in the   *)
(* order in which they are checked: the direct ones, the address of the    *)
(* indirect block, and what that block holds; address 0 makes the program  *)
(* read block 0, which is zero.                                            *)
(***************************************************************************)
GoodType(t) == t \in {"free", "T_DIR", "T_FILE", "T_DEV"}

Addresses(n) ==
  img.direct[n] \o <<img.ind[n]>>
    \o (IF img.ind[n] = 0 THEN [k \in 1..NINDIRECT |-> 0] ELSE img.indirect[n])

BadAddress(a) == (a < DataStart /\ a # 0) \/ a >= FSSIZE
MarkedFree(a) == a # 0 /\ a \notin img.bmap

UsedAgain_PerInode(A, k) == A[k] # 0 /\ \E m \in 1..(k - 1) : A[m] = A[k]
UsedAgain_Zeroes(A, k) == A[k] \in bmap_mark \/ \E m \in 1..(k - 1) : A[m] = A[k]

UsedAgain(A, k) == A[k] # 0 /\ (A[k] \in bmap_mark \/ \E m \in 1..(k - 1) : A[m] = A[k])

check_address(n) ==
  LET A == Addresses(n)
      wrong == {k \in DOMAIN A : BadAddress(A[k]) \/ MarkedFree(A[k]) \/ UsedAgain(A, k)}
      k == Min(wrong)
      direct == k <= Len(img.direct[n])
  IN  CASE wrong = {} -> "none"
        [] wrong # {} /\ BadAddress(A[k]) -> IF direct THEN "bad direct" ELSE "bad indirect"
        [] wrong # {} /\ ~BadAddress(A[k]) /\ MarkedFree(A[k]) -> "marked free"
        [] OTHER -> IF direct THEN "direct twice" ELSE "indirect twice"

(***************************************************************************)
(* The entries of a directory.  The loop stops at a "." that names another *)
(* inode, before it counts what that entry refers to.                      *)
(***************************************************************************)
read_inode_data(n) ==
  IF img.direct[n][1] # 0 THEN img.entries[n] ELSE [k \in DOMAIN img.entries[n] |-> Zeroes]

WrongDots(n) ==
  {k \in DOMAIN read_inode_data(n) : /\ read_inode_data(n)[k].name = "."
                                     /\ read_inode_data(n)[k].inum # n}

Scanned(n) ==
  LET E == read_inode_data(n)
  IN  IF WrongDots(n) = {} THEN E ELSE SubSeq(E, 1, Min(WrongDots(n)) - 1)

Named(E, names) == {k \in DOMAIN E : E[k].name \in names}
count_dots(n) == Cardinality(Named(Scanned(n), {".", ".."}))
root_exist == \E k \in Named(Scanned(ROOTINO), {".."}) : Scanned(ROOTINO)[k].inum = ROOTINO

\* The ".." entries that are compared with the parent: all but the root's own.
Parents(n) ==
  {Scanned(n)[k].inum : k \in Named(Scanned(n), {".."})} \ (IF n = ROOTINO THEN {ROOTINO} ELSE {})

ParentMismatch(n) == \E p \in Parents(n) : n \notin maps[p]

\* trace_parent of xcheck_contest_2.c: up from inode p, looking for "leaf", for
\* at most so many steps; a longer way goes round a loop, and the recursion
\* ends with the stack.
trace_parent(start, leaf) ==
  LET ups(p) == {read_inode_data(p)[k].inum : k \in Named(read_inode_data(p), {".."})} \ {ROOTINO}
      found(p) == \E k \in Named(read_inode_data(p), {"."}) : read_inode_data(p)[k].inum = leaf
      trace[steps \in 0..ninodes, p \in 0..(ninodes - 1)] ==
        CASE found(p) -> "inaccessible"
          [] ~found(p) /\ ups(p) = {} -> "none"
          [] ~found(p) /\ ups(p) # {} /\ steps = 0 -> "overflow"
          [] OTHER -> trace[steps - 1, CHOOSE q \in ups(p) : TRUE]
  IN  trace[ninodes, start]

DirError(n) ==
  LET traces == {trace_parent(p, n) : p \in Parents(n)} \ {"none"}
  IN  CASE variant = "contest_1" /\ ParentMismatch(n) -> "parent mismatch"
        [] variant = "contest_2" /\ traces # {} -> CHOOSE e \in traces : TRUE
        [] n = ROOTINO /\ ~root_exist -> "no root"
        [] WrongDots(n) # {} \/ count_dots(n) # 2 -> "bad directory"
        [] OTHER -> "none"

InodeError(n) ==
  LET e == check_address(n)
  IN  CASE ~GoodType(img.type[n]) -> "bad inode"
        [] img.type[n] = "free" -> "none"
        [] OTHER -> IF e = "none" /\ img.type[n] = "T_DIR" THEN DirError(n) ELSE e

(***************************************************************************)
(* main                                                                    *)
(***************************************************************************)
\* What the entries of directory n add to inode_dir, nlink, dir_links, maps and
\* lost_found_dir_inum.
CountEntries(n) ==
  LET E == Scanned(n)
      refs(j) == Cardinality({k \in DOMAIN E : E[k].inum = j})
      dirs == {k \in DOMAIN E : img.type[E[k].inum] = "T_DIR" /\ E[k].inum # n}
      lost == {k \in dirs : E[k].name = "lost_found"}
  IN  /\ inode_dir' = inode_dir \cup {E[k].inum : k \in DOMAIN E}
      /\ nlink' = [j \in DOMAIN nlink |-> IF img.type[j] = "T_FILE" THEN nlink[j] - refs(j) ELSE nlink[j]]
      /\ dir_links' = [j \in DOMAIN dir_links |->
           IF img.type[j] = "T_DIR" /\ j # n THEN dir_links[j] + refs(j) ELSE dir_links[j]]
      /\ maps' = [maps EXCEPT ![n] = @ \cup {E[k].inum : k \in dirs}]
      /\ lost_found_dir_inum' = IF lost = {} THEN lost_found_dir_inum ELSE E[Max(lost)].inum

\* The assertion of read_inode_data: the loop gets to a second block.
Aborts(n) ==
  /\ img.type[n] = "T_DIR" /\ Len(read_inode_data(n)) > DirEnts
  /\ \A k \in WrongDots(n) : k > DirEnts

\* One iteration of the first loop.
CheckInode ==
  /\ pc = "inodes" /\ i < ninodes /\ ~Aborts(i)
  /\ LET e == IF Exits THEN InodeError(i) ELSE "none"
         used == {a \in Range(Addresses(i)) \ {0} : img.type[i] # "free"}
         last == {k \in DOMAIN Addresses(i) : Addresses(i)[k] \in used}
     IN  IF e # "none"
         THEN /\ Fail(e)
              /\ UNCHANGED <<i, bmap_mark, inode_dir, nlink, dir_links, maps, lost_found_dir_inum, data_end_block>>
         ELSE /\ i' = i + 1 /\ UNCHANGED <<pc, error>>
              /\ bmap_mark' = bmap_mark \cup used
              /\ data_end_block' = IF last = {} THEN data_end_block ELSE Addresses(i)[Max(last)]
              /\ IF img.type[i] = "T_DIR" THEN CountEntries(i)
                 ELSE UNCHANGED <<inode_dir, nlink, dir_links, maps, lost_found_dir_inum>>
  /\ UNCHANGED <<variant, img, written, added>>

Abort ==
  /\ pc = "inodes" /\ i < ninodes /\ Aborts(i) /\ Fail("assert")
  /\ UNCHANGED <<variant, img, i, bmap_mark, inode_dir, nlink, dir_links, maps,
                 lost_found_dir_inum, data_end_block, written, added>>

\* Error 6, byte by byte: from the byte after the one that holds the mark of
\* the first data block, up to NBMAP.
InScan(b) ==
  LET j == (b \div ByteBits) * ByteBits
  IN  j >= (DataStart \div ByteBits + 1) * ByteBits /\ j < NBMAP

CheckBitmap ==
  /\ pc = "inodes" /\ i = ninodes
  /\ LET wrong == {b \in 0..(FSSIZE - 1) : InScan(b) /\ (b \in img.bmap) # (b \in bmap_mark)}
     IN  IF Exits /\ wrong # {} THEN Fail("not in use") /\ UNCHANGED i
         ELSE pc' = "refs" /\ i' = ROOTINO /\ UNCHANGED error
  /\ UNCHANGED <<variant, img, bmap_mark, inode_dir, nlink, dir_links, maps,
                 lost_found_dir_inum, data_end_block, written, added>>

\* The errors 9 to 12.
Lost(j) == img.type[j] # "free" /\ j \notin inode_dir

RefError(j) ==
  CASE Lost(j) -> "not in a directory"
    [] img.type[j] = "free" /\ j \in inode_dir -> "referred but free"
    [] img.type[j] = "T_FILE" /\ ~Lost(j) /\ nlink[j] > 0 -> "bad reference count"
    [] img.type[j] = "T_DIR" /\ ~Lost(j) /\ dir_links[j] > 1 -> "directory twice"
    [] OTHER -> "none"

iappend_FirstBlock(save_dir, de) ==
  /\ img' = [img EXCEPT !.entries[save_dir] = Append(SubSeq(@, 1, Len(@) - 1), de)]
  /\ written' = written \cup {img.direct[save_dir][1]} /\ UNCHANGED data_end_block

\* mov_lost_found and iappend: the entry goes to the end of the directory; a
\* block that the directory does not have yet is taken from data_end_block.
\* The entry is seen by every inode whose first block that is.
iappend(save_dir, de) ==
  LET size == Len(img.entries[save_dir])
      fbn == size \div DirEnts + 1
      fresh == img.direct[save_dir][fbn] = 0
      x == IF fresh THEN data_end_block ELSE img.direct[save_dir][fbn]
      off == (size % DirEnts) + 1
  IN  /\ img' = [img EXCEPT
           !.direct[save_dir][fbn] = x,
           !.entries = [n \in DOMAIN @ |->
              IF n = save_dir THEN Append(@[n], de)
              ELSE IF img.direct[n][1] = x /\ off \in DOMAIN @[n] THEN [@[n] EXCEPT ![off] = de]
              ELSE @[n]]]
      /\ data_end_block' = IF fresh THEN data_end_block + 1 ELSE data_end_block
      /\ written' = written \cup {x}

\* One iteration of the second loop.
CheckRefs ==
  /\ pc = "refs" /\ i < ninodes
  /\ IF Exits /\ RefError(i) # "none" THEN Fail(RefError(i)) /\ UNCHANGED i
     ELSE i' = i + 1 /\ UNCHANGED <<pc, error>>
  /\ IF ~Exits /\ Lost(i)
     THEN iappend(lost_found_dir_inum, [inum |-> i, name |-> "lost_inodes"]) /\ added' = added \cup {i}
     ELSE UNCHANGED <<img, data_end_block, written, added>>
  /\ UNCHANGED <<variant, bmap_mark, inode_dir, nlink, dir_links, maps, lost_found_dir_inum>>

\* The end of main: the image is unmapped; xcheck_contest_3.c writes back the
\* inode of lost_found and syncs.
Accept ==
  /\ pc = "refs" /\ i = ninodes /\ pc' = "exited"
  /\ UNCHANGED <<variant, img, i, error, bmap_mark, inode_dir, nlink, dir_links, maps,
                 lost_found_dir_inum, data_end_block, written, added>>

Next == CheckInode \/ Abort \/ CheckBitmap \/ CheckRefs \/ Accept

Spec == Init /\ [][Next]_vars
-----------------------------------------------------------------------------
Used == {n \in Inodes : img.type[n] # "free"}
Dirs == {n \in Inodes : img.type[n] = "T_DIR"}
UsedBlocks == UNION {Range(Addresses(n)) \ {0} : n \in Used}

\* The slots in which block b is used, over all inodes.
Uses(b) == {<<n, k>> \in Used \X (1..8) : k \in DOMAIN Addresses(n) /\ Addresses(n)[k] = b}

\* The entries that name inode j, over all directories.
Entries(j) ==
  {<<n, k>> \in Dirs \X (1..DirEnts) : k \in DOMAIN read_inode_data(n) /\ read_inode_data(n)[k].inum = j}

Up(n) == {read_inode_data(n)[k].inum : k \in Named(read_inode_data(n), {".."})}

\* Directory n has one "." and one "..", and the first is n itself.
ProperDots(n) ==
  LET E == read_inode_data(n)
  IN  /\ \E k \in DOMAIN E : Named(E, {"."}) = {k} /\ E[k].inum = n
      /\ Cardinality(Named(E, {".."})) = 1

\* The directories from which ".." leads to the root, or to an inode without
\* a "..".
Grounded ==
  LET up[steps \in 0..ninodes] ==
        IF steps = 0 THEN {ROOTINO} \cup {n \in 0..(ninodes - 1) : Up(n) = {}}
        ELSE LET known == up[steps - 1]
             IN  known \cup {n \in 0..(ninodes - 1) : Up(n) \subseteq known}
  IN  up[ninodes]

\* The marks that the scan of the bitmap passes over: those of the blocks before
\* the data, those that share a byte with the mark of the first data block, and
\* those whose byte begins at block NBMAP or later.
NotLookedAt ==
  {b \in 0..(FSSIZE - 1) : \/ b < DataStart \/ b \div ByteBits = DataStart \div ByteBits
                           \/ \E first \in NBMAP..b : first % ByteBits = 0}

\* What an image that is accepted without an error satisfies: every block in
\* use is a data block, marked, and used in one place; a block that is marked
\* and not used is among those whose marks are not looked at; every directory
\* has two dot entries, and "." is itself; a root that is a directory is its own
\* parent; the inodes in use are those with an entry; no file has fewer entries
\* than its link count, and no directory more than one entry in the others.  From
\* xcheck_contest_1.c on no ".." goes round in a circle.  More does not follow: a
\* root that is no directory is accepted, and so are two dot entries of a kind.
AcceptedIsSound ==
  pc = "exited" /\ error = "none" /\ Exits =>
    /\ UsedBlocks \subseteq DataStart..(FSSIZE - 1)
    /\ UsedBlocks \subseteq img.bmap
    /\ \A b \in UsedBlocks : Cardinality(Uses(b)) = 1
    /\ img.bmap \subseteq UsedBlocks \cup NotLookedAt
    /\ \A n \in Dirs :
         /\ Cardinality(Named(read_inode_data(n), {".", ".."})) = 2
         /\ \A k \in Named(read_inode_data(n), {"."}) : read_inode_data(n)[k].inum = n
    /\ ROOTINO \in Dirs => ROOTINO \in Up(ROOTINO)
    /\ \A j \in Inodes : (j \in Used) = (Entries(j) # {})
    /\ \A j \in Inodes : img.type[j] = "T_FILE" => Cardinality(Entries(j)) >= img.nlink[j]
    /\ \A j \in Dirs : Cardinality({e \in Entries(j) : e[1] # j}) <= 1
    /\ variant \in {"contest_1", "contest_2"} => Dirs \subseteq Grounded

\* Every error message but two is justified by the image: the fault it names
\* is there.  (The count behind "directory appears more than once" includes
\* the ".." of its subdirectories, and a ".." that names a later inode is
\* taken for a mismatch.)  xcheck_contest_2.c runs out of stack only when ".."
\* goes round in a circle, and the assertion stops a program only at a directory
\* of more than one block.
RejectedIsFaulty ==
  pc = "exited" =>
    CASE error = "bad inode" -> \E n \in Inodes : ~GoodType(img.type[n])
      [] error = "bad directory" -> \E n \in Dirs : ~ProperDots(n)
      [] error = "assert" -> \E n \in Dirs : Len(read_inode_data(n)) > DirEnts
      [] error \in {"bad direct", "bad indirect"} -> \E b \in UsedBlocks : b \notin DataStart..(FSSIZE - 1)
      [] error = "marked free" -> ~(UsedBlocks \subseteq img.bmap)
      [] error \in {"direct twice", "indirect twice"} -> \E b \in UsedBlocks : Cardinality(Uses(b)) > 1
      [] error = "not in use" -> ~(img.bmap \cap DataStart..(FSSIZE - 1) \subseteq UsedBlocks)
      [] error = "no root" -> ~(Up(ROOTINO) = {ROOTINO} /\ <<ROOTINO, 1>> \in Entries(ROOTINO))
      [] error = "not in a directory" -> \E j \in Used : Entries(j) = {}
      [] error = "referred but free" -> \E j \in Inodes \ Used : Entries(j) # {}
      [] error = "bad reference count" ->
           \E j \in Inodes : img.type[j] = "T_FILE" /\ Cardinality(Entries(j)) < img.nlink[j]
      [] error = "directory twice" -> \E j \in Dirs : Cardinality({e \in Entries(j) : e[1] # j}) > 1
      [] error = "parent mismatch" ->
           \E n \in Dirs, p \in Inodes : p \in Up(n) /\ (p > n \/ \A e \in Entries(n) : e[1] # p \/ p = n)
      [] error \in {"inaccessible", "overflow"} -> ~(Dirs \subseteq Grounded)
      [] error = "none" -> TRUE

\* When there is a lost_found directory with room in its block, and every "."
\* is right, the repair of xcheck_contest_3.c writes to no block but that
\* directory's, gives each lost inode one entry, and leaves none lost: a second
\* run on the repaired image would find nothing to add.  Nothing is said of a
\* lost_found that is full or missing: the block it is then given is the last one
\* that the checker saw in use.
RepairSticks ==
  LET d == lost_found_dir_inum
  IN  (variant = "contest_3" /\ pc = "exited" /\ d # 0
         /\ Len(img.entries[d]) <= DirEnts /\ \A n \in Dirs : WrongDots(n) = {}) =>
        /\ written \subseteq {img.direct[d][1]}
        /\ \A j \in Used : Entries(j) # {}
        /\ \A j \in added : Cardinality({e \in Entries(j) : e[1] # j}) = 1
-----------------------------------------------------------------------------
(***************************************************************************)
(* Images for TLC.  The first family varies the block addresses and the    *)
(* bitmap under a fixed tree, the second one varies the tree: inode types, *)
(* link counts, dot entries and what the directories list.                 *)
(***************************************************************************)
Entry(n, s) == [inum |-> n, name |-> s]
Dots(self, parent) == <<Entry(self, "."), Entry(parent, "..")>>

\* A root with a file and a device; blocks 2 and 9 are no data blocks.
AddressImages ==
  LET direct == {<<3, 3, 4>>, <<3, 4, 0>>, <<4, 5, 0>>} \cup ({3} \X {0, 2, 4, 8, 9} \X {0, 5})
      ind == {<<0, 0>>} \cup ({2, 3, 5, 6, 8, 9} \X {0, 2, 4, 6, 7, 9})
  IN  {[type |-> <<"T_DIR", "T_FILE", "T_DEV", "free">>, nlink |-> <<1, 1, 1, 0>>,
        direct |-> [n \in 1..4 |-> <<IF n = 4 THEN 0 ELSE d[n], 0>>],
        ind |-> <<0, x[1], 0, 0>>, indirect |-> <<<<0>>, <<x[2]>>, <<0>>, <<0>>>>,
        entries |-> <<Dots(1, 1) \o <<Entry(2, "f"), Entry(3, "g")>>, <<>>, <<>>, <<>>>>,
        bmap |-> 0..3 \cup m] : d \in direct, x \in ind, m \in SUBSET {4, 5, 6, 8}}

\* What inode n may be in the second family.
NodeKinds(n) ==
  LET Node(t, l, e) == [type |-> t, nlink |-> l, entries |-> e]
      Dir(dots, list) == Node("T_DIR", 1, dots \o [k \in 1..Len(list) |-> Entry(list[k], "f")])
  IN  CASE n = 2 -> {Node("free", 0, <<>>), Node("T_FILE", 2, <<>>)} \cup
             {Dir(dots, list) : dots \in {Dots(2, p) : p \in {1, 2, 3, 4}}
                                          \cup {Dots(3, 1), <<Entry(2, "."), Entry(2, ".")>>},
                                list \in {<<>>, <<3>>, <<4, 3>>}}
        [] n = 3 -> {Node("free", 0, <<>>), Node("T_FILE", 2, <<>>), Node("T_DEV", 1, <<>>)}
             \cup {Dir(Dots(3, p), list) : p \in {1, 2, 4}, list \in {<<>>, <<4>>}}
        [] n = 4 -> {Node("free", 0, <<>>), Node("T_FILE", 1, <<>>), Node("bad", 1, <<>>)}
             \cup {Dir(Dots(4, p), <<>>) : p \in {1, 2, 3}}
        [] OTHER -> {Node("T_DIR", 1, Dots(1, 1) \o list) :
                       list \in {<<>>, <<Entry(2, "lost_found")>>, <<Entry(2, "f")>>, <<Entry(3, "lost_found")>>,
                                 <<Entry(2, "lost_found"), Entry(3, "f")>>, <<Entry(2, "f"), Entry(2, "g")>>,
                                 <<Entry(2, "f"), Entry(3, "g"), Entry(4, "h")>>,
                                 <<Entry(2, "f"), Entry(3, "g"), Entry(4, "h"), Entry(4, "i")>>}}
             \cup {Node("T_DIR", 1, dots) : dots \in {Dots(1, 2), Dots(2, 1), <<>>,
                                                      <<Entry(1, ".."), Entry(1, "..")>>}}
             \cup {Node("T_FILE", 1, <<>>)}

TreeImages ==
  {[type |-> <<a.type, b.type, c.type, d.type>>, nlink |-> <<a.nlink, b.nlink, c.nlink, d.nlink>>,
    direct |-> [n \in 1..4 |-> <<n + 2, 0>>], ind |-> [n \in 1..4 |-> 0], indirect |-> [n \in 1..4 |-> <<0>>],
    entries |-> <<a.entries, b.entries, c.entries, d.entries>>,
    bmap |-> {0, 1, 2} \cup {n + 2 : n \in {n \in 1..4 : <<a, b, c, d>>[n].type # "free"}}] :
      a \in NodeKinds(1), b \in NodeKinds(2), c \in NodeKinds(3), d \in NodeKinds(4)}

\* Inode 0 is never used.
WithInode0(im) ==
  LET Add(f, v) == [n \in 0..4 |-> IF n = 0 THEN v ELSE f[n]]
  IN  [type |-> Add(im.type, "free"), nlink |-> Add(im.nlink, 0), direct |-> Add(im.direct, <<0, 0>>),
       ind |-> Add(im.ind, 0), indirect |-> Add(im.indirect, <<0>>), entries |-> Add(im.entries, <<>>),
       bmap |-> im.bmap]

MCImages(v) ==
  {WithInode0(im) : im \in TreeImages \cup (IF v = "xcheck" THEN AddressImages ELSE {})}
=============================================================================
