-------------------------------- MODULE BTree --------------------------------
(***************************************************************************)
(* 29/btree.c: a B-tree with one lock.  The threads call put with the lock *)
(* held, so put is one action.  A node is the sequence of the entries      *)
(* children[0..m-1]; an entry has a key, a value and, in an internal node, *)
(* the subtree.  Keys are numbers in the order of strcmp, 0 is "".         *)
(***************************************************************************)
EXTENDS Integers, Sequences, SequencesExt, FiniteSets

CONSTANTS M,          \* most children of a node plus one, 4 in the source
          Keys, Vals,
          MaxPuts     \* bound on the calls of put

VARIABLES root, height, n,
          count           \* count[k]: how often key k was put

vars == <<root, height, n, count>>

NULL == <<>>
NoVal == "none"

initEntry(key, val, next) == [key |-> key, val |-> val, next |-> next]

\* Lines 473-484.
split(h) == [left |-> SubSeq(h, 1, M \div 2), right |-> SubSeq(h, M \div 2 + 1, M)]

\* Lines 391-394 and 399-405: the first j >= from such that the key is less than
\* that of children[j], or m.
Position(h, key, from) ==
  LET less == {j \in from..(Len(h) - 1) : key < h[j + 1].key}
  IN  IF less = {} THEN Len(h) ELSE CHOOSE j \in less : \A i \in less : j <= i

\* Lines 457-470: the entry t goes to children[j], and a full node is split.
Place(h, j, t, mod) ==
  LET grown == InsertAt(h, j + 1, t)
      halves == split(grown)
  IN  IF Len(grown) < M THEN [node |-> grown, ret_node |-> NULL, mod_parent |-> mod]
      ELSE [node |-> halves.left, ret_node |-> halves.right, mod_parent |-> mod]

\* Lines 372-395.
InsertLeaf(h, key, val) ==
  LET first == Len(h) > 0 /\ key # 0 /\ key < h[1].key
      j == IF Len(h) = 0 \/ first THEN 0 ELSE Position(h, key, 1)
  IN  Place(h, j, initEntry(key, val, NULL), first)

\* Lines 418-437: u is the result for children[j]; the key of the new entry is
\* that of the last entry of the new node.
Absorb_LastKey(h, j, key, u) ==
  LET down == [h EXCEPT ![j + 1] = initEntry(IF u.mod_parent THEN key ELSE @.key, @.val, u.node)]
  IN  IF u.ret_node = NULL THEN [node |-> down, ret_node |-> NULL, mod_parent |-> u.mod_parent]
      ELSE Place(down, j + 1, initEntry(Last(u.ret_node).key, NoVal, u.ret_node), FALSE)

\* Lines 418-437: u is the result for children[j]; a new node becomes
\* children[j + 1], and mod_parent is not passed on.
Absorb(h, j, key, u) ==
  LET down == [h EXCEPT ![j + 1] = initEntry(IF u.mod_parent THEN key ELSE @.key, @.val, u.node)]
  IN  IF u.ret_node = NULL THEN [node |-> down, ret_node |-> NULL, mod_parent |-> u.mod_parent]
      ELSE Place(down, j + 1, initEntry(u.ret_node[1].key, NoVal, u.ret_node), FALSE)

\* Lines 363-470.
RECURSIVE insert(_, _, _, _)
insert(h, key, val, ht) ==
  IF ht = 0 THEN InsertLeaf(h, key, val)
  ELSE LET j == Position(h, key, 1) - 1
       IN  Absorb(h, j, key, insert(h[j + 1].next, key, val, ht - 1))

\* Lines 196-223; NoVal stands for the result NULL.
RECURSIVE search(_, _, _)
search(x, key, ht) ==
  IF ht = 0 THEN
    LET found == {j \in DOMAIN x : x[j].key = key}
    IN  IF found = {} THEN NoVal ELSE x[CHOOSE j \in found : \A i \in found : j <= i].val
  ELSE search(x[Position(x, key, 1)].next, key, ht - 1)

\* initBtree (lines 161-170).
Init ==
  /\ root = NULL /\ height = 0 /\ n = 0
  /\ count = [k \in Keys |-> 0]

\* Lines 294-361.
put(key, val) ==
  LET u == insert(root, key, val, height)
      r == IF u.mod_parent THEN [u.node EXCEPT ![1].key = key] ELSE u.node
  IN  /\ n < MaxPuts
      /\ n' = n + 1
      /\ IF u.ret_node = NULL THEN root' = r /\ height' = height
         ELSE /\ root' = << initEntry(r[1].key, NoVal, r),
                            initEntry(u.ret_node[1].key, NoVal, u.ret_node) >>
              /\ height' = height + 1
      /\ count' = [count EXCEPT ![key] = @ + 1]

Next == \E key \in Keys, val \in Vals : put(key, val)

Spec == Init /\ [][Next]_vars
-----------------------------------------------------------------------------
\* The keys of the leaves below a node, from left to right.
RECURSIVE LeafKeys(_)
LeafKeys(h) ==
  FlattenSeq([j \in DOMAIN h |-> IF h[j].next = NULL THEN <<h[j].key>> ELSE LeafKeys(h[j].next)])

\* The nodes below and including h whose leaves are ht levels down.
RECURSIVE NodesOf(_, _)
NodesOf(h, ht) ==
  {[node |-> h, ht |-> ht]} \cup
  UNION {NodesOf(h[j].next, ht - 1) : j \in {i \in DOMAIN h : h[i].next # NULL}}

\* Every leaf is `height' levels below the root, and every node but the root is
\* at least half full: what insert and split rely on ("Here `h->m < M` always
\* holds", line 451).
Balanced ==
  \A x \in NodesOf(root, height) :
    /\ Len(x.node) < M /\ (x.node # root => Len(x.node) >= M \div 2)
    /\ \A j \in DOMAIN x.node : (x.node[j].next = NULL) <=> x.ht = 0

\* The leaves hold every key as often as it was put, n in all, in order.
LeavesInOrder ==
  LET keys == LeafKeys(root) IN
  /\ \A i \in 1..(Len(keys) - 1) : keys[i] <= keys[i + 1]
  /\ \A k \in Keys : Cardinality({i \in DOMAIN keys : keys[i] = k}) = count[k]
  /\ Len(keys) = n

\* search finds exactly the keys that were put, duplicates and stale first keys
\* of internal nodes notwithstanding.
SearchFinds == \A k \in Keys : (search(root, k, height) # NoVal) <=> count[k] > 0

=============================================================================
