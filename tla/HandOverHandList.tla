--------------------------- MODULE HandOverHandList ---------------------------
(***************************************************************************)
(* 29/hand-over-hand-locking-list.c: a list with a lock in every node.     *)
(* List_Lookup holds the lock of one node while it takes the lock of the   *)
(* next; List_Insert has a lock of its own and takes none of the nodes'.   *)
(* Any thread may insert and look up at any time.  Nodes are numbers, 0 is *)
(* NULL; labels are line numbers of the source.                            *)
(***************************************************************************)
EXTENDS Integers

CONSTANTS Threads, Keys,
          MaxNodes      \* bound on the nodes that malloc returns

VARIABLES pc, arg,          \* thread t: statement, the argument key
          new, curr, temp, rv,   \* thread t: locals; temp is the node of tempLock
          head, insert_lock,
          key, next, lock,  \* the nodes
          used              \* nodes allocated so far

heap == <<head, key, next>>
vars == <<pc, arg, new, curr, temp, rv, insert_lock, lock, heap, used>>

Nodes == 1..MaxNodes
NULL == 0
Free == "free"

Goto(t, from, to) == pc[t] = from /\ pc' = [pc EXCEPT ![t] = to]

\* List_Init (lines 21-24).
Init ==
  /\ pc = [t \in Threads |-> "idle"]
  /\ arg = [t \in Threads |-> CHOOSE k \in Keys : TRUE]
  /\ new = [t \in Threads |-> NULL] /\ curr = new /\ temp = new
  /\ rv = [t \in Threads |-> -1]
  /\ head = NULL /\ insert_lock = Free
  /\ key = [n \in Nodes |-> CHOOSE k \in Keys : TRUE]
  /\ next = [n \in Nodes |-> NULL] /\ lock = [n \in Nodes |-> Free]
  /\ used = 0

\* A thread calls one of the two operations; the node of List_Insert is
\* allocated and filled in at once (lines 27-32), nobody else can see it.
Call(t) ==
  \E k \in Keys :
    /\ arg' = [arg EXCEPT ![t] = k]
    /\ \/ /\ Goto(t, "idle", "35") /\ used < MaxNodes
          /\ used' = used + 1
          /\ new' = [new EXCEPT ![t] = used + 1]
          /\ key' = [key EXCEPT ![used + 1] = k]
       \/ Goto(t, "idle", "43") /\ UNCHANGED <<used, new, key>>
    /\ UNCHANGED <<rv, curr, temp, head, insert_lock, next, lock>>

\* The head is moved before the new node points to the rest.
List_Insert_HeadFirst(t) ==
  /\ \/ Goto(t, "35", "36") /\ insert_lock = Free /\ insert_lock' = t /\ UNCHANGED <<head, next, new>>
     \/ /\ Goto(t, "36", "37") /\ next' = [next EXCEPT ![new[t]] = NULL] /\ head' = new[t]
        /\ new' = [new EXCEPT ![t] = head] /\ UNCHANGED insert_lock
     \/ /\ Goto(t, "37", "38") /\ next' = [next EXCEPT ![head] = new[t]]
        /\ UNCHANGED <<head, insert_lock, new>>
     \/ Goto(t, "38", "idle") /\ insert_lock' = Free /\ UNCHANGED <<head, next, new>>
  /\ UNCHANGED <<arg, curr, temp, rv, key, lock, used>>

\* Lines 35-38.
List_Insert(t) ==
  /\ \/ /\ Goto(t, "35", "36") /\ insert_lock = Free /\ insert_lock' = t
        /\ UNCHANGED <<head, next, new>>
     \/ /\ Goto(t, "36", "37") /\ next' = [next EXCEPT ![new[t]] = head]
        /\ UNCHANGED <<head, insert_lock, new>>
     \/ Goto(t, "37", "38") /\ head' = new[t] /\ UNCHANGED <<next, insert_lock, new>>
     \/ /\ Goto(t, "38", "idle") /\ insert_lock' = Free
        /\ new' = [new EXCEPT ![t] = NULL] /\ UNCHANGED <<head, next>>
  /\ UNCHANGED <<arg, curr, temp, rv, key, lock, used>>

\* Lines 57-61: the lock of the next node, if there is one, is taken before
\* that of this node is released.
Advance(t) ==
  /\ \/ /\ pc[t] = "57"
        /\ temp' = [temp EXCEPT ![t] = curr[t]]
        /\ curr' = [curr EXCEPT ![t] = next[curr[t]]]
        /\ Goto(t, "57", IF curr'[t] = NULL THEN "61" ELSE "60")
        /\ UNCHANGED lock
     \/ /\ Goto(t, "60", "61") /\ lock[curr[t]] = Free
        /\ lock' = [lock EXCEPT ![curr[t]] = t]
        /\ UNCHANGED <<curr, temp>>
     \/ /\ Goto(t, "61", IF curr[t] = NULL THEN "63" ELSE "48")
        /\ lock' = [lock EXCEPT ![temp[t]] = Free]
        /\ UNCHANGED <<curr, temp>>
  /\ UNCHANGED rv

\* Lines 43-56 and Advance; List_Print (lines 66-79) is the same walk to the end.
List_Lookup(t) ==
  /\ \/ /\ Goto(t, "43", IF head = NULL THEN "63" ELSE "46")
        /\ curr' = [curr EXCEPT ![t] = head]
        /\ UNCHANGED <<temp, rv, lock>>
     \/ /\ Goto(t, "46", "48") /\ lock[curr[t]] = Free
        /\ lock' = [lock EXCEPT ![curr[t]] = t]
        /\ UNCHANGED <<curr, temp, rv>>
     \/ /\ Goto(t, "48", IF key[curr[t]] = arg[t] THEN "54" ELSE "57")
        /\ rv' = [rv EXCEPT ![t] = IF key[curr[t]] = arg[t] THEN 0 ELSE @]
        /\ UNCHANGED <<curr, temp, lock>>
     \/ /\ Goto(t, "54", "63")
        /\ lock' = [lock EXCEPT ![curr[t]] = Free]
        /\ UNCHANGED <<curr, temp, rv>>
     \/ Advance(t)
     \/ /\ Goto(t, "63", "idle")
        /\ curr' = [curr EXCEPT ![t] = NULL] /\ temp' = [temp EXCEPT ![t] = NULL]
        /\ rv' = [rv EXCEPT ![t] = -1]
        /\ UNCHANGED lock
  /\ UNCHANGED <<arg, new, head, insert_lock, key, next, used>>

Next == \E t \in Threads : Call(t) \/ List_Insert(t) \/ List_Lookup(t)

Spec == Init /\ [][Next]_vars
-----------------------------------------------------------------------------
Walking(t) == pc[t] \in {"46", "48", "54", "57", "60", "61", "63"}

\* The keys of the list that starts at node n.
KeysFrom(n) ==
  LET keys[m \in Nodes \cup {NULL}] == IF m = NULL THEN {} ELSE {key[m]} \cup keys[next[m]]
  IN  keys[n]

TypeOK ==
  /\ pc \in [Threads -> {"idle", "35", "36", "37", "38", "43", "46", "48", "54", "57", "60", "61", "63"}]
  /\ head \in Nodes \cup {NULL} /\ next \in [Nodes -> Nodes \cup {NULL}]
  /\ insert_lock \in Threads \cup {Free} /\ lock \in [Nodes -> Threads \cup {Free}]
  /\ \A t \in Threads : Walking(t) => curr[t] \in Nodes \/ pc[t] \in {"61", "63"}

\* What a walk will return: it is settled when line 43 reads the head, since
\* nodes in the list do not change.
Outcome(t) ==
  LET ahead == IF pc[t] = "57" THEN next[curr[t]] ELSE IF pc[t] = "63" THEN NULL ELSE curr[t]
  IN  IF rv[t] = 0 \/ arg[t] \in KeysFrom(ahead) THEN "found" ELSE "absent"

Abs == INSTANCE KeySet WITH
  MayFail <- FALSE,
  set <- KeysFrom(head),
  phase <- [t \in Threads |-> IF pc[t] \in {"35", "36", "37"} THEN "insert"
                              ELSE IF pc[t] = "43" THEN "lookup"
                              ELSE IF Walking(t) THEN Outcome(t) ELSE "idle"]

\* The list behaves like a set whose operations take effect at once, although a
\* lookup reads the head without a lock: inserts at line 37, lookups at line 43.
IsKeySet == Abs!Spec

\* A step at which no call is made, and a state without a call in progress.
NoCall == \A t \in Threads : pc[t] = "idle" => pc'[t] = "idle"
Quiet == \A t \in Threads : pc[t] = "idle"
=============================================================================
