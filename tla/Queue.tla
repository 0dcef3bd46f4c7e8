-------------------------------- MODULE Queue --------------------------------
(***************************************************************************)
(* 29/concurrent_queue.c: the two-lock queue.  The head points to a dummy  *)
(* node.  Line 49 moves past the node that line 44 found, so a dequeue     *)
(* removes two nodes and frees one.  Any number of threads call the        *)
(* operations; one of them prints, which also frees the nodes, when the    *)
(* others are done.  Nodes are numbers, 0 is NULL; malloc may return a     *)
(* freed node.  Labels are line numbers of the source.                     *)
(***************************************************************************)
EXTENDS Integers, FiniteSets

CONSTANTS Threads,
          MaxNodes,       \* bound on the nodes in use
          MaxEnqueued     \* bound on the calls of Queue_Enqueue

VARIABLES pc, tmp, newHead,       \* thread t: statement, locals
          head, tail, headLock, tailLock,
          next, live,             \* the nodes, and those allocated and not freed
          linked, taken           \* values linked in at line 36, and taken out at line 50

vars == <<pc, tmp, newHead, head, tail, headLock, tailLock, next, live, linked, taken>>

Nodes == 1..MaxNodes
NULL == 0
Free == "free"

Goto(t, from, to) == pc[t] = from /\ pc' = [pc EXCEPT ![t] = to]

\* Queue_Init (lines 18-26).
Init ==
  /\ pc = [t \in Threads |-> "idle"]
  /\ tmp = [t \in Threads |-> NULL] /\ newHead = tmp
  /\ head = 1 /\ tail = 1 /\ headLock = Free /\ tailLock = Free
  /\ next = [n \in Nodes |-> NULL] /\ live = {1}
  /\ linked = 0 /\ taken = 0

Call(t) ==
  /\ Goto(t, "idle", "42")
  /\ UNCHANGED <<tmp, newHead, head, tail, headLock, tailLock, next, live, linked, taken>>

\* Lines 28-39.
Queue_Enqueue(t) ==
  /\ UNCHANGED <<newHead, head, headLock, taken>>
  /\ \/ /\ Goto(t, "idle", "35")
        /\ linked + Cardinality({u \in Threads : pc[u] \in {"35", "36"}}) < MaxEnqueued
        /\ \E n \in Nodes \ live :
             /\ tmp' = [tmp EXCEPT ![t] = n] /\ live' = live \cup {n}
             /\ next' = [next EXCEPT ![n] = NULL]
        /\ UNCHANGED <<tail, tailLock, linked>>
     \/ /\ Goto(t, "35", "36") /\ tailLock = Free /\ tailLock' = t
        /\ UNCHANGED <<tmp, tail, next, live, linked>>
     \/ /\ Goto(t, "36", "37") /\ next' = [next EXCEPT ![tail] = tmp[t]] /\ linked' = linked + 1
        /\ UNCHANGED <<tmp, tail, tailLock, live>>
     \/ Goto(t, "37", "38") /\ tail' = tmp[t] /\ UNCHANGED <<tmp, tailLock, next, live, linked>>
     \/ /\ Goto(t, "38", "idle") /\ tailLock' = Free /\ tmp' = [tmp EXCEPT ![t] = NULL]
        /\ UNCHANGED <<tail, next, live, linked>>

\* Lines 41-54.  The process dies at line 44 when the head is NULL.
Queue_Dequeue(t) ==
  /\ UNCHANGED <<tail, tailLock, next, linked>>
  /\ \/ /\ Goto(t, "42", "43") /\ headLock = Free /\ headLock' = t
        /\ UNCHANGED <<tmp, newHead, head, live, taken>>
     \/ /\ Goto(t, "43", "44") /\ tmp' = [tmp EXCEPT ![t] = head]
        /\ UNCHANGED <<newHead, head, headLock, live, taken>>
     \/ /\ pc[t] = "44" /\ tmp[t] = NULL /\ pc' = [u \in Threads |-> "dead"]
        /\ UNCHANGED <<tmp, newHead, head, headLock, live, taken>>
     \/ /\ tmp[t] # NULL /\ newHead' = [newHead EXCEPT ![t] = next[tmp[t]]]
        /\ Goto(t, "44", IF newHead'[t] = NULL THEN "46" ELSE "49")
        /\ UNCHANGED <<tmp, head, headLock, live, taken>>
     \/ /\ Goto(t, "46", "idle") /\ headLock' = Free /\ tmp' = [tmp EXCEPT ![t] = NULL]
        /\ UNCHANGED <<newHead, head, live, taken>>
     \/ /\ Goto(t, "49", "50") /\ newHead' = [newHead EXCEPT ![t] = next[@]]
        /\ UNCHANGED <<tmp, head, headLock, live, taken>>
     \/ /\ Goto(t, "50", "51") /\ head' = newHead[t] /\ taken' = taken + 1
        /\ newHead' = [newHead EXCEPT ![t] = NULL] /\ UNCHANGED <<tmp, headLock, live>>
     \/ /\ Goto(t, "51", "52") /\ headLock' = Free
        /\ UNCHANGED <<tmp, newHead, head, live, taken>>
     \/ /\ Goto(t, "52", "idle") /\ live' = live \ {tmp[t]} /\ tmp' = [tmp EXCEPT ![t] = NULL]
        /\ UNCHANGED <<newHead, head, headLock, taken>>

\* The nodes from n on.
Chain(n) ==
  LET from[m \in Nodes \cup {NULL}] == IF m = NULL THEN {} ELSE {m} \cup from[next[m]]
  IN  from[n]

\* Lines 56-68, called when the other threads are done; main ends after it.
Queue_Print ==
  /\ \A t \in Threads : pc[t] = "idle"
  /\ live' = live \ Chain(head)
  /\ pc' = [t \in Threads |-> "end"]
  /\ UNCHANGED <<tmp, newHead, head, tail, headLock, tailLock, next, linked, taken>>

Next == Queue_Print \/ \E t \in Threads : Call(t) \/ Queue_Enqueue(t) \/ Queue_Dequeue(t)

Spec == Init /\ [][Next]_vars
-----------------------------------------------------------------------------
TypeOK ==
  /\ pc \in [Threads -> {"idle", "35", "36", "37", "38", "42", "43", "44", "46", "49", "50", "51",
                         "52", "dead", "end"}]
  /\ head \in Nodes \cup {NULL} /\ tail \in Nodes
  /\ headLock \in Threads \cup {Free} /\ tailLock \in Threads \cup {Free}
  /\ next \in [Nodes -> Nodes \cup {NULL}] /\ live \subseteq Nodes
  /\ tmp \in [Threads -> Nodes \cup {NULL}] /\ newHead \in [Threads -> Nodes \cup {NULL}]
  /\ linked \in 0..MaxEnqueued /\ taken \in Nat

\* No thread reads, writes or frees a node that was freed, although the two ends
\* have a lock each and line 52 frees outside both: the node whose next line 36
\* writes, the nodes lines 44 and 49 read, the node line 52 frees and the
\* nodes line 63 walks are allocated when they are used.
NoUseAfterFree ==
  \A t \in Threads :
    /\ pc[t] = "36" => tail \in live
    /\ pc[t] \in {"44", "52"} => tmp[t] \in live \cup {NULL}
    /\ pc[t] = "49" => newHead[t] \in live
    /\ pc[t] = "idle" => Chain(head) \subseteq live

\* A step at which no call is made, and a state without a call in progress
\* (or the process has ended).
NoCall == \A t \in Threads : pc[t] = "idle" => pc'[t] # "35" /\ pc'[t] # "42"
Quiet == \A t \in Threads : pc[t] \in {"idle", "dead", "end"}

\* "queue was empty" (line 47): a dequeue that returns -1 found as many values
\* taken out as were linked in.
EmptyMeansEmpty ==
  [][\A t \in Threads : pc[t] = "44" /\ pc'[t] = "46" => linked = taken]_vars
=============================================================================
