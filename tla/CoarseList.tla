------------------------------ MODULE CoarseList ------------------------------
(***************************************************************************)
(* 29/concurrent-linked-list.c: a list with one lock.  Any thread may      *)
(* insert and look up at any time.  Nodes are numbers, 0 is NULL; labels   *)
(* are line numbers of the source.                                         *)
(***************************************************************************)
EXTENDS Integers

CONSTANTS Threads, Keys,
          MaxNodes      \* bound on the nodes that malloc returns; it then fails

VARIABLES pc, arg,          \* thread t: statement, the argument key
          new, curr, rv,    \* thread t: locals
          head, lock,
          key, next,        \* the nodes
          used              \* nodes allocated so far

locals == <<new, curr, rv>>
vars == <<pc, arg, locals, head, lock, key, next, used>>

Nodes == 1..MaxNodes
NULL == 0
Free == "free"
SomeKey == CHOOSE k \in Keys : TRUE

Goto(t, from, to) == pc[t] = from /\ pc' = [pc EXCEPT ![t] = to]

\* List_Init (lines 20-23).
Init ==
  /\ pc = [t \in Threads |-> "idle"] /\ arg = [t \in Threads |-> SomeKey]
  /\ new = [t \in Threads |-> NULL] /\ curr = new
  /\ rv = [t \in Threads |-> -1]
  /\ head = NULL /\ lock = Free
  /\ key = [n \in Nodes |-> SomeKey] /\ next = [n \in Nodes |-> NULL]
  /\ used = 0

Call(t) ==
  /\ \E op \in {"27", "43"} : Goto(t, "idle", op)
  /\ \E k \in Keys : arg' = [arg EXCEPT ![t] = k]
  /\ UNCHANGED <<locals, head, lock, key, next, used>>

Acquire(t, from, to) == Goto(t, from, to) /\ lock = Free /\ lock' = t
Release(t, from, to) == Goto(t, from, to) /\ lock' = Free

\* Lines 25-39; without memory the insert is given up (lines 28-31).
List_Insert(t) ==
  /\ UNCHANGED <<arg, curr, rv>>
  /\ \/ /\ Goto(t, "27", "35") /\ used < MaxNodes
        /\ used' = used + 1
        /\ new' = [new EXCEPT ![t] = used + 1]
        /\ key' = [key EXCEPT ![used + 1] = arg[t]]
        /\ UNCHANGED <<next, head, lock>>
     \/ Goto(t, "27", "idle") /\ used = MaxNodes /\ UNCHANGED <<new, key, next, head, lock, used>>
     \/ Acquire(t, "35", "36") /\ UNCHANGED <<new, key, next, head, used>>
     \/ /\ Goto(t, "36", "37") /\ next' = [next EXCEPT ![new[t]] = head]
        /\ UNCHANGED <<new, key, head, lock, used>>
     \/ Goto(t, "37", "38") /\ head' = new[t] /\ UNCHANGED <<new, key, next, lock, used>>
     \/ /\ Release(t, "38", "idle") /\ new' = [new EXCEPT ![t] = NULL]
        /\ UNCHANGED <<key, next, head, used>>

\* Lines 41-54; List_Print (lines 56-64) is the same walk without a key.
List_Lookup(t) ==
  /\ UNCHANGED <<arg, new, head, key, next, used>>
  /\ \/ Acquire(t, "43", "44") /\ UNCHANGED <<curr, rv>>
     \/ Goto(t, "44", "45") /\ curr' = [curr EXCEPT ![t] = head] /\ UNCHANGED <<rv, lock>>
     \/ /\ curr[t] # NULL /\ key[curr[t]] = arg[t] /\ Goto(t, "45", "52")
        /\ rv' = [rv EXCEPT ![t] = 0] /\ UNCHANGED <<curr, lock>>
     \/ /\ curr[t] # NULL /\ key[curr[t]] # arg[t] /\ Goto(t, "45", "45")
        /\ curr' = [curr EXCEPT ![t] = next[curr[t]]] /\ UNCHANGED <<rv, lock>>
     \/ curr[t] = NULL /\ Goto(t, "45", "52") /\ UNCHANGED <<curr, rv, lock>>
     \/ Release(t, "52", "53") /\ UNCHANGED <<curr, rv>>
     \/ /\ Goto(t, "53", "idle")
        /\ curr' = [curr EXCEPT ![t] = NULL] /\ rv' = [rv EXCEPT ![t] = -1] /\ UNCHANGED lock

Next == \E t \in Threads : Call(t) \/ List_Insert(t) \/ List_Lookup(t)

Spec == Init /\ [][Next]_vars
-----------------------------------------------------------------------------
TypeOK ==
  /\ pc \in [Threads -> {"idle", "27", "35", "36", "37", "38", "43", "44", "45", "52", "53"}]
  /\ head \in Nodes \cup {NULL} /\ next \in [Nodes -> Nodes \cup {NULL}]
  /\ lock \in Threads \cup {Free} /\ curr \in [Threads -> Nodes \cup {NULL}]
  /\ \A t \in Threads : pc[t] \in {"35", "36", "37"} => new[t] \in Nodes

Walking(t) == pc[t] \in {"45", "52", "53"}

KeysFrom(n) ==
  LET keys[m \in Nodes \cup {NULL}] == IF m = NULL THEN {} ELSE {key[m]} \cup keys[next[m]]
  IN  keys[n]

Outcome(t) ==
  IF rv[t] = 0 \/ (pc[t] = "45" /\ arg[t] \in KeysFrom(curr[t])) THEN "found" ELSE "absent"

Abs == INSTANCE KeySet WITH
  MayFail <- TRUE,
  set <- KeysFrom(head),
  phase <- [t \in Threads |-> IF pc[t] \in {"27", "35", "36", "37"} THEN "insert"
                              ELSE IF pc[t] \in {"43", "44"} THEN "lookup"
                              ELSE IF Walking(t) THEN Outcome(t) ELSE "idle"]

\* The list behaves like a set whose operations take effect at once (lines 37
\* and 44), except that an insert may be given up for want of memory.
IsKeySet == Abs!Spec

\* A step at which no call is made, and a state without a call in progress.
NoCall == \A t \in Threads : pc[t] = "idle" => pc'[t] = "idle"
Quiet == \A t \in Threads : pc[t] = "idle"
=============================================================================
