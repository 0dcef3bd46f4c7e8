---------------------------- MODULE ApproxCounter ----------------------------
(***************************************************************************)
(* 29/approximate_counter.c: a counter with a local count and a lock for   *)
(* every CPU, transferred to the global count when it reaches a threshold. *)
(* The threads of the program are mapped to CPUs by their identifier; all  *)
(* mappings are considered.  Labels are line numbers of the source; what a *)
(* thread does under its local lock is one step per line.                  *)
(***************************************************************************)
EXTENDS Integers, FiniteSets, Functions

CONSTANTS Threads,
          NUMCPUS,
          MaxThreshold,   \* bound on the threshold
          Loops           \* updates per thread (ONE_MILLION in the source)

VARIABLES pc, cpu, left,    \* thread t: statement, threadID % NUMCPUS, updates to go
          local, global, threshold,
          llock, glock      \* holders; Free when unlocked

vars == <<pc, cpu, left, local, global, threshold, llock, glock>>

Cpus == 0..(NUMCPUS - 1)
Free == "free"
amt == 1

Goto(t, from, to) == pc[t] = from /\ pc' = [pc EXCEPT ![t] = to]

\* init (lines 41-49) and main's choice of the threshold.
Init ==
  /\ pc = [t \in Threads |-> "56"]
  /\ cpu \in [Threads -> Cpus]
  /\ left = [t \in Threads |-> Loops]
  /\ local = [c \in Cpus |-> 0] /\ global = 0
  /\ threshold \in 1..MaxThreshold
  /\ llock = [c \in Cpus |-> Free] /\ glock = Free

\* Lines 56-58.
AddLocal(t) ==
  /\ UNCHANGED <<cpu, left, global, threshold, glock>>
  /\ \/ /\ Goto(t, "56", "57") /\ llock[cpu[t]] = Free
        /\ llock' = [llock EXCEPT ![cpu[t]] = t]
        /\ UNCHANGED local
     \/ /\ local' = [local EXCEPT ![cpu[t]] = @ + amt]
        /\ Goto(t, "57", IF local'[cpu[t]] >= threshold THEN "60" ELSE "65")
        /\ UNCHANGED llock

\* Without the global lock: the sum is read and written in two steps.
Transfer_Unlocked(t) ==
  /\ UNCHANGED <<cpu, left, threshold, llock, glock>>
  /\ \/ Goto(t, "60", "61") /\ UNCHANGED <<local, global>>
     \/ Goto(t, "61", "62") /\ local' = [local EXCEPT ![cpu[t]] = @ + global] /\ UNCHANGED global
     \/ Goto(t, "62", "63") /\ global' = local[cpu[t]] /\ UNCHANGED local
     \/ Goto(t, "63", "65") /\ local' = [local EXCEPT ![cpu[t]] = 0] /\ UNCHANGED global

\* Lines 60-63.
Transfer(t) ==
  /\ UNCHANGED <<cpu, left, threshold, llock>>
  /\ \/ Goto(t, "60", "61") /\ glock = Free /\ glock' = t /\ UNCHANGED <<local, global>>
     \/ /\ Goto(t, "61", "62") /\ global' = global + local[cpu[t]]
        /\ UNCHANGED <<local, glock>>
     \/ Goto(t, "62", "63") /\ glock' = Free /\ UNCHANGED <<local, global>>
     \/ /\ Goto(t, "63", "65") /\ local' = [local EXCEPT ![cpu[t]] = 0]
        /\ UNCHANGED <<global, glock>>

\* Line 65, and the loop of thread_function (lines 83-85).
Return(t) ==
  /\ Goto(t, "65", IF left[t] = 1 THEN "done" ELSE "56")
  /\ left' = [left EXCEPT ![t] = @ - 1]
  /\ llock' = [llock EXCEPT ![cpu[t]] = Free]
  /\ UNCHANGED <<cpu, local, global, threshold, glock>>

update(t) == AddLocal(t) \/ Transfer(t) \/ Return(t)

Next == \E t \in Threads : update(t)

Spec == Init /\ [][Next]_vars
-----------------------------------------------------------------------------
TypeOK ==
  /\ pc \in [Threads -> {"56", "57", "60", "61", "62", "63", "65", "done"}]
  /\ left \in [Threads -> 0..Loops]
  /\ local \in [Cpus -> 0..threshold]
  /\ global \in 0..(Cardinality(Threads) * Loops * amt)
  /\ llock \in [Cpus -> Threads \cup {Free}] /\ glock \in Threads \cup {Free}

\* The amounts that line 57 has added so far.
Added ==
  FoldFunction(+, 0, [t \in Threads |->
    amt * (Loops - left[t] + IF pc[t] \in {"60", "61", "62", "63", "65"} THEN 1 ELSE 0)])

\* The local counts that are not in the global count yet: a thread past line
\* 61 has transferred its own and not yet reset it.
Untransferred ==
  FoldFunction(+, 0, [c \in Cpus |->
    IF \E t \in Threads : pc[t] \in {"62", "63"} /\ cpu[t] = c THEN 0 ELSE local[c]])

\* No update is lost and none is counted twice, whatever threads share a CPU.
NothingLost == global + Untransferred = Added

\* "only approximate!" (line 73): once the threads are done, get is behind by
\* less than the threshold for every CPU, and never ahead.
ApproximationBound ==
  (\A t \in Threads : pc[t] = "done") =>
     Added - global \in 0..(NUMCPUS * (threshold - 1))

\* Every thread has made its updates, so main's joins return.
Quiet == \A t \in Threads : pc[t] = "done"
=============================================================================
