------------------------ MODULE ReaderWriterNoStarve ------------------------
(***************************************************************************)
(* 31/reader-writer-nostarve.c: the reader-writer lock with a third        *)
(* semaphore, readlock, that a writer holds while it waits and writes, and *)
(* that every reader passes through on its way in.  Labels are line        *)
(* numbers of the source.                                                  *)
(***************************************************************************)
EXTENDS SemThreads, FiniteSets

CONSTANTS Readers, Writers

VARIABLE readers    \* rwlock_t.readers

vars == <<pc, sem, readers>>

Threads == Readers \cup Writers

Semaphores == {"lock", "writelock", "readlock"}

\* rwlock_init
Init ==
  /\ pc = [t \in Threads |-> IF t \in Readers THEN "33" ELSE "55"]
  /\ sem = [s \in Semaphores |-> 1]
  /\ readers = 0

\* A reader that does not pass through readlock: the plain lock.
acquire_readlock_NoReadlock(r) ==
  \/ LocalStep(r, "33", "35") /\ UNCHANGED readers
  \/ WaitStep(r, "35", "lock", "36") /\ UNCHANGED readers
  \/ /\ LocalStep(r, "36", IF readers + 1 = 1 THEN "38" ELSE "39")
     /\ readers' = readers + 1
  \/ WaitStep(r, "38", "writelock", "39") /\ UNCHANGED readers
  \/ PostStep(r, "39", "lock", "reading") /\ UNCHANGED readers

\* Lines 28-40: through readlock, then as in the plain lock.
rwlock_acquire_readlock(r) ==
  \/ WaitStep(r, "33", "readlock", "34") /\ UNCHANGED readers
  \/ PostStep(r, "34", "readlock", "35") /\ UNCHANGED readers
  \/ WaitStep(r, "35", "lock", "36") /\ UNCHANGED readers
  \/ /\ LocalStep(r, "36", IF readers + 1 = 1 THEN "38" ELSE "39")
     /\ readers' = readers + 1
  \/ WaitStep(r, "38", "writelock", "39") /\ UNCHANGED readers
  \/ PostStep(r, "39", "lock", "reading") /\ UNCHANGED readers

\* Lines 42-48.
rwlock_release_readlock(r) ==
  \/ WaitStep(r, "43", "lock", "44") /\ UNCHANGED readers
  \/ /\ LocalStep(r, "44", IF readers - 1 = 0 THEN "46" ELSE "47")
     /\ readers' = readers - 1
  \/ PostStep(r, "46", "writelock", "47") /\ UNCHANGED readers
  \/ PostStep(r, "47", "lock", "33") /\ UNCHANGED readers

\* The loop body of reader().
Reader(r) ==
  \/ rwlock_acquire_readlock(r)
  \/ LocalStep(r, "reading", "43") /\ UNCHANGED readers
  \/ rwlock_release_readlock(r)

\* Lines 50-57.
rwlock_acquire_writelock(w) ==
  \/ WaitStep(w, "55", "readlock", "56")
  \/ WaitStep(w, "56", "writelock", "writing")

\* Lines 59-62.
rwlock_release_writelock(w) ==
  \/ PostStep(w, "60", "writelock", "61")
  \/ PostStep(w, "61", "readlock", "55")

\* The loop body of writer().
Writer(w) ==
  /\ \/ rwlock_acquire_writelock(w)
     \/ LocalStep(w, "writing", "60")
     \/ rwlock_release_writelock(w)
  /\ UNCHANGED readers

Next == (\E r \in Readers : Reader(r)) \/ (\E w \in Writers : Writer(w))

Spec == Init /\ [][Next]_vars
-----------------------------------------------------------------------------
TypeOK ==
  /\ pc \in [Threads -> {"33", "34", "35", "36", "38", "39", "reading", "43",
                         "44", "46", "47", "55", "56", "writing", "60", "61"}]
  /\ sem \in [Semaphores -> 0..1]
  /\ readers \in 0..Cardinality(Readers)

\* The lock as seen by reader() and writer().
insideBar == {t \in Threads : pc[t] \in {"reading", "writing"}}
Abstract == INSTANCE RWLock WITH inside <- insideBar
=============================================================================
