---------------------------- MODULE ReaderWriter ----------------------------
(***************************************************************************)
(* 31/reader-writer.c: the first reader in takes writelock for all of      *)
(* them, the last one out gives it back; readers is protected by lock.     *)
(* Labels are line numbers of the source.                                  *)
(***************************************************************************)
EXTENDS SemThreads, FiniteSets

CONSTANTS Readers, Writers

ASSUME ReadersWriters ==
  /\ IsFiniteSet(Readers)
  /\ Readers \cap Writers = {}

VARIABLE readers    \* rwlock_t.readers

vars == <<pc, sem, readers>>

Threads == Readers \cup Writers

Semaphores == {"lock", "writelock"}

ReaderLabels == {"29", "30", "32", "33", "reading", "37", "38", "40", "41"}
WriterLabels == {"44", "writing", "46"}

\* rwlock_init
Init ==
  /\ pc = [t \in Threads |-> IF t \in Readers THEN "29" ELSE "44"]
  /\ sem = [s \in Semaphores |-> 1]
  /\ readers = 0

\* A first reader that does not take writelock.
acquire_readlock_NoWritelock(r) ==
  \/ WaitStep(r, "29", "lock", "30") /\ UNCHANGED readers
  \/ LocalStep(r, "30", "33") /\ readers' = readers + 1
  \/ PostStep(r, "33", "lock", "reading") /\ UNCHANGED readers

\* Lines 28-34; the increment and its test are one step, under lock.
rwlock_acquire_readlock(r) ==
  \/ WaitStep(r, "29", "lock", "30") /\ UNCHANGED readers
  \/ /\ LocalStep(r, "30", IF readers + 1 = 1 THEN "32" ELSE "33")
     /\ readers' = readers + 1
  \/ WaitStep(r, "32", "writelock", "33") /\ UNCHANGED readers
  \/ PostStep(r, "33", "lock", "reading") /\ UNCHANGED readers

release_readlock_AlwaysPosts(r) ==
  \/ WaitStep(r, "37", "lock", "38") /\ UNCHANGED readers
  \/ LocalStep(r, "38", "40") /\ readers' = readers - 1
  \/ PostStep(r, "40", "writelock", "41") /\ UNCHANGED readers
  \/ PostStep(r, "41", "lock", "29") /\ UNCHANGED readers

\* Lines 36-42.
rwlock_release_readlock(r) ==
  \/ WaitStep(r, "37", "lock", "38") /\ UNCHANGED readers
  \/ /\ LocalStep(r, "38", IF readers - 1 = 0 THEN "40" ELSE "41")
     /\ readers' = readers - 1
  \/ PostStep(r, "40", "writelock", "41") /\ UNCHANGED readers
  \/ PostStep(r, "41", "lock", "29") /\ UNCHANGED readers

\* The loop body of reader(): between the calls it reads value, and sleeps.
Reader(r) ==
  \/ rwlock_acquire_readlock(r)
  \/ LocalStep(r, "reading", "37") /\ UNCHANGED readers
  \/ rwlock_release_readlock(r)

\* The loop body of writer(): lines 44 and 46 around value++.
Writer(w) ==
  /\ \/ WaitStep(w, "44", "writelock", "writing")
     \/ LocalStep(w, "writing", "46")
     \/ PostStep(w, "46", "writelock", "44")
  /\ UNCHANGED readers

Next == (\E r \in Readers : Reader(r)) \/ (\E w \in Writers : Writer(w))

Spec == Init /\ [][Next]_vars
-----------------------------------------------------------------------------
TypeOK ==
  /\ pc \in [Threads -> ReaderLabels \cup WriterLabels]
  /\ sem \in [Semaphores -> 0..1]
  /\ readers \in Nat

\* The readers that are counted.
Counted == {r \in Readers : pc[r] \in {"32", "33", "reading", "37", "38"}}

\* The count that decides who takes and who gives back writelock is exact.
ReadersExact == readers = Cardinality(Counted)

\* README Q4: "a writer cannot enter the critical section while any other
\* thread (reader or writer) is there".
WriterAlone ==
  \A w \in Writers : pc[w] = "writing" =>
    \A t \in Threads : pc[t] \in {"reading", "writing"} => t = w

\* The lock as seen by reader() and writer() implements the abstract one.
insideBar == {t \in Threads : pc[t] \in {"reading", "writing"}}
Abstract == INSTANCE RWLock WITH inside <- insideBar
ImplementsRWLock == Abstract!SafeSpec
=============================================================================
