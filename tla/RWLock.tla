------------------------------- MODULE RWLock -------------------------------
(***************************************************************************)
(* What a reader-writer lock promises: any number of readers, or one       *)
(* writer.  SafeSpec is the exclusion, Progress that every reader and      *)
(* every writer enters again and again.  Without readers it is a mutex.    *)
(***************************************************************************)
CONSTANTS Readers, Writers

VARIABLE inside   \* the readers and writers that hold the lock

Init == inside = {}

StartRead(r) ==
  /\ r \notin inside
  /\ inside \subseteq Readers
  /\ inside' = inside \cup {r}

StartWrite(w) ==
  /\ inside = {}
  /\ inside' = {w}

Finish(t) ==
  /\ t \in inside
  /\ inside' = inside \ {t}

Next ==
  \/ \E r \in Readers : StartRead(r) \/ Finish(r)
  \/ \E w \in Writers : StartWrite(w) \/ Finish(w)

SafeSpec == Init /\ [][Next]_inside

Progress == \A t \in Readers \cup Writers : []<>(t \in inside)
=============================================================================
