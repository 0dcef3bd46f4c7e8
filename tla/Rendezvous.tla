----------------------------- MODULE Rendezvous -----------------------------
(***************************************************************************)
(* 31/rendezvous.c: two children that meet at a pair of named semaphores,  *)
(* started by a main thread that may be killed and run again.  Labels are  *)
(* line numbers of the source.                                             *)
(***************************************************************************)
EXTENDS NamedSem, FiniteSets

CONSTANT MaxKills     \* bound on how often the process is killed and rerun

VARIABLES kills,
          stale   \* some name of this run was left behind by an earlier one

vars == <<pc, sem, shm, boot, kills, stale>>

Names == <<"aArrived", "bArrived">>

InitialValue == [aArrived |-> 0, bArrived |-> 0]

Children == {"child_1", "child_2"}

NoChildren == [c \in Children |-> "none"]

Init ==
  /\ SemInit(Names)
  /\ pc = NoChildren
  /\ kills = 0
  /\ stale = FALSE
-----------------------------------------------------------------------------
\* Line 13 prints "before", line 17 prints "after".
child_1 ==
  \/ LocalStep("child_1", "13", "15")
  \/ PostStep("child_1", "15", "aArrived", "16")
  \/ WaitStep("child_1", "16", "bArrived", "17")
  \/ LocalStep("child_1", "17", "done")

child_2 ==
  \/ LocalStep("child_2", "22", "24")
  \/ PostStep("child_2", "24", "bArrived", "25")
  \/ WaitStep("child_2", "25", "aArrived", "26")
  \/ LocalStep("child_2", "26", "done")

Child == (child_1 \/ child_2) /\ UNCHANGED <<shm, boot, kills, stale>>

\* main between opening and unlinking the semaphores (lines 38-41).
main ==
  \/ /\ boot.at = "create"
     /\ pc' = [c \in Children |-> IF c = "child_1" THEN "13" ELSE "22"]
     /\ boot' = MainAt("join", 1)
     /\ UNCHANGED <<sem, shm, kills, stale>>
  \/ /\ boot.at = "join"
     /\ \A c \in Children : pc[c] = "done"
     /\ boot' = MainAt("unlink", 1)
     /\ UNCHANGED <<pc, sem, shm, kills, stale>>

OpenAll ==
  /\ Sem_open(Names, InitialValue)
  /\ stale' = (stale \/ boot'.at = "reopen")
  /\ UNCHANGED <<pc, kills>>

UnlinkAll == Sem_unlink(Names) /\ UNCHANGED <<pc, kills, stale>>

\* The user kills the program and runs it again.
KillAndRerun ==
  /\ kills < MaxKills
  /\ kills' = kills + 1
  /\ Kill
  /\ pc' = NoChildren
  /\ stale' = FALSE

Terminated == boot.at = "end" /\ UNCHANGED vars

Next == OpenAll \/ main \/ UnlinkAll \/ Child \/ KillAndRerun \/ Terminated

Spec == Init /\ [][Next]_vars
-----------------------------------------------------------------------------
TypeOK ==
  /\ pc \in [Children -> {"none", "13", "15", "16", "17", "22", "24", "25", "26", "done"}]
  /\ sem \in [{"aArrived", "bArrived"} -> 0..2]
  /\ shm \subseteq {"aArrived", "bArrived"}
  /\ stale \in BOOLEAN

\* rendezvous.c:5-6, "each child should print their "before" message before
\* either prints their "after" message": so it is in every run that did not
\* find a name left behind, however many runs were killed before it.
BeforeAfter ==
  ~stale =>
    /\ pc["child_1"] \in {"17", "done"} => pc["child_2"] \notin {"none", "22"}
    /\ pc["child_2"] \in {"26", "done"} => pc["child_1"] \notin {"none", "13"}

\* main has ended and left no semaphore in /dev/shm.
Clean == boot.at = "end" /\ shm = {}
=============================================================================
