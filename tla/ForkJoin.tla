------------------------------ MODULE ForkJoin ------------------------------
(***************************************************************************)
(* 31/fork-join.c as it is compiled (USE_FORK): the child is a process of  *)
(* its own, so it outlives a parent that is killed and may post while a    *)
(* later run of the program is under way.  A semaphore is therefore an     *)
(* object, one for each run, and the name "/fork-join-semaphore" a link to *)
(* one of them.  Labels are line numbers of the source.                    *)
(***************************************************************************)
EXTENDS Integers

CONSTANT MaxRuns      \* bound on how often the program is run

VARIABLES run,      \* the current run
          parent,   \* where its parent is
          child,    \* child[k]: where the child of run k is
          value,    \* value[k]: the semaphore that run k created
          link,     \* the run whose semaphore the name refers to, or 0
          stale     \* the runs that found a name left behind

vars == <<run, parent, child, value, link, stale>>

Runs == 1..MaxRuns

Init ==
  /\ run = 1
  /\ parent = "42"
  /\ child = [k \in Runs |-> "none"]
  /\ value = [k \in Runs |-> 0]
  /\ link = 0
  /\ stale = {}
-----------------------------------------------------------------------------
\* Sem_open that reuses an existing semaphore (sem_open without O_EXCL).
Open_Reuse ==
  \/ /\ parent = "42" /\ link = 0
     /\ link' = run
     /\ parent' = "45"
     /\ UNCHANGED <<run, child, value, stale>>
  \/ /\ parent = "42" /\ link # 0
     /\ value' = [value EXCEPT ![run] = value[link]]
     /\ parent' = "45"
     /\ UNCHANGED <<run, child, link, stale>>

\* Line 42, Sem_open(semaphoreName, 0): see module NamedSem.
Open ==
  \/ /\ parent = "42" /\ link = 0
     /\ link' = run
     /\ parent' = "45"
     /\ UNCHANGED <<run, child, value, stale>>
  \/ /\ parent = "42" /\ link # 0
     /\ link' = 0
     /\ parent' = "reopen"
     /\ UNCHANGED <<run, child, value, stale>>
  \/ /\ parent = "reopen"
     /\ link' = run
     /\ value' = [value EXCEPT ![run] = 1]
     /\ stale' = stale \cup {run}
     /\ parent' = "45"
     /\ UNCHANGED <<run, child>>

\* Lines 45-51: fork succeeds, or fails and the parent exits.
Fork ==
  /\ parent = "45"
  /\ \/ child' = [child EXCEPT ![run] = "16"] /\ parent' = "58"
     \/ parent' = "exited" /\ UNCHANGED child
  /\ UNCHANGED <<run, value, link, stale>>

\* Lines 14-20: the child prints, posts and returns from main.
Child(k) ==
  /\ \/ child[k] = "16" /\ child' = [child EXCEPT ![k] = "18"] /\ UNCHANGED value
     \/ /\ child[k] = "18"
        /\ child' = [child EXCEPT ![k] = "done"]
        /\ value' = [value EXCEPT ![k] = @ + 1]
  /\ UNCHANGED <<run, parent, link, stale>>

\* Lines 58-63: the parent waits, unlinks the name and prints its end.
Join ==
  /\ \/ /\ parent = "58" /\ value[run] > 0
        /\ value' = [value EXCEPT ![run] = @ - 1]
        /\ parent' = "61"
        /\ UNCHANGED link
     \/ parent = "61" /\ link' = 0 /\ parent' = "63" /\ UNCHANGED value
     \/ parent = "63" /\ parent' = "exited" /\ UNCHANGED <<value, link>>
  /\ UNCHANGED <<run, child, stale>>

\* The user kills the parent; a child that was forked goes on.
Kill ==
  /\ parent # "exited"
  /\ parent' = "exited"
  /\ UNCHANGED <<run, child, value, link, stale>>

Rerun ==
  /\ parent = "exited" /\ run < MaxRuns
  /\ run' = run + 1
  /\ parent' = "42"
  /\ UNCHANGED <<child, value, link, stale>>

Terminated == parent = "exited" /\ run = MaxRuns /\ UNCHANGED vars

Next ==
  \/ Open \/ Fork \/ Join \/ Kill \/ Rerun \/ Terminated
  \/ \E k \in Runs : Child(k)

Spec == Init /\ [][Next]_vars
-----------------------------------------------------------------------------
TypeOK ==
  /\ run \in Runs
  /\ parent \in {"42", "reopen", "45", "58", "61", "63", "exited"}
  /\ child \in [Runs -> {"none", "16", "18", "done"}]
  /\ value \in [Runs -> 0..2]
  /\ link \in 0..MaxRuns
  /\ stale \subseteq Runs

\* The parent goes on only after its own child has printed: the token it
\* takes is never the one of a child that a killed run left behind.  Only a
\* run that found a stale name is excepted (Sem_open falls back to 1).
OwnChildOnly ==
  parent \in {"61", "63"} /\ child[run] = "16" => run \in stale

=============================================================================
