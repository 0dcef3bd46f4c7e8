------------------------------ MODULE NamedSem ------------------------------
(***************************************************************************)
(* The named semaphores of a chapter 31 program: the start of main, which  *)
(* opens them one after the other with Sem_open (31/common_threads.h), and *)
(* its end, which unlinks them.  The names live in /dev/shm and outlive    *)
(* the process, so a run that is killed leaves them behind for the next.   *)
(***************************************************************************)
EXTENDS SemThreads, Sequences

VARIABLES shm,    \* the semaphore names that exist in /dev/shm
          boot    \* where main is, and which semaphore it is at

\* The main thread at its k-th Sem_open, or at its k-th Sem_unlink.
MainAt(stmt, k) == [at |-> stmt, k |-> k]

\* Main after it has dealt with the k-th of n semaphores.
MainPast(stmt, k, n, next) ==
  IF k = n THEN MainAt(next, 1) ELSE MainAt(stmt, k + 1)

SemInit(names) ==
  /\ shm = {}
  /\ boot = MainAt("open", 1)
  /\ sem = [s \in {names[k] : k \in 1..Len(names)} |-> 0]

\* Sem_open(name, value): O_CREAT|O_EXCL creates the semaphore.  When the name
\* exists it is unlinked (check_shm) and Sem_open is called again, with 1.
Sem_open(names, value) ==
  LET k == boot.k
      name == names[k]
  IN  \/ /\ boot.at = "open" /\ name \notin shm
         /\ shm' = shm \cup {name}
         /\ sem' = [sem EXCEPT ![name] = value[name]]
         /\ boot' = MainPast("open", k, Len(names), "create")
      \/ /\ boot.at = "open" /\ name \in shm
         /\ shm' = shm \ {name}
         /\ boot' = MainAt("reopen", k)
         /\ UNCHANGED sem
      \/ /\ boot.at = "reopen"
         /\ shm' = shm \cup {name}
         /\ sem' = [sem EXCEPT ![name] = 1]
         /\ boot' = MainPast("open", k, Len(names), "create")

\* Sem_unlink of the semaphores, in the order they were opened, at the end.
Sem_unlink(names) ==
  /\ boot.at = "unlink"
  /\ shm' = shm \ {names[boot.k]}
  /\ boot' = MainPast("unlink", boot.k, Len(names), "end")
  /\ UNCHANGED sem

\* The process is killed and the program started again: every thread is gone,
\* the names are not.
Kill ==
  /\ boot.at # "end"
  /\ boot' = MainAt("open", 1)
  /\ sem' = [s \in DOMAIN sem |-> 0]
  /\ UNCHANGED shm
=============================================================================
