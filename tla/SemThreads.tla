------------------------------ MODULE SemThreads ------------------------------
(***************************************************************************)
(* Threads that synchronise through counting semaphores: the macros        *)
(* Sem_wait and Sem_post of 31/common_threads.h, which every program of    *)
(* chapter 31 is written with.  A semaphore is its value; a thread whose   *)
(* wait finds the value 0 simply cannot take the step.  Nothing is said    *)
(* here about which of several waiting threads gets the next token, so     *)
(* what holds of these steps holds of every implementation of sem_wait     *)
(* (module NoStarveMutex adds the wake-up rule of POSIX).                  *)
(***************************************************************************)
EXTENDS Integers

VARIABLES pc,     \* pc[t]: the statement that thread t executes next
          sem     \* sem[s]: the value of semaphore s

\* Control of thread t passes from one statement to another.
Goto(t, from, to) ==
  /\ pc[t] = from
  /\ pc' = [pc EXCEPT ![t] = to]

Sem_wait(s) ==
  /\ sem[s] > 0
  /\ sem' = [sem EXCEPT ![s] = @ - 1]

Sem_post(s) ==
  sem' = [sem EXCEPT ![s] = @ + 1]

\* The two statements as steps of a thread.
WaitStep(t, from, s, to) == Goto(t, from, to) /\ Sem_wait(s)
PostStep(t, from, s, to) == Goto(t, from, to) /\ Sem_post(s)

\* A statement that touches no semaphore.
LocalStep(t, from, to) == Goto(t, from, to) /\ UNCHANGED sem
=============================================================================
