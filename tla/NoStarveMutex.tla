---------------------------- MODULE NoStarveMutex ----------------------------
(***************************************************************************)
(* The no-starve mutex of 31/mutex-nostarve.c (Morris's algorithm).  A     *)
(* thread first gathers in room 1, passes turnstile t1 into room 2, and    *)
(* passes turnstile t2 into the critical section.  One token circulates:   *)
(* it is in t1, in t2, or held by the thread that may move it.             *)
(*                                                                         *)
(* The workers never return, so that every run of the program is ended by  *)
(* a kill and leaves the names of its semaphores behind.  The next run     *)
(* opens all of them with the value 1, and two tokens circulate.           *)
(*                                                                         *)
(* Every access to a shared variable is a step of its own; the labels of   *)
(* pc are the statements of the source, by line number.  room2 has no lock *)
(* and is raced in a run with two tokens: its ++ and -- are a load (38,    *)
(* 51) and a store (38s, 51s).                                             *)
(***************************************************************************)
EXTENDS SemThreads, FiniteSets

CONSTANTS Workers,
          RoomLimit    \* bound on |room2|, which lost updates let drift

ASSUME WorkersFinite == IsFiniteSet(Workers)
ASSUME RoomLimitFits == RoomLimit \in Nat /\ Cardinality(Workers) <= RoomLimit

VARIABLES room1, room2,   \* ns_mutex_t.room1, ns_mutex_t.room2
          reg,            \* reg[t]: the value of room2 that t has loaded, else 0
          stale           \* this run has found the names of a killed one

mutexVars == <<pc, sem, room1, room2, reg, stale>>
rooms == <<room1, room2, reg>>

MutexSemaphores == {"mutex", "t1", "t2"}

Labels == {"33", "34", "35", "37", "38", "38s", "39", "40", "43", "44", "46",
           "47", "50", "51", "51s", "cs", "55", "56", "58"}

\* ns_mutex_init of a run that finds no names: both rooms empty, the token in
\* t1.  A run whose predecessor was killed before it had (re)created /t2
\* starts here as well.
MutexInit ==
  /\ pc = [t \in Workers |-> "33"]
  /\ sem = [s \in MutexSemaphores |-> IF s = "t2" THEN 0 ELSE 1]
  /\ room1 = 0
  /\ room2 = 0
  /\ reg = [t \in Workers |-> 0]
  /\ stale = FALSE

\* The process is killed and the program started again.  Sem_open finds each
\* name (EEXIST), unlinks it and calls itself with 1 in place of its argument.
Kill ==
  /\ pc' = [t \in Workers |-> "33"]
  /\ sem' = [s \in MutexSemaphores |-> 1]
  /\ room1' = 0
  /\ room2' = 0
  /\ reg' = [t \in Workers |-> 0]
  /\ stale' = TRUE
-----------------------------------------------------------------------------
(* ns_mutex_acquire *)

\* m->room2++ and m->room2--: the load, and the store of what was loaded plus d.
LoadRoom2(t, from, to) ==
  /\ LocalStep(t, from, to)
  /\ reg' = [reg EXCEPT ![t] = room2]
  /\ UNCHANGED <<room1, room2>>

StoreRoom2(t, from, to, d) ==
  /\ LocalStep(t, from, to)
  /\ room2' = reg[t] + d
  /\ room2' \in -RoomLimit..RoomLimit
  /\ reg' = [reg EXCEPT ![t] = 0]
  /\ UNCHANGED room1

\* room1++ without the semaphore mutex.
EnterRoom1_Unlocked(t) ==
  \/ LocalStep(t, "33", "34") /\ UNCHANGED rooms
  \/ LocalStep(t, "34", "37") /\ room1' = room1 + 1 /\ UNCHANGED <<room2, reg>>

\* Lines 33-35: announce in room 1, under the semaphore mutex.
EnterRoom1(t) ==
  \/ WaitStep(t, "33", "mutex", "34") /\ UNCHANGED rooms
  \/ LocalStep(t, "34", "35") /\ room1' = room1 + 1 /\ UNCHANGED <<room2, reg>>
  \/ PostStep(t, "35", "mutex", "37") /\ UNCHANGED rooms

\* Lines 37-38: through the first turnstile into room 2.
EnterRoom2(t) ==
  \/ WaitStep(t, "37", "t1", "38") /\ UNCHANGED rooms
  \/ LoadRoom2(t, "38", "38s")
  \/ StoreRoom2(t, "38s", "39", 1)

\* Lines 39-42: leave room 1; the next statement depends on who is left in it.
LeaveRoom1(t) ==
  \/ WaitStep(t, "39", "mutex", "40") /\ UNCHANGED rooms
  \/ /\ LocalStep(t, "40", IF room1 - 1 = 0 THEN "43" ELSE "46")
     /\ room1' = room1 - 1
     /\ UNCHANGED <<room2, reg>>

\* Without the else: the last one out opens both turnstiles.
PassToken_OpensBoth(t) ==
  /\ \/ PostStep(t, "43", "mutex", "44")
     \/ PostStep(t, "44", "t2", "47")
     \/ PostStep(t, "46", "mutex", "47")
     \/ PostStep(t, "47", "t1", "50")
  /\ UNCHANGED rooms

\* Lines 43-47: the last one out of room 1 opens t2, anyone else re-opens t1.
PassToken(t) ==
  /\ \/ PostStep(t, "43", "mutex", "44")
     \/ PostStep(t, "44", "t2", "50")
     \/ PostStep(t, "46", "mutex", "47")
     \/ PostStep(t, "47", "t1", "50")
  /\ UNCHANGED rooms

\* Lines 50-51: through the second turnstile into the critical section.
LeaveRoom2(t) ==
  \/ WaitStep(t, "50", "t2", "51") /\ UNCHANGED rooms
  \/ LoadRoom2(t, "51", "51s")
  \/ StoreRoom2(t, "51s", "cs", -1)

\* A release that does not look at room 2, and one that posts both.
Release_AlwaysT1(t) ==
  /\ \/ LocalStep(t, "cs", "56")
     \/ PostStep(t, "56", "t1", "33")
  /\ UNCHANGED rooms

Release_PostsBoth(t) ==
  /\ \/ LocalStep(t, "cs", "55")
     \/ LocalStep(t, "55", IF room2 = 0 THEN "56" ELSE "58")
     \/ PostStep(t, "56", "t1", "58")
     \/ PostStep(t, "58", "t2", "33")
  /\ UNCHANGED rooms

\* ns_mutex_release, after the critical section (counter++, line 68): the
\* token goes back to t1 only when room 2 is empty.
Release(t) ==
  /\ \/ LocalStep(t, "cs", "55")
     \/ LocalStep(t, "55", IF room2 = 0 THEN "56" ELSE "58")
     \/ PostStep(t, "56", "t1", "33")
     \/ PostStep(t, "58", "t2", "33")
  /\ UNCHANGED rooms

\* One statement of worker t.
Step(t) ==
  /\ \/ EnterRoom1(t) \/ EnterRoom2(t) \/ LeaveRoom1(t)
     \/ PassToken(t) \/ LeaveRoom2(t) \/ Release(t)
  /\ UNCHANGED stale

MutexNext == (\E t \in Workers : Step(t)) \/ Kill

MutexSpec == MutexInit /\ [][MutexNext]_mutexVars
-----------------------------------------------------------------------------
MutexTypeOK ==
  /\ pc \in [Workers -> Labels]
  /\ sem \in [MutexSemaphores -> Nat]
  /\ room1 \in Nat
  /\ room2 \in Int
  /\ reg \in [Workers -> Int]
  /\ stale \in BOOLEAN

\* The statements executed by a thread that holds a token, and by a thread
\* that holds the semaphore mutex.
TokenLabels == {"38", "38s", "39", "40", "43", "44", "46", "47",
                "51", "51s", "cs", "55", "56", "58"}
MutexLabels == {"34", "35", "40", "43", "46"}

At(L) == {t \in Workers : pc[t] \in L}

\* What ns_mutex_init gave out: one token, or two when the names were there.
Tokens == IF stale THEN 2 ELSE 1

\* No token is ever lost or made, across both turnstiles and every thread that
\* acquires and releases.  In a run with clean names neither a second thread
\* can get into the critical section nor can the mutex jam; after a kill the
\* second token that Sem_open gave to t2 stays for good.  The semaphore mutex
\* has one token in either.
TokenInv ==
  /\ sem["t1"] + sem["t2"] + Cardinality(At(TokenLabels)) = Tokens
  /\ sem["mutex"] + Cardinality(At(MutexLabels)) = 1

\* ns_mutex_acquire returns to one thread at a time (counter++ in worker) in a
\* run with clean names, and to two at a time in any other.
MutualExclusion == Cardinality(At({"cs"})) <= Tokens

\* Two threads are never about to access room1 at the same time, so the plain
\* int increments, decrements and tests of the source are not data races; nor
\* are those of room2, which has no lock of its own, in a run with clean names.
RaceFree ==
  \A t, u \in Workers :
    t # u => /\ ~({pc[t], pc[u]} \subseteq {"34", "40"})
             /\ ~stale => ~({pc[t], pc[u]} \subseteq {"38", "38s", "51", "51s", "55"})

\* The threads that are in room 1, and those in room 2: between the increment
\* and the decrement of its counter.
InRoom1 == At({"35", "37", "38", "38s", "39", "40"})
InRoom2 == At({"39", "40", "43", "44", "46", "47", "50", "51", "51s"})

\* The counters are exact: what line 42 and, in a run with clean names, line 55
\* decide on is the number of threads that are really in the room, for any
\* interleaving.
RoomsExact ==
  /\ room1 = Cardinality(InRoom1)
  /\ ~stale => room2 = Cardinality(InRoom2)
-----------------------------------------------------------------------------
(***************************************************************************)
(* The same program over semaphores that wake one waiter per post, with    *)
(* weak fairness of each worker: a thread that can run is eventually       *)
(* scheduled, nothing more.  This is where the algorithm earns its name: a *)
(* bare semaphore used as a mutex starves here.  A history variable counts *)
(* overtaking.                                                             *)
(*                                                                         *)
(* The wake-up rule is that of POSIX: "if there are threads blocked        *)
(* waiting for the semaphore, one of them shall be allowed to return from  *)
(* sem_wait" when somebody posts.  Which one is left open, and no queue    *)
(* order is promised.  Only waiting is restricted: a behaviour of the      *)
(* program under this rule is a behaviour of the program without it.       *)
(***************************************************************************)
VARIABLES blocked,   \* threads blocked inside sem_wait
          granted,   \* blocked threads that a post has chosen to return
          overtaken  \* overtaken[t][u]: times u entered the critical section
                     \* since t was counted in room 1, capped at OvertakeCap
                     \* and kept only while the names are clean

OvertakeCap == 3

weakVars == <<pc, sem, room1, room2, reg, stale, blocked, granted, overtaken>>

\* The labels at which a thread calls Sem_wait, and the semaphores.
WaitsOn == [l \in {"33", "37", "39", "50"} |->
              CASE l \in {"33", "39"} -> "mutex" [] l = "37" -> "t1" [] l = "50" -> "t2"]

\* Tokens of semaphore s that no chosen thread is about to take.
Unreserved(s) ==
  sem[s] - Cardinality({u \in granted : WaitsOn[pc[u]] = s})

\* Thread t finds no token and blocks.
Block(t) ==
  /\ pc[t] \in DOMAIN WaitsOn
  /\ t \notin blocked \cup granted
  /\ Unreserved(WaitsOn[pc[t]]) = 0
  /\ blocked' = blocked \cup {t}
  /\ UNCHANGED <<pc, sem, granted>>

\* What the rule adds to a program step of thread t.  A step through sem_wait
\* is for a chosen thread, or for one that finds a token nobody else was
\* promised.  A post chooses one of the threads blocked on that semaphore.
Discipline(t) ==
  /\ pc[t] \in DOMAIN WaitsOn =>
       t \in granted \/ (t \notin blocked /\ Unreserved(WaitsOn[pc[t]]) > 0)
  /\ LET woken == {u \in blocked : sem'[WaitsOn[pc[u]]] > sem[WaitsOn[pc[u]]]}
     IN  \/ /\ woken = {}
            /\ granted' = granted \ {t}
            /\ UNCHANGED blocked
         \/ \E u \in woken :
              /\ granted' = granted \cup {u}
              /\ blocked' = blocked \ {u}

\* t has executed room1++ (line 34) and is not yet in the critical section.
Announced(t) == pc[t] \notin {"33", "34", "cs", "55", "56", "58"}

Count(t, u) ==
  IF stale' \/ ~Announced(t)' THEN 0
  ELSE IF pc[u] # "cs" /\ pc'[u] = "cs" /\ overtaken[t][u] < OvertakeCap
       THEN overtaken[t][u] + 1
       ELSE overtaken[t][u]

WeakInit ==
  /\ MutexInit /\ blocked = {} /\ granted = {}
  /\ overtaken = [t \in Workers |-> [u \in Workers |-> 0]]

WeakStep(t) ==
  /\ Step(t) /\ Discipline(t)
  /\ overtaken' = [v \in Workers |-> [u \in Workers |-> Count(v, u)]]

WeakBlock(t) == Block(t) /\ UNCHANGED <<room1, room2, reg, stale, overtaken>>

WeakKill ==
  /\ Kill /\ blocked' = {} /\ granted' = {}
  /\ overtaken' = [t \in Workers |-> [u \in Workers |-> 0]]

WeakNext == (\E t \in Workers : WeakStep(t) \/ WeakBlock(t)) \/ WeakKill

WeakSpec ==
  /\ WeakInit
  /\ [][WeakNext]_weakVars
  /\ \A t \in Workers : WF_weakVars(WeakStep(t) \/ WeakBlock(t))
-----------------------------------------------------------------------------
\* In a run with clean names a thread counted in room 1 sees each other thread
\* enter the critical section at most twice before it does: once with the batch
\* that is leaving room 2 when it arrives, once with its own batch.
BoundedBypass == ~stale => \A t, u \in Workers : overtaken[t][u] <= 2

\* The worker loop as a client of the abstract mutex, while the names are clean.
holders == IF stale THEN {} ELSE At({"cs"})

AbstractMutex == INSTANCE RWLock WITH Readers <- {}, Writers <- Workers, inside <- holders

\* README Q6: "any thread that tries to acquire the mutex will eventually
\* obtain it", and never two at a time.  In a run with clean names worker/
\* ns_mutex_acquire/ns_mutex_release implement the starvation-free mutex, its
\* progress if nobody kills it.
ImplementsMutex == AbstractMutex!SafeSpec /\ ([]~stale => AbstractMutex!Progress)
=============================================================================
