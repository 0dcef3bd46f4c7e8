----------------------------- MODULE Xv6Threads -----------------------------
(***************************************************************************)
(* Kernel threads for xv6 (projects/concurrency-xv6-threads,               *)
(* threads_asm.patch): clone makes a process that shares the page table of *)
(* its creator, join reaps such a child and wait the others, and the page  *)
(* table is freed by the wait that finds no other slot with it.            *)
(*                                                                         *)
(* What is done while ptable.lock is held is one step; the writes of fork  *)
(* and clone to the slot they fill are steps of their own.  RUNNABLE       *)
(* stands for RUNNING as well: any process that can run may be the next.   *)
(* User programs make these calls in any order, except that init neither   *)
(* exits nor clones.  exec, which the patch leaves as it was, is not among *)
(* them, and a process has no size here: growproc is left out.             *)
(***************************************************************************)
EXTENDS Naturals, TLAPS

CONSTANTS NPROC,       \* slots of the process table
          MaxSpaces    \* page tables that the memory has room for

ASSUME TableSize == NPROC \in Nat \ {0}

VARIABLES state, pgdir, parent, killed,  \* struct proc; no page table, no parent: 0
          pc,                            \* the call each process is in
          np,                            \* the slot that fork or clone fills
          free                           \* page tables that are not allocated

vars == <<state, pgdir, parent, killed, pc, np, free>>

Slots == 1 .. NPROC
Spaces == 1 .. MaxSpaces
initproc == 1
Started == {q \in Slots : state[q] \in {"SLEEPING", "RUNNABLE", "ZOMBIE"}}
Unused == {q \in Slots : state[q] = "UNUSED"}

\* userinit has run.
Init ==
  /\ state = [q \in Slots |-> IF q = initproc THEN "RUNNABLE" ELSE "UNUSED"]
  /\ pgdir = [q \in Slots |-> IF q = initproc THEN 1 ELSE 0]
  /\ parent = [q \in Slots |-> 0] /\ killed = [q \in Slots |-> FALSE]
  /\ pc = [q \in Slots |-> "user"] /\ np = [q \in Slots |-> 0]
  /\ free = Spaces \ {1}

\* p runs in user space and makes a call; one that was killed only exits.
Calls(p) == state[p] = "RUNNABLE" /\ pc[p] = "user" /\ ~killed[p]

\* allocproc takes the first UNUSED slot and leaves its pgdir as it is.
allocproc(p, call) ==
  /\ Calls(p) /\ (p = initproc => call = "fork")
  /\ \E q \in Unused :
       /\ \A r \in Unused : q <= r
       /\ state' = [state EXCEPT ![q] = "EMBRYO"] /\ np' = [np EXCEPT ![p] = q]
  /\ pc' = [pc EXCEPT ![p] = call]
  /\ UNCHANGED <<pgdir, parent, killed, free>>

\* copyuvm
fork(p) ==
  /\ state[p] = "RUNNABLE" /\ pc[p] = "fork"
  /\ \E d \in free : pgdir' = [pgdir EXCEPT ![np[p]] = d] /\ free' = free \ {d}
  /\ parent' = [parent EXCEPT ![np[p]] = p] /\ pc' = [pc EXCEPT ![p] = "run"]
  /\ UNCHANGED <<state, killed, np>>

\* No memory for the kernel stack, or for the copy: copyuvm returned 0.
fork_fails(p) ==
  /\ state[p] = "RUNNABLE" /\ pc[p] = "fork"
  /\ state' = [state EXCEPT ![np[p]] = "UNUSED"]
  /\ pgdir' \in {pgdir, [pgdir EXCEPT ![np[p]] = 0]}
  /\ pc' = [pc EXCEPT ![p] = "user"] /\ np' = [np EXCEPT ![p] = 0]
  /\ UNCHANGED <<parent, killed, free>>

clone(p) ==
  /\ state[p] = "RUNNABLE" /\ pc[p] = "clone"
  /\ pgdir' = [pgdir EXCEPT ![np[p]] = pgdir[p]]
  /\ parent' = [parent EXCEPT ![np[p]] = p] /\ pc' = [pc EXCEPT ![p] = "run"]
  /\ UNCHANGED <<state, killed, np, free>>

\* The end of fork and of clone.
Run(p) ==
  /\ state[p] = "RUNNABLE" /\ pc[p] = "run"
  /\ state' = [state EXCEPT ![np[p]] = "RUNNABLE"]
  /\ pc' = [pc EXCEPT ![p] = "user"] /\ np' = [np EXCEPT ![p] = 0]
  /\ UNCHANGED <<pgdir, parent, killed, free>>

\* The children that wait looks at, and those that join looks at.
Children(p) == {q \in Slots : parent[q] = p /\ pgdir[q] # pgdir[p]}
Threads(p) == {q \in Slots : parent[q] = p /\ pgdir[q] = pgdir[p]}
Zombies(S) == {q \in S : state[q] = "ZOMBIE"}
First(S) == {q \in S : \A r \in S : q <= r}

\* wakeup1(p), for the processes of S
Wake(S) == [q \in Slots |-> IF q \in S /\ state[q] = "SLEEPING" THEN "RUNNABLE" ELSE state[q]]

\* An exit that wakes its parent only for wait.
exit_NoJoiners(p) ==
  /\ state[p] = "RUNNABLE" /\ pc[p] = "user" /\ p # initproc
  /\ LET heirs == IF Zombies(Children(p)) # {} THEN {initproc} ELSE {}
         woken == {q \in {parent[p]} : pc[q] = "wait"}
     IN  state' = [Wake(woken \cup heirs) EXCEPT ![p] = "ZOMBIE"]
  /\ parent' = [q \in Slots |-> IF q \in Children(p) THEN initproc ELSE parent[q]]
  /\ UNCHANGED <<pgdir, killed, pc, np, free>>

\* An exit that leaves its children to nobody.
exit_NoReparent(p) ==
  /\ state[p] = "RUNNABLE" /\ pc[p] = "user" /\ p # initproc
  /\ state' = [Wake({parent[p]}) EXCEPT ![p] = "ZOMBIE"]
  /\ UNCHANGED <<pgdir, parent, killed, pc, np, free>>

\* Children that are threads keep their parent, though it is dead.
exit(p) ==
  /\ state[p] = "RUNNABLE" /\ pc[p] = "user" /\ p # initproc
  /\ LET heirs == IF Zombies(Children(p)) # {} THEN {initproc} ELSE {}
     IN  state' = [Wake({parent[p]} \cup heirs) EXCEPT ![p] = "ZOMBIE"]
  /\ parent' = [q \in Slots |-> IF q \in Children(p) THEN initproc ELSE parent[q]]
  /\ UNCHANGED <<pgdir, killed, pc, np, free>>

\* wait and join without a ZOMBIE: return -1, or sleep.
NoZombie(p, S, call) ==
  /\ Zombies(S) = {}
  /\ \/ /\ S = {} \/ killed[p]
        /\ pc' = [pc EXCEPT ![p] = "user"] /\ UNCHANGED state
     \/ /\ S # {} /\ ~killed[p]
        /\ pc' = [pc EXCEPT ![p] = call] /\ state' = [state EXCEPT ![p] = "SLEEPING"]
  /\ UNCHANGED <<pgdir, parent, killed, np, free>>

\* The slot z is given back.
Reap(p, z) ==
  /\ state' = [state EXCEPT ![z] = "UNUSED"] /\ parent' = [parent EXCEPT ![z] = 0]
  /\ killed' = [killed EXCEPT ![z] = FALSE]
  /\ pc' = [pc EXCEPT ![p] = "user"] /\ UNCHANGED np

Enters(p, call) == state[p] = "RUNNABLE" /\ (pc[p] = call \/ Calls(p))

\* A wait that frees the page table unless a process that is alive has it.
wait_FreesZombies(p) ==
  /\ Enters(p, "wait")
  /\ \/ NoZombie(p, Children(p), "wait")
     \/ \E z \in First(Zombies(Children(p))) :
          /\ Reap(p, z)
          /\ free' = IF \E q \in Slots \ {z} : pgdir[q] = pgdir[z]
                                                /\ state[q] \notin {"UNUSED", "ZOMBIE"}
                     THEN free ELSE free \cup {pgdir[z]}
          /\ pgdir' = [pgdir EXCEPT ![z] = 0]

\* last_ref is z only if no other slot, in use or not, has its pgdir.
wait(p) ==
  /\ Enters(p, "wait")
  /\ \/ NoZombie(p, Children(p), "wait")
     \/ \E z \in First(Zombies(Children(p))) :
          /\ Reap(p, z)
          /\ free' = IF \E q \in Slots \ {z} : pgdir[q] = pgdir[z]
                     THEN free ELSE free \cup {pgdir[z]}
          /\ pgdir' = [pgdir EXCEPT ![z] = 0]

\* pgdir stays in the slot.
join(p) ==
  /\ Enters(p, "join") /\ p # initproc
  /\ \/ NoZombie(p, Threads(p), "join")
     \/ \E z \in First(Zombies(Threads(p))) : Reap(p, z) /\ UNCHANGED <<pgdir, free>>

kill(p) ==
  /\ Calls(p)
  /\ \E q \in Slots \ (Unused \cup {initproc}) :
       killed' = [killed EXCEPT ![q] = TRUE] /\ state' = Wake({q})
  /\ UNCHANGED <<pgdir, parent, pc, np, free>>

Process(p) ==
  \/ allocproc(p, "fork") \/ allocproc(p, "clone") \/ fork(p) \/ fork_fails(p) \/ clone(p) \/ Run(p)
  \/ exit(p) \/ wait(p) \/ join(p) \/ kill(p)

Next == \E p \in Slots : Process(p)

Spec == Init /\ [][Next]_vars
-----------------------------------------------------------------------------
\* Nobody refers to a page table that was freed, not even a slot that is not in
\* use: no process loses its memory, none is given memory that another one still
\* has, and no page table is freed twice.
SpacesKept ==
  /\ \A q \in Slots : pgdir[q] \notin free
  /\ \A q \in Started : pgdir[q] # 0

\* Nobody sleeps through an exit: a process asleep in wait or in join has a
\* child of that kind, none that is a ZOMBIE, and was not killed.
ExitsNoticed ==
  \A p \in Slots : state[p] = "SLEEPING" =>
    /\ ~killed[p]
    /\ LET S == IF pc[p] = "wait" THEN Children(p) ELSE Threads(p)
       IN  S # {} /\ Zombies(S) = {}

\* Whoever is left with a dead parent is a thread of that parent: abandoned
\* processes are children of init.
OrphansAreThreads ==
  \A q \in Started \ {initproc} :
    parent[q] = 0 \/ (state[parent[q]] = "ZOMBIE" => pgdir[q] = pgdir[parent[q]])

\* "free page table if this is last reference to it": a page table that is
\* allocated is one of a process.
LastReferenceFreed ==
  \A d \in Spaces \ free : \E q \in Slots \ Unused : pgdir[q] = d
-----------------------------------------------------------------------------
(* Proofs, for every NPROC and MaxSpaces.                                   *)

Filling(p) == pc[p] \in {"fork", "clone", "run"}

TypeOK ==
  /\ state \in [Slots -> {"UNUSED", "EMBRYO", "SLEEPING", "RUNNABLE", "ZOMBIE"}]
  /\ pgdir \in [Slots -> Nat] /\ free \subseteq Nat \ {0}
  /\ pc \in [Slots -> {"user", "fork", "clone", "run", "wait", "join"}]
  /\ np \in [Slots -> Slots \cup {0}]

\* A slot that is filled belongs to one process, which is running, and has its
\* page table before it is started.
OneFiller ==
  /\ \A p \in Slots : Filling(p) =>
       /\ state[p] = "RUNNABLE" /\ np[p] \in Slots /\ state[np[p]] = "EMBRYO"
       /\ pc[p] = "run" => pgdir[np[p]] # 0
  /\ \A p, q \in Slots : Filling(p) /\ Filling(q) /\ np[p] = np[q] => p = q

\* SpacesKept speaks of steps that rely on who fills which slot.
IInv == TypeOK /\ OneFiller /\ SpacesKept

\* One process with one page table satisfies the invariant.
LEMMA InitIInv == Init => IInv
BY DEF Init, IInv, TypeOK, OneFiller, SpacesKept, Filling, Started, Spaces, initproc

\* wakeup1 makes nothing but RUNNABLE processes of SLEEPING ones.
LEMMA WakeFacts ==
  ASSUME TypeOK, NEW S
  PROVE  /\ Wake(S) \in [Slots -> {"UNUSED", "EMBRYO", "SLEEPING", "RUNNABLE", "ZOMBIE"}]
         /\ \A q \in Slots : state[q] \notin {"SLEEPING", "RUNNABLE"} => Wake(S)[q] = state[q]
         /\ \A q \in Slots : state[q] \in {"SLEEPING", "RUNNABLE"} => Wake(S)[q] \in {"SLEEPING", "RUNNABLE"}
         /\ \A q \in Slots : state[q] = "RUNNABLE" => Wake(S)[q] = "RUNNABLE"
BY DEF TypeOK, Wake

\* The slots that fork and clone take and give back.
LEMMA FillKeeps ==
  ASSUME IInv, NEW p \in Slots,
         allocproc(p, "fork") \/ allocproc(p, "clone") \/ fork(p) \/ fork_fails(p) \/ clone(p) \/ Run(p)
  PROVE  IInv'
<1> USE DEF IInv, TypeOK, OneFiller, SpacesKept, Filling, Started
<1>1. ASSUME NEW call \in {"fork", "clone"}, allocproc(p, call) PROVE IInv'
  BY <1>1 DEF allocproc, Unused, Calls
<1>2. CASE fork(p)
  BY <1>2 DEF fork
<1>3. CASE fork_fails(p)
  BY <1>3 DEF fork_fails
<1>4. CASE clone(p)
  BY <1>4 DEF clone
<1>5. CASE Run(p)
  BY <1>5 DEF Run
<1> QED
  BY <1>1, <1>2, <1>3, <1>4, <1>5

\* wait and join that find no zombie, and fail or sleep, keep it.
LEMMA NoZombieKeeps ==
  ASSUME IInv, NEW p \in Slots, NEW S, NEW call \in {"wait", "join"},
         Enters(p, call), NoZombie(p, S, call)
  PROVE  IInv'
BY DEF IInv, TypeOK, OneFiller, SpacesKept, Filling, Started, Enters, Calls, NoZombie

\* The wait that gives a page table back has looked at every other slot.
LEMMA WaitKeeps == ASSUME IInv, NEW p \in Slots, wait(p) PROVE IInv'
<1>1. CASE NoZombie(p, Children(p), "wait")
  BY <1>1, NoZombieKeeps DEF wait
<1>2. ASSUME NEW z \in Slots, state[z] = "ZOMBIE", Enters(p, "wait"), Reap(p, z),
             free' = IF \E q \in Slots \ {z} : pgdir[q] = pgdir[z]
                     THEN free ELSE free \cup {pgdir[z]},
             pgdir' = [pgdir EXCEPT ![z] = 0]
      PROVE  IInv'
  <2> USE DEF IInv, TypeOK, OneFiller, SpacesKept, Filling, Started
  <2>1. pgdir[z] # 0 /\ pgdir[z] \in Nat /\ ~Filling(z) /\ ~Filling(p)
    BY <1>2 DEF Enters, Calls
  <2>2. TypeOK'
    <3>1. TypeOK
      BY Zenon DEF IInv
    <3>2. /\ state' = [state EXCEPT ![z] = "UNUSED"] /\ pc' = [pc EXCEPT ![p] = "user"] /\ np' = np
          /\ pgdir' = [pgdir EXCEPT ![z] = 0] /\ (free' = free \/ free' = free \cup {pgdir[z]})
      BY <1>2, Zenon DEF Reap
    <3> QED BY ONLY <2>1, <3>1, <3>2, Zenon DEF TypeOK
  <2>3. OneFiller'
    BY <1>2, <2>1 DEF Reap
  <2>4. \A q \in Slots : pgdir'[q] \notin free'
    BY <1>2, <2>1
  <2>5. (\A q \in Started : pgdir[q] # 0)'
    BY <1>2 DEF Reap
  <2> QED
    BY <2>2, <2>3, <2>4, <2>5
<1> QED
  BY <1>1, <1>2 DEF wait, First, Zombies, Children

\* join keeps it: it frees a thread and leaves the page table to the process.
LEMMA JoinKeeps == ASSUME IInv, NEW p \in Slots, join(p) PROVE IInv'
<1>1. CASE NoZombie(p, Threads(p), "join")
  BY <1>1, NoZombieKeeps DEF join
<1>2. ASSUME NEW z \in Slots, state[z] = "ZOMBIE", Enters(p, "join"), Reap(p, z),
             UNCHANGED <<pgdir, free>>
      PROVE  IInv'
  BY <1>2 DEF IInv, TypeOK, OneFiller, SpacesKept, Filling, Started, Reap, Enters, Calls
<1> QED
  BY <1>1, <1>2 DEF join, First, Zombies, Threads

\* exit keeps it: the zombie keeps its page table.
LEMMA ExitKeeps == ASSUME IInv, NEW p \in Slots, exit(p) PROVE IInv'
<1>1. PICK S : state' = [Wake(S) EXCEPT ![p] = "ZOMBIE"]
  BY Zenon DEF exit
<1> QED
  BY <1>1, WakeFacts DEF exit, IInv, TypeOK, OneFiller, SpacesKept, Filling, Started

\* kill keeps it: it touches no page table.
LEMMA KillKeeps == ASSUME IInv, NEW p \in Slots, kill(p) PROVE IInv'
<1>1. PICK q \in Slots : state' = Wake({q})
  BY DEF kill
<1> QED
  BY <1>1, WakeFacts DEF kill, IInv, TypeOK, OneFiller, SpacesKept, Filling, Started

\* Every step keeps the invariant.
LEMMA StepKeeps == IInv /\ [Next]_vars => IInv'
<1> SUFFICES ASSUME IInv, [Next]_vars PROVE IInv'
  OBVIOUS
<1>1. CASE UNCHANGED vars
  BY <1>1 DEF vars, IInv, TypeOK, OneFiller, SpacesKept, Filling, Started
<1>2. ASSUME NEW p \in Slots, Process(p) PROVE IInv'
  BY <1>2, FillKeeps, WaitKeeps, JoinKeeps, ExitKeeps, KillKeeps DEF Process
<1> QED
  BY <1>1, <1>2 DEF Next

\* clone, join, exit and wait never leave a slot with a page table that was
\* freed, whatever the size of the process table and of the memory.
THEOREM SpacesAreKept == Spec => []SpacesKept
<1>1. IInv => SpacesKept
  BY DEF IInv
<1> QED
  BY InitIInv, StepKeeps, <1>1, PTL DEF Spec

\* Slots without a process have no parent, and nobody but the process that
\* fills a slot is its parent.
Parents ==
  /\ parent \in [Slots -> Nat] /\ killed \in [Slots -> BOOLEAN]
  /\ \A q \in Slots : state[q] = "UNUSED" => parent[q] = 0
  /\ \A p \in Slots : pc[p] \in {"fork", "clone"} => parent[np[p]] = 0
  /\ \A p \in Slots : state[p] = "SLEEPING" => pc[p] \in {"wait", "join"}
  /\ \A p \in Slots : pc[p] = "join" => p # initproc

\* ExitsNoticed rests on who may be whose child.
SleepInv == IInv /\ Parents /\ ExitsNoticed

\* Nobody sleeps at the start.
LEMMA InitSleepInv == Init => SleepInv
BY InitIInv DEF Init, SleepInv, Parents, ExitsNoticed, initproc

\* 0 is not a slot; it stands for no parent.
LEMMA NoSlotZero == 0 \notin Slots
BY DEF Slots

\* A slot that fork or clone fills is no zombie, so nobody misses it.
LEMMA FillNoticed ==
  ASSUME SleepInv, NEW p \in Slots,
         allocproc(p, "fork") \/ allocproc(p, "clone") \/ fork(p) \/ fork_fails(p) \/ clone(p) \/ Run(p)
  PROVE  (Parents /\ ExitsNoticed)'
<1> USE NoSlotZero DEF SleepInv, IInv, TypeOK, OneFiller, Filling, Parents, ExitsNoticed, Children, Threads, Zombies
<1>0. p \in Nat
  BY DEF Slots
<1>1. ASSUME NEW call \in {"fork", "clone"}, allocproc(p, call) PROVE (Parents /\ ExitsNoticed)'
  BY <1>1 DEF allocproc, Unused, Calls, initproc
<1>2. CASE fork(p)
  BY <1>0, <1>2 DEF fork
<1>3. CASE fork_fails(p)
  BY <1>3 DEF fork_fails
<1>4. CASE clone(p)
  BY <1>0, <1>4 DEF clone
<1>5. CASE Run(p)
  BY <1>5 DEF Run
<1> QED
  BY <1>1, <1>2, <1>3, <1>4, <1>5

\* wait sleeps only when no child is a zombie.
LEMMA WaitNoticed == ASSUME SleepInv, NEW p \in Slots, wait(p) PROVE (Parents /\ ExitsNoticed)'
<1> USE NoSlotZero DEF SleepInv, IInv, TypeOK, OneFiller, Filling, Parents, ExitsNoticed, Children, Threads, Zombies
<1>1. CASE NoZombie(p, Children(p), "wait")
  BY <1>1 DEF wait, NoZombie, Enters, Calls
<1>2. ASSUME NEW z \in Slots, state[z] = "ZOMBIE", parent[z] = p, Enters(p, "wait"), Reap(p, z),
             pgdir' = [pgdir EXCEPT ![z] = 0]
      PROVE  (Parents /\ ExitsNoticed)'
  BY <1>2 DEF Reap, Enters, Calls
<1> QED
  BY <1>1, <1>2 DEF wait, First

\* join sleeps only when no thread is a zombie.
LEMMA JoinNoticed == ASSUME SleepInv, NEW p \in Slots, join(p) PROVE (Parents /\ ExitsNoticed)'
<1> USE NoSlotZero DEF SleepInv, IInv, TypeOK, OneFiller, Filling, Parents, ExitsNoticed, Children, Threads, Zombies
<1>1. CASE NoZombie(p, Threads(p), "join")
  BY <1>1 DEF join, NoZombie, Enters, Calls
<1>2. ASSUME NEW z \in Slots, state[z] = "ZOMBIE", parent[z] = p, Enters(p, "join"), Reap(p, z),
             UNCHANGED pgdir
      PROVE  (Parents /\ ExitsNoticed)'
  BY <1>2 DEF Reap, Enters, Calls
<1> QED
  BY <1>1, <1>2 DEF join, First

\* exit wakes its parent, and init if it passes a ZOMBIE on to it.
LEMMA ExitNoticed == ASSUME SleepInv, NEW p \in Slots, exit(p) PROVE (Parents /\ ExitsNoticed)'
<1> USE NoSlotZero DEF SleepInv, IInv, TypeOK, OneFiller, Filling, Parents
<1> DEFINE woken == {parent[p]} \cup (IF Zombies(Children(p)) # {} THEN {initproc} ELSE {})
<1>1. state' = [Wake(woken) EXCEPT ![p] = "ZOMBIE"]
  BY DEF exit
<1>2. Parents'
  <2>1. \A q \in Slots : parent[q] = 0 => parent'[q] = 0
    BY DEF exit, Children
  <2>2. \A q \in Slots : state'[q] \in {"UNUSED", "SLEEPING"} => state[q] = state'[q]
    BY <1>1, WakeFacts DEF Wake
  <2>3. parent' \in [Slots -> Nat]
    BY DEF exit, initproc
  <2> QED
    BY <2>1, <2>2, <2>3 DEF exit
<1>3. ASSUME NEW r \in Slots, state'[r] = "SLEEPING"
      PROVE  /\ r # p /\ r # parent[p] /\ state[r] = "SLEEPING"
             /\ r = initproc => Zombies(Children(p)) = {}
  BY <1>1, <1>3, WakeFacts DEF Wake
<1>4. ASSUME NEW r \in Slots, state'[r] = "SLEEPING"
      PROVE  (~killed[r] /\ LET S == IF pc[r] = "wait" THEN Children(r) ELSE Threads(r)
                             IN  S # {} /\ Zombies(S) = {})'
  <2>1. state[r] = "SLEEPING" /\ ~killed[r] /\ ~killed'[r]
    BY <1>3, <1>4 DEF ExitsNoticed, exit
  <2>2. \A q \in Slots : state'[q] = "ZOMBIE" => q = p \/ state[q] = "ZOMBIE"
    BY <1>1, WakeFacts
  <2>3. CASE pc[r] = "wait"
    <3>1. Children(r) # {} /\ Zombies(Children(r)) = {}
      BY <2>1, <2>3 DEF ExitsNoticed
    <3>2. Children(r) \subseteq Children(r)'
      BY <1>3, <1>4, Zenon DEF exit, Children
    <3>3. ASSUME NEW q \in Children(r)', state'[q] = "ZOMBIE" PROVE FALSE
      BY <1>3, <1>4, <2>2, <3>1, <3>3 DEF exit, Children, Zombies
    <3> QED
      BY <2>1, <2>3, <3>1, <3>2, <3>3 DEF exit, Zombies
  <2>4. CASE pc[r] # "wait"
    <3>1. Threads(r) # {} /\ Zombies(Threads(r)) = {} /\ r # initproc
      BY <2>1, <2>4 DEF ExitsNoticed
    <3>2. Threads(r)' = Threads(r)
      BY <1>3, <1>4, <3>1 DEF exit, Children, Threads
    <3>3. ASSUME NEW q \in Threads(r), state'[q] = "ZOMBIE" PROVE FALSE
      BY <1>3, <1>4, <2>2, <3>1, <3>3 DEF Threads, Zombies
    <3> QED
      BY <2>1, <2>4, <3>1, <3>2, <3>3 DEF exit, Zombies
  <2> QED
    BY <2>3, <2>4
<1> QED
  BY <1>2, <1>4, Zenon DEF ExitsNoticed

\* kill wakes and makes no zombie.
LEMMA KillNoticed == ASSUME SleepInv, NEW p \in Slots, kill(p) PROVE (Parents /\ ExitsNoticed)'
<1> USE NoSlotZero DEF SleepInv, IInv, TypeOK, OneFiller, Filling, Parents, ExitsNoticed, Children, Threads, Zombies
<1> QED
  BY DEF kill, Wake, Unused, initproc

\* No process sleeps through the exit of a child or of a thread, or through a
\* kill, whatever the size of the process table.
THEOREM ExitsAreNoticed == Spec => []ExitsNoticed
<1>1. SleepInv /\ [Next]_vars => SleepInv'
  <2> SUFFICES ASSUME SleepInv, [Next]_vars PROVE SleepInv'
    OBVIOUS
  <2>1. IInv'
    BY StepKeeps DEF SleepInv
  <2>2. CASE UNCHANGED vars
    BY <2>1, <2>2 DEF vars, SleepInv, Parents, ExitsNoticed, Children, Threads, Zombies
  <2>3. ASSUME NEW p \in Slots, Process(p) PROVE SleepInv'
    BY <2>1, <2>3, FillNoticed, WaitNoticed, JoinNoticed, ExitNoticed, KillNoticed DEF Process, SleepInv
  <2> QED
    BY <2>2, <2>3 DEF Next
<1>2. SleepInv => ExitsNoticed
  BY DEF SleepInv
<1> QED
  BY InitSleepInv, <1>1, <1>2, PTL DEF Spec

\* A process that is started is a child of the one that filled its slot, and init
\* stays.
Family ==
  /\ parent \in [Slots -> Slots \cup {0}] /\ state[initproc] # "ZOMBIE"
  /\ \A p \in Slots : pc[p] = "run" => parent[np[p]] = p
  /\ OrphansAreThreads

\* A call of one process keeps it.
LEMMA FamilyKeeps == ASSUME IInv, Family, NEW p \in Slots, Process(p) PROVE Family'
<1>1. initproc \in Slots /\ 0 \notin Slots
  BY TableSize DEF Slots, initproc
<1> USE DEF Family, OrphansAreThreads, Started
<1>2. TypeOK /\ OneFiller
  BY DEF IInv
<1>3. ASSUME NEW call \in {"fork", "clone"}, allocproc(p, call) PROVE Family'
  BY <1>1, <1>2, <1>3 DEF allocproc, Unused, Calls, TypeOK, OneFiller, Filling
<1>4. CASE fork(p) \/ clone(p)
  BY <1>1, <1>2, <1>4 DEF fork, clone, TypeOK, OneFiller, Filling
<1>5. CASE fork_fails(p)
  BY <1>1, <1>2, <1>5 DEF fork_fails, TypeOK, OneFiller, Filling
<1>6. CASE Run(p)
  BY <1>1, <1>2, <1>6 DEF Run, TypeOK, OneFiller, Filling
<1>7. ASSUME NEW S, NEW call \in {"wait", "join"}, Enters(p, call), NoZombie(p, S, call) PROVE Family'
  BY <1>1, <1>2, <1>7 DEF NoZombie, Enters, Calls, TypeOK
<1>8. ASSUME NEW z \in Slots, state[z] = "ZOMBIE", Reap(p, z), \A q \in Slots \ {z} : pgdir'[q] = pgdir[q]
      PROVE  Family'
  BY <1>1, <1>2, <1>8 DEF Reap, TypeOK, OneFiller, Filling
<1>9. CASE wait(p)
  BY <1>2, <1>7, <1>8, <1>9 DEF wait, First, Zombies, Children, TypeOK
<1>10. CASE join(p)
  BY <1>2, <1>7, <1>8, <1>10 DEF join, First, Zombies, Threads
<1>11. CASE kill(p)
  <2>1. PICK q \in Slots : state' = Wake({q})
    BY <1>11 DEF kill
  <2> QED  BY <1>1, <1>2, <1>11, <2>1, WakeFacts DEF kill, TypeOK
<1>12. CASE exit(p)
  <2>1. PICK S : state' = [Wake(S) EXCEPT ![p] = "ZOMBIE"]
    BY <1>12, Zenon DEF exit
  <2>2. /\ state'[p] = "ZOMBIE" /\ p # initproc /\ state[p] = "RUNNABLE" /\ pc[p] = "user"
        /\ \A q \in Slots \ {p} : /\ state'[q] = "ZOMBIE" <=> state[q] = "ZOMBIE"
                                  /\ q \in Started' <=> q \in Started
    BY <1>2, <1>12, <2>1, WakeFacts DEF exit, TypeOK
  <2>3. /\ UNCHANGED <<pgdir, pc, np>>
        /\ parent' = [q \in Slots |-> IF parent[q] = p /\ pgdir[q] # pgdir[p] THEN initproc ELSE parent[q]]
    BY <1>12 DEF exit, Children
  <2>4. \A r \in Slots : pc'[r] = "run" => parent'[np'[r]] = r
    BY <1>2, <2>2, <2>3 DEF TypeOK, OneFiller, Filling
  <2>5. OrphansAreThreads'
    BY <1>1, <2>2, <2>3
  <2> QED  BY <1>1, <2>2, <2>3, <2>4, <2>5
<1> QED
  BY <1>3, <1>4, <1>5, <1>6, <1>9, <1>10, <1>11, <1>12 DEF Process

\* exit leaves a process that is not a thread of the one that exits to init: only
\* threads are left with a dead parent, in a table of any size.
THEOREM OrphansStayThreads == Spec => []OrphansAreThreads
<1>1. Init => Family
  BY TableSize DEF Init, Family, OrphansAreThreads, Started, Slots, initproc
<1>2. IInv /\ Family /\ [Next]_vars => Family'
  <2> SUFFICES ASSUME IInv, Family, [Next]_vars PROVE Family'
    OBVIOUS
  <2>1. CASE UNCHANGED vars
    BY <2>1 DEF vars, Family, OrphansAreThreads, Started
  <2> QED  BY <2>1, FamilyKeeps DEF Next
<1>3. Family => OrphansAreThreads
  BY DEF Family
<1> QED
  BY InitIInv, StepKeeps, <1>1, <1>2, <1>3, PTL DEF Spec
=============================================================================
