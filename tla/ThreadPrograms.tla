--------------------------- MODULE ThreadPrograms ---------------------------
(***************************************************************************)
(* The semaphore programs of chapter 31 (module SemPrograms) and the data  *)
(* structures of chapter 29 under TLC: approximate_counter.c,              *)
(* hand-over-hand-locking-list.c, concurrent-linked-list.c,                *)
(* concurrent_queue.c and btree.c are called by any threads.  A behaviour  *)
(* is a history of one program; the state of the others stays at its       *)
(* initial value.                                                          *)
(***************************************************************************)
EXTENDS SemPrograms

CONSTANTS CounterThreads, NUMCPUS, MaxThreshold, Loops,
          ListThreads, CoarseThreads, ListKeys, MaxNodes, MaxCoarseNodes,
          QueueThreads, MaxQueueNodes, MaxEnqueued,
          M, TreeKeys, Vals, MaxPuts

VARIABLES apc, cpu, left, local, global, threshold, llock, glock,
          opc, oarg, onew, ocurr, otemp, orv, ohead, insert_lock, okey, onext, olock, oused,
          cpc, carg, cnew, ccurr, crv, chead, clock, ckey, cnext, cused,
          qpc, tmp, newHead, qhead, tail, headLock, tailLock, qnext, qlive, linked, taken,
          root, height, n, count

avars == <<apc, cpu, left, local, global, threshold, llock, glock>>
ovars == <<opc, oarg, onew, ocurr, otemp, orv, ohead, insert_lock, okey, onext, olock, oused>>
cvars == <<cpc, carg, cnew, ccurr, crv, chead, clock, ckey, cnext, cused>>
qvars == <<qpc, tmp, newHead, qhead, tail, headLock, tailLock, qnext, qlive, linked, taken>>
tvars == <<root, height, n, count>>
structures == <<avars, ovars, cvars, qvars, tvars>>
vars == <<semVars, structures>>

Counter == INSTANCE ApproxCounter WITH Threads <- CounterThreads, pc <- apc

HandOverHand == INSTANCE HandOverHandList WITH
  Threads <- ListThreads, Keys <- ListKeys, pc <- opc, arg <- oarg, new <- onew,
  curr <- ocurr, temp <- otemp, rv <- orv, head <- ohead, key <- okey, next <- onext,
  lock <- olock, used <- oused

Coarse == INSTANCE CoarseList WITH
  Threads <- CoarseThreads, Keys <- ListKeys, MaxNodes <- MaxCoarseNodes,
  pc <- cpc, arg <- carg, new <- cnew, curr <- ccurr, rv <- crv, head <- chead,
  lock <- clock, key <- ckey, next <- cnext, used <- cused

Queue == INSTANCE Queue WITH
  Threads <- QueueThreads, MaxNodes <- MaxQueueNodes,
  pc <- qpc, head <- qhead, next <- qnext, live <- qlive

Tree == INSTANCE BTree WITH Keys <- TreeKeys

\* The mapping of threads to CPUs and the threshold of approximate_counter.c
\* matter to that program alone.
Init ==
  /\ program \in {"rendezvous", "barrier", "fork-join",
                  "smokers", "savages", "barbershop", "fifo", "hilzers",
                  "counter", "hand-over-hand", "list", "queue", "btree"}
  /\ SemInit
  /\ Counter!Init /\ HandOverHand!Init /\ Coarse!Init /\ Queue!Init /\ Tree!Init
  /\ program # "counter" => threshold = 1 /\ \A t \in CounterThreads : cpu[t] = 0

RunSem == SemNext /\ UNCHANGED structures
RunCounter == program = "counter" /\ Counter!Next /\ UNCHANGED <<semVars, ovars, cvars, qvars, tvars>>
RunHandOverHand == program = "hand-over-hand" /\ HandOverHand!Next /\ UNCHANGED <<semVars, avars, cvars, qvars, tvars>>
RunCoarse == program = "list" /\ Coarse!Next /\ UNCHANGED <<semVars, avars, ovars, qvars, tvars>>
RunQueue == program = "queue" /\ Queue!Next /\ UNCHANGED <<semVars, avars, ovars, cvars, tvars>>
RunTree == program = "btree" /\ Tree!Next /\ UNCHANGED <<semVars, avars, ovars, cvars, qvars>>

Next == RunSem \/ RunCounter \/ RunHandOverHand \/ RunCoarse \/ RunQueue \/ RunTree

\* The kernel runs every thread that is not blocked.  A thread that is blocked
\* is never overtaken for ever, since every thread passes a wait at most a
\* bounded number of times, or, if it calls a list or the queue for ever, the
\* property does not speak of it: weak fairness is enough.  Nothing makes the
\* user kill a program or run it again, or a thread call an operation.
Fairness ==
  /\ WF_rvars(program = "rendezvous" /\ (Rendezvous!OpenAll \/ Rendezvous!main \/ Rendezvous!UnlinkAll))
  /\ WF_rvars(program = "rendezvous" /\ Rendezvous!child_1 /\ Rendezvous!Child)
  /\ WF_rvars(program = "rendezvous" /\ Rendezvous!child_2 /\ Rendezvous!Child)
  /\ WF_nvars(program = "barrier" /\ Barrier!Main)
  /\ \A t \in BarrierThreads : WF_nvars(program = "barrier" /\ Barrier!Child(t))
  /\ WF_jvars(program = "fork-join" /\ (ForkJoin!Open \/ ForkJoin!Fork \/ ForkJoin!Join))
  /\ \A k \in 1..MaxRuns : WF_jvars(program = "fork-join" /\ ForkJoin!Child(k))
  /\ \A a \in Smokers!Agents : WF_svars(program = "smokers" /\ Smokers!agent(a))
  /\ \A s \in Smokers!Smokers : WF_svars(program = "smokers" /\ Smokers!smoker(s))
  /\ WF_vvars(program = "savages" /\ Savages!cook)
  /\ \A t \in SavageThreads : WF_vvars(program = "savages" /\ Savages!savage(t))
  /\ WF_bvars(program = "barbershop" /\ Barbershop!barber)
  /\ WF_bvars(program = "barbershop" /\ Barbershop!main)
  /\ \A c \in BarberCustomers : WF_bvars(program = "barbershop" /\ Barbershop!customer(c))
  /\ WF_fvars(program = "fifo" /\ Fifo!barber)
  /\ \A c \in FifoCustomers : WF_fvars(program = "fifo" /\ Fifo!customer(c))
  /\ \A u \in HilzersUshers : WF_hvars(program = "hilzers" /\ Hilzers!usher(u))
  /\ \A b \in HilzersBarbers : WF_hvars(program = "hilzers" /\ Hilzers!barber(b))
  /\ \A c \in HilzersCustomers : WF_hvars(program = "hilzers" /\ Hilzers!customer(c))
  /\ \A t \in CounterThreads : WF_avars(program = "counter" /\ Counter!update(t))
  /\ \A t \in ListThreads : WF_ovars(program = "hand-over-hand"
                                      /\ (HandOverHand!List_Insert(t) \/ HandOverHand!List_Lookup(t)))
  /\ \A t \in CoarseThreads : WF_cvars(program = "list"
                                        /\ (Coarse!List_Insert(t) \/ Coarse!List_Lookup(t)))
  /\ \A t \in QueueThreads : WF_qvars(program = "queue" /\ qpc[t] # "idle"
                                        /\ (Queue!Queue_Enqueue(t) \/ Queue!Queue_Dequeue(t)))

Spec == Init /\ [][Next]_vars /\ Fairness
-----------------------------------------------------------------------------
\* approximate_counter.c: no update is lost and none is counted twice, and get
\* is behind by less than a threshold per CPU.  concurrent_queue.c: no node is
\* used after it was freed, although the two ends have a lock each.  Counts,
\* heads, tails and locks stay within their bounds.
NothingLost ==
  /\ Counter!TypeOK /\ HandOverHand!TypeOK /\ Coarse!TypeOK /\ Queue!TypeOK
  /\ Counter!NothingLost /\ Counter!ApproximationBound /\ Queue!NoUseAfterFree

\* hand-over-hand-locking-list.c and concurrent-linked-list.c: the operations
\* take effect at once, although a lookup reads the head of the first list
\* without a lock.
ListsAreSets == HandOverHand!IsKeySet /\ Coarse!IsKeySet

\* btree.c: all leaves at the same height, all nodes at least half full, the
\* leaves hold what was put, in order, and search finds exactly that.
TreeIsSearchable == Tree!Balanced /\ Tree!LeavesInOrder /\ Tree!SearchFinds

\* Whichever program runs, it finishes.  Whatever an earlier run left behind,
\* rendezvous.c ends with /dev/shm clean; so does barrier.c when it finds no
\* name left behind, and the parent of fork-join.c gets past its wait unless
\* it is killed.  For every order of the agents every smoker is served, for
\* every number of savages and pot size all eat, and every customer of a
\* barbershop gets a haircut or balks, and leaves.  The threads of the counter
\* end; once no more calls of a list or of the queue are made, every call has
\* returned, since the locks are always taken in the same order.
AllFinish ==
  <>[][HandOverHand!NoCall /\ Coarse!NoCall /\ Queue!NoCall]_structures =>
  <>[](\/ program = "rendezvous" /\ Rendezvous!Clean
       \/ program = "barrier" /\ (nstale \/ Barrier!Clean)
       \/ program = "fork-join" /\ parent = "exited"
       \/ program = "smokers" /\ Smokers!Finished
       \/ program = "savages" /\ Savages!Finished
       \/ program = "barbershop" /\ Barbershop!Finished
       \/ program = "fifo" /\ Fifo!Finished
       \/ program = "hilzers" /\ Hilzers!Finished
       \/ program = "counter" /\ Counter!Quiet
       \/ program = "hand-over-hand" /\ HandOverHand!Quiet
       \/ program = "list" /\ Coarse!Quiet
       \/ program = "queue" /\ Queue!Quiet
       \/ program = "btree")
=============================================================================
