-------------------------------- MODULE Locks --------------------------------
(***************************************************************************)
(* The locks under TLC: the two reader-writer programs of chapter 31, for  *)
(* the same readers and writers, and the ticket lock of the xv6 threads.   *)
(* A behaviour is a run of one of them.                                    *)
(***************************************************************************)
EXTENDS ReaderWriter, FiniteSets

CONSTANTS LockThreads, Width

VARIABLES program,               \* the program that runs
          npc, nsem, nreaders,   \* the state of reader-writer-nostarve.c
          asm, rereads, tpc, ticket, turn, myturn, seen, global_lock

NoStarve == INSTANCE ReaderWriterNoStarve WITH pc <- npc, sem <- nsem, readers <- nreaders

Tickets == INSTANCE TicketLock WITH Threads <- LockThreads, pc <- tpc

\* Every thread can have a ticket of its own.
ASSUME EnoughTickets ==
  /\ Width \in Nat /\ 2 ^ Width \in Nat \ {0}
  /\ IsFiniteSet(LockThreads) /\ Cardinality(LockThreads) <= 2 ^ Width

noStarveVars == <<npc, nsem, nreaders>>
ticketVars == <<asm, rereads, tpc, ticket, turn, myturn, seen, global_lock>>
locksVars == <<program, vars, noStarveVars, ticketVars>>

LocksInit ==
  /\ program \in {"reader-writer", "reader-writer-nostarve", "ticket-lock"}
  /\ Init /\ NoStarve!Init /\ Tickets!Init
  /\ program # "ticket-lock" => ~asm /\ ~rereads

RunPlain == program = "reader-writer" /\ Next /\ UNCHANGED <<program, noStarveVars, ticketVars>>

RunNoStarve ==
  program = "reader-writer-nostarve" /\ NoStarve!Next /\ UNCHANGED <<program, vars, ticketVars>>

RunTickets == program = "ticket-lock" /\ Tickets!Next /\ UNCHANGED <<program, vars, noStarveVars>>

\* A thread of the second program that can take its next step again and again
\* eventually takes it: one blocked in sem_wait that keeps seeing tokens posted
\* is eventually the one to get one.  The threads of the third are scheduled
\* again and again; one whose xchg finds the spin lock free again and again
\* gets it, which x86 does not promise but every cache protocol does.
LocksSpec ==
  /\ LocksInit /\ [][RunPlain \/ RunNoStarve \/ RunTickets]_locksVars
  /\ \A r \in Readers :
       SF_noStarveVars(program = "reader-writer-nostarve" /\ NoStarve!Reader(r))
  /\ \A w \in Writers :
       SF_noStarveVars(program = "reader-writer-nostarve" /\ NoStarve!Writer(w))
  /\ \A t \in LockThreads :
       /\ WF_ticketVars(program = "ticket-lock" /\ Tickets!Thread(t))
       /\ SF_ticketVars(program = "ticket-lock" /\ Tickets!Xchg(t))
-----------------------------------------------------------------------------
\* README Q5: "ensure that all readers and writers eventually make progress",
\* and a writer is alone: reader-writer-nostarve.c implements the abstract lock
\* with its progress.
ImplementsFairRWLock ==
  /\ NoStarve!Abstract!SafeSpec
  /\ program = "reader-writer-nostarve" => NoStarve!Abstract!Progress

\* lock_acquire and lock_release of both patches implement the mutex, and without
\* starvation in a build that reads turn in every iteration.
TicketsAreMutex ==
  /\ Tickets!Abstract!SafeSpec
  /\ program = "ticket-lock" /\ rereads => Tickets!Abstract!Progress

\* The ticket lock is first come, first served, also when the counters wrap.
InTicketOrder == Tickets!InTicketOrder
=============================================================================
