----------------------------- MODULE TicketLock -----------------------------
(***************************************************************************)
(* The ticket lock of projects/concurrency-xv6-threads, in both versions:  *)
(* threads.patch draws the ticket with an atomic fetch-and-add;            *)
(* threads_asm.patch reads it and adds one to it with two instructions,    *)
(* between an xchg spin lock.  The threads take the lock again and again.  *)
(*                                                                         *)
(* ticket and turn are ints that nobody resets: they are counted modulo    *)
(* 2^Width.  turn is a plain int that the spinning thread reads in a race. *)
(* A build may read it in every iteration, or once and keep it in a        *)
(* register: Init chooses.  myturn and seen are 0 while nothing reads them.*)
(***************************************************************************)
EXTENDS Integers, FiniteSets

CONSTANTS Threads,
          Width      \* of an int, in bits: 2^Width tickets, at least one per thread

VARIABLES asm,       \* which of the two versions
          rereads,   \* whether the loop reads turn every time
          pc, ticket, turn, myturn, seen, global_lock

vars == <<asm, rereads, pc, ticket, turn, myturn, seen, global_lock>>

Plus1(n) == (n + 1) % 2 ^ Width
Goto(t, l) == pc' = [pc EXCEPT ![t] = l]
First == IF asm THEN "xchg" ELSE "fetch_add"

\* lock_init and init_global_lock
Init ==
  /\ asm \in BOOLEAN /\ rereads \in BOOLEAN
  /\ pc = [t \in Threads |-> First]
  /\ ticket = 0 /\ turn = 0 /\ global_lock = 0
  /\ myturn = [t \in Threads |-> 0] /\ seen = [t \in Threads |-> 0]

\* __atomic_fetch_add
FetchAdd(t) ==
  /\ pc[t] = "fetch_add" /\ Goto(t, "load")
  /\ myturn' = [myturn EXCEPT ![t] = ticket] /\ ticket' = Plus1(ticket)
  /\ UNCHANGED <<asm, rereads, turn, seen, global_lock>>

\* An xchg that does not look at what was there.
Xchg_Ignored(t) ==
  /\ pc[t] = "xchg" /\ Goto(t, "mov") /\ global_lock' = 1
  /\ UNCHANGED <<asm, rereads, ticket, turn, myturn, seen>>

\* while(xchg(&global_lock, 1) != 0): the iterations that find 1 change nothing.
Xchg(t) ==
  /\ pc[t] = "xchg" /\ global_lock = 0 /\ Goto(t, "mov") /\ global_lock' = 1
  /\ UNCHANGED <<asm, rereads, ticket, turn, myturn, seen>>

\* mov, then lock addl
Mov(t) ==
  /\ pc[t] = "mov" /\ Goto(t, "addl")
  /\ myturn' = [myturn EXCEPT ![t] = ticket]
  /\ UNCHANGED <<asm, rereads, ticket, turn, seen, global_lock>>

Addl(t) ==
  /\ pc[t] = "addl" /\ Goto(t, "movl") /\ ticket' = Plus1(ticket)
  /\ UNCHANGED <<asm, rereads, turn, myturn, seen, global_lock>>

Movl(t) ==
  /\ pc[t] = "movl" /\ Goto(t, "load") /\ global_lock' = 0
  /\ UNCHANGED <<asm, rereads, ticket, turn, myturn, seen>>

\* while (lock->turn != myturn): turn is read, then compared.
Load(t) ==
  /\ pc[t] = "load" /\ Goto(t, "compare")
  /\ seen' = [seen EXCEPT ![t] = turn]
  /\ UNCHANGED <<asm, rereads, ticket, turn, myturn, global_lock>>

Compare(t) ==
  /\ pc[t] = "compare"
  /\ \/ seen[t] = myturn[t] /\ Goto(t, "cs")
     \/ seen[t] # myturn[t] /\ rereads /\ Goto(t, "load")
  /\ seen' = [seen EXCEPT ![t] = 0]
  /\ UNCHANGED <<asm, rereads, ticket, turn, myturn, global_lock>>

\* A release that leaves turn as it is.
lock_release_NoTurn(t) ==
  /\ pc[t] = "cs" /\ Goto(t, First) /\ UNCHANGED turn
  /\ myturn' = [myturn EXCEPT ![t] = 0]
  /\ UNCHANGED <<asm, rereads, ticket, seen, global_lock>>

\* The end of the critical section; the next call of lock_acquire follows.
lock_release(t) ==
  /\ pc[t] = "cs" /\ Goto(t, First) /\ turn' = Plus1(turn)
  /\ myturn' = [myturn EXCEPT ![t] = 0]
  /\ UNCHANGED <<asm, rereads, ticket, seen, global_lock>>

lock_acquire(t) == FetchAdd(t) \/ Xchg(t) \/ Mov(t) \/ Addl(t) \/ Movl(t) \/ Load(t) \/ Compare(t)
Thread(t) == lock_acquire(t) \/ lock_release(t)
Next == \E t \in Threads : Thread(t)

Spec == Init /\ [][Next]_vars
-----------------------------------------------------------------------------
holders == {t \in Threads : pc[t] = "cs"}

Abstract == INSTANCE RWLock WITH Readers <- {}, Writers <- Threads, inside <- holders

\* First come, first served: the threads that hold a ticket and have not given
\* it back hold those from turn on, one each, and a thread in the critical
\* section holds turn itself, also when the counters have wrapped around.
Drawn == {t \in Threads : pc[t] \in {"addl", "movl", "load", "compare", "cs"}}

InTicketOrder ==
  /\ \A t, u \in Drawn : myturn[t] = myturn[u] => t = u
  /\ \A t \in Drawn : (myturn[t] - turn) % 2 ^ Width < Cardinality(Drawn)
  /\ \A t \in Threads : pc[t] = "cs" => myturn[t] = turn
=============================================================================
