------------------------------ MODULE Xv6Proc ------------------------------
(***************************************************************************)
(* The process table and the lottery scheduler of the xv6 kernel           *)
(* (projects/scheduling-xv6-lottery/src/proc.c, sysproc.c): fork, exit,    *)
(* wait, kill, settickets, sleep/wakeup and one scheduler per CPU.  A slot *)
(* of the table is a number 1..NPROC; slot 1 is initproc.                  *)
(*                                                                         *)
(* ptable.lock travels with a CPU: the scheduler takes it, the process it  *)
(* switches to releases it, and a process that gives the CPU up takes it   *)
(* again for the scheduler.  What a CPU does while it holds that lock is   *)
(* one step, up to the switch; fork's writes to the slot it is filling     *)
(* are made without it and are steps of their own.                         *)
(***************************************************************************)
EXTENDS Naturals, FiniteSets, Functions, FiniteSetTheorems, TLAPS

CONSTANTS CPUs,        \* the processors
          Free,        \* a lock nobody holds
          NPROC,       \* slots of the process table
          MaxPid,      \* bound: pids handed out
          MaxSleep,    \* bound: ticks sys_sleep is asked for
          MaxTickets   \* bound: tickets a process may ask for

ASSUME Sizes ==
    /\ NPROC \in Nat \ {0} /\ MaxPid \in Nat \ {0} /\ MaxTickets \in Nat \ {0}
    /\ MaxSleep \in Nat /\ Free \notin CPUs \union 1 .. NPROC

VARIABLES state, pid, parent, killed, chan, tickets, \* struct proc
          pc,        \* where each process is in the kernel
          np,        \* fork's np, 0 when there is none
          left,      \* sys_sleep: n - (ticks - ticks0), the ticks still to come
          cpu,       \* cpu[c]: c->proc, 0 while the scheduler runs
          at,        \* the scheduler's p when it switched, 0 between rounds
          plock,     \* the CPU that holds ptable.lock
          tlock,     \* the process that holds tickslock
          nextpid

proc == <<state, pid, parent, killed, chan, tickets>>
sched == <<cpu, at, plock>>
clock == <<left, tlock>>
vars == <<proc, pc, np, sched, nextpid, clock>>

Slots == 1 .. NPROC
initproc == 1
TicksChan == NPROC + 1      \* the address of ticks, as a channel
First(S) == {p \in S : \A q \in S : p <= q}     \* what a loop over the table finds first
Calls == {"fork", "exit", "wait", "kill", "settickets", "sys_sleep"}

\* userinit has run: slot 1 is RUNNABLE and every CPU is in its scheduler.
Init ==
    /\ state = [p \in Slots |-> IF p = initproc THEN "RUNNABLE" ELSE "UNUSED"]
    /\ pid = [p \in Slots |-> IF p = initproc THEN 1 ELSE 0]
    /\ parent = [p \in Slots |-> 0]
    /\ killed = [p \in Slots |-> FALSE]
    /\ chan = [p \in Slots |-> 0]
    /\ tickets = [p \in Slots |-> IF p = initproc THEN 1 ELSE 0]
    /\ pc = [p \in Slots |-> "user"]
    /\ np = [p \in Slots |-> 0]
    /\ left = [p \in Slots |-> 0]
    /\ cpu = [c \in CPUs |-> 0]
    /\ at = [c \in CPUs |-> 0]
    /\ plock = Free
    /\ tlock = Free
    /\ nextpid = 2

-----------------------------------------------------------------------------
(* The scheduler of a CPU.                                                 *)

Runnable == {p \in Slots : state[p] = "RUNNABLE"}
TicketsOf(S) == FoldFunctionOnSet(+, 0, tickets, S)

\* getwinner: any number of the closed interval, the total included.
getwinner(totaltickets) == 0 .. totaltickets

\* The slots at which the loop's counter has passed the winning number.
Passed(winner) ==
    {p \in Runnable : TicketsOf({q \in Runnable : q <= p}) > winner}

\* swtch to p.  p returns from sched() or starts at forkret; it clears its
\* chan and releases the lock, except in wait, which goes on holding it.
Switch(c, p) ==
    /\ state' = [state EXCEPT ![p] = "RUNNING"]
    /\ chan' = [chan EXCEPT ![p] = 0]
    /\ cpu' = [cpu EXCEPT ![c] = p]
    /\ at' = [at EXCEPT ![c] = p]
    /\ plock' = IF pc[p] = "wait_woken" THEN c ELSE Free
    /\ UNCHANGED <<pid, parent, killed, tickets, pc, np, nextpid, clock>>

\* A round begun without the lock.
Draw_Unlocked(c) ==
    /\ cpu[c] = 0 /\ at[c] = 0
    /\ \E winner \in getwinner(TicketsOf(Runnable)) :
          \E p \in First(Passed(winner)) : Switch(c, p)

\* A round: draw a number and run the first process whose tickets pass it.
\* When the number is the total nobody does and the round changes nothing.
Draw(c) ==
    /\ cpu[c] = 0 /\ at[c] = 0 /\ plock = Free
    /\ \E winner \in getwinner(TicketsOf(Runnable)) :
          \E p \in First(Passed(winner)) : Switch(c, p)

\* A loop that keeps the lock from one round to the next.
Continue_NeverReleases(c) ==
    LET later == {p \in Runnable : p > at[c]}
    IN  /\ cpu[c] = 0 /\ plock = c
        /\ \/ \E p \in First(later) : Switch(c, p)
           \/ /\ later = {}
              /\ at' = [at EXCEPT ![c] = 0]
              /\ UNCHANGED <<proc, pc, np, cpu, plock, nextpid, clock>>

\* Back from swtch: the loop has no break and counter stays above winner, so
\* every later RUNNABLE slot gets its turn; then the lock is released.
Continue(c) ==
    LET later == {p \in Runnable : p > at[c]}
    IN  /\ cpu[c] = 0 /\ at[c] # 0 /\ plock = c
        /\ \/ \E p \in First(later) : Switch(c, p)
           \/ /\ later = {}
              /\ at' = [at EXCEPT ![c] = 0]
              /\ plock' = Free
              /\ UNCHANGED <<proc, pc, np, cpu, nextpid, clock>>

-----------------------------------------------------------------------------
(* Processes.  On(c, p): p runs on c and holds no spinlock.                *)

On(c, p) == cpu[c] = p /\ plock # c /\ tlock # p

\* sched(): the CPU goes back to its scheduler with ptable.lock held.
sched_(c) == cpu' = [cpu EXCEPT ![c] = 0] /\ plock' = c /\ UNCHANGED at

Return(p) == pc' = [pc EXCEPT ![p] = "user"]

\* A trap from user space: a killed process exits, another makes a call.
\* init never exits and never asks for tickets.
syscall(c, p) ==
    /\ On(c, p) /\ pc[p] = "user"
    /\ \E call \in Calls :
          /\ killed[p] => call = "exit"
          /\ call = "fork" => nextpid <= MaxPid
          /\ p = initproc => call \notin {"exit", "settickets"}
          /\ pc' = [pc EXCEPT ![p] = call]
    /\ UNCHANGED <<proc, np, sched, nextpid, clock>>

\* A clock interrupt while p runs with interrupts on.
yield(c, p) ==
    /\ On(c, p) /\ plock = Free
    /\ state' = [state EXCEPT ![p] = "RUNNABLE"]
    /\ sched_(c)
    /\ UNCHANGED <<pid, parent, killed, chan, tickets, pc, np, nextpid, clock>>

\* fork, first part: allocproc takes the first UNUSED slot, if there is one.
Unused == {q \in Slots : state[q] = "UNUSED"}
allocproc(c, p) ==
    /\ On(c, p) /\ pc[p] = "fork" /\ plock = Free
    /\ \/ /\ Unused = {}
          /\ Return(p)
          /\ UNCHANGED <<proc, np, nextpid>>
       \/ /\ nextpid <= MaxPid
          /\ \E q \in First(Unused) :
                /\ state' = [state EXCEPT ![q] = "EMBRYO"]
                /\ pid' = [pid EXCEPT ![q] = nextpid]
                /\ tickets' = [tickets EXCEPT ![q] = 1]
                /\ np' = [np EXCEPT ![p] = q]
          /\ nextpid' = nextpid + 1
          /\ pc' = [pc EXCEPT ![p] = "fork_copy"]
          /\ UNCHANGED <<parent, killed, chan>>
    /\ UNCHANGED <<sched, clock>>

\* kalloc or copyuvm finds no memory: the slot is given back, without the
\* lock and with its pid and killed left as they are.
fork_fails(c, p) ==
    /\ On(c, p) /\ pc[p] = "fork_copy"
    /\ state' = [state EXCEPT ![np[p]] = "UNUSED"]
    /\ np' = [np EXCEPT ![p] = 0]
    /\ Return(p)
    /\ UNCHANGED <<pid, parent, killed, chan, tickets, sched, nextpid, clock>>

\* The child's fields, written without the lock.
fork_copies(c, p) ==
    /\ On(c, p) /\ pc[p] = "fork_copy"
    /\ parent' = [parent EXCEPT ![np[p]] = p]
    /\ tickets' = [tickets EXCEPT ![np[p]] = tickets[p]]
    /\ pc' = [pc EXCEPT ![p] = "fork_run"]
    /\ UNCHANGED <<state, pid, killed, chan, np, sched, nextpid, clock>>

fork_runs(c, p) ==
    /\ On(c, p) /\ pc[p] = "fork_run" /\ plock = Free
    /\ state' = [state EXCEPT ![np[p]] = "RUNNABLE"]
    /\ pc' = [pc EXCEPT ![p] = "user", ![np[p]] = "user"]
    /\ np' = [np EXCEPT ![p] = 0]
    /\ UNCHANGED <<pid, parent, killed, chan, tickets, sched, nextpid, clock>>

\* wakeup1(chan): the slots it makes RUNNABLE.
wakeup1(ch) == {q \in Slots : state[q] = "SLEEPING" /\ chan[q] = ch}
Wake(S) == [q \in Slots |-> IF q \in S THEN "RUNNABLE" ELSE state[q]]

Children(p) == {q \in Slots : parent[q] = p}
Zombies(p) == {q \in Children(p) : state[q] = "ZOMBIE"}

\* An exit that leaves its children to nobody.
exit_KeepsChildren(c, p) ==
    /\ On(c, p) /\ pc[p] = "exit" /\ plock = Free
    /\ state' = [Wake(wakeup1(parent[p])) EXCEPT ![p] = "ZOMBIE"]
    /\ sched_(c)
    /\ UNCHANGED <<pid, parent, killed, chan, tickets, pc, np, nextpid, clock>>

\* exit: wake the parent, give the children to init (and wake init if one of
\* them is dead), become a ZOMBIE.
exit(c, p) ==
    LET woken == wakeup1(parent[p])
                     \union IF Zombies(p) # {} THEN wakeup1(initproc) ELSE {}
    IN  /\ On(c, p) /\ pc[p] = "exit" /\ plock = Free
        /\ state' = [Wake(woken) EXCEPT ![p] = "ZOMBIE"]
        /\ parent' = [q \in Slots |-> IF q \in Children(p) THEN initproc ELSE parent[q]]
        /\ sched_(c)
        /\ UNCHANGED <<pid, killed, chan, tickets, pc, np, nextpid, clock>>

\* wait: one turn of its loop, entered with the lock to take or, after
\* sleep, already held.  It reaps the first ZOMBIE child, returns -1, or
\* sleeps on itself.
wait(c, p) ==
    /\ cpu[c] = p /\ tlock # p
    /\ \/ pc[p] = "wait" /\ plock = Free
       \/ pc[p] = "wait_woken" /\ plock = c
    /\ \/ /\ \E q \in First(Zombies(p)) :
                /\ state' = [state EXCEPT ![q] = "UNUSED"]
                /\ pid' = [pid EXCEPT ![q] = 0]
                /\ parent' = [parent EXCEPT ![q] = 0]
                /\ killed' = [killed EXCEPT ![q] = FALSE]
          /\ plock' = Free
          /\ Return(p)
          /\ UNCHANGED <<chan, cpu, at>>
       \/ /\ Zombies(p) = {} /\ (Children(p) = {} \/ killed[p])
          /\ plock' = Free
          /\ Return(p)
          /\ UNCHANGED <<state, pid, parent, killed, chan, cpu, at>>
       \/ /\ Zombies(p) = {} /\ Children(p) # {} /\ ~killed[p]
          /\ state' = [state EXCEPT ![p] = "SLEEPING"]
          /\ chan' = [chan EXCEPT ![p] = p]
          /\ pc' = [pc EXCEPT ![p] = "wait_woken"]
          /\ sched_(c)
          /\ UNCHANGED <<pid, parent, killed>>
    /\ UNCHANGED <<tickets, np, nextpid, clock>>

\* kill(n): the first slot with that pid, whatever its state; no slot, -1.
\* Killing init makes the kernel panic and is left out.
kill(c, p) ==
    /\ On(c, p) /\ pc[p] = "kill" /\ plock = Free
    /\ \E n \in (0 .. MaxPid) \ {1} :
          LET named == {q \in Slots : pid[q] = n}
          IN  \/ named = {} /\ UNCHANGED <<killed, state>>
              \/ \E q \in First(named) :
                    /\ killed' = [killed EXCEPT ![q] = TRUE]
                    /\ state' = Wake({q} \cap {r \in Slots : state[r] = "SLEEPING"})
    /\ Return(p)
    /\ UNCHANGED <<pid, parent, chan, tickets, np, sched, nextpid, clock>>

\* sys_settickets and settickets: the first slot with the caller's pid.
settickets(c, p) ==
    /\ On(c, p) /\ pc[p] = "settickets" /\ plock = Free
    /\ \E n \in 1 .. MaxTickets, q \in First({r \in Slots : pid[r] = pid[p]}) :
          tickets' = [tickets EXCEPT ![q] = n]
    /\ Return(p)
    /\ UNCHANGED <<state, pid, parent, killed, chan, np, sched, nextpid, clock>>

-----------------------------------------------------------------------------
(* sys_sleep and the clock.                                                *)

\* The head of the loop, with tickslock taken: return, or go on to sleep().
Looks(p, n) ==
    /\ \/ /\ n = 0 \/ killed[p]
          /\ Return(p)
          /\ left' = [left EXCEPT ![p] = 0]
          /\ UNCHANGED tlock
       \/ /\ n > 0 /\ ~killed[p]
          /\ pc' = [pc EXCEPT ![p] = "sleep"]
          /\ left' = [left EXCEPT ![p] = n]
          /\ tlock' = p
    /\ UNCHANGED <<proc, np, sched, nextpid>>

sys_sleep(c, p) ==
    /\ On(c, p) /\ pc[p] = "sys_sleep" /\ tlock = Free
    /\ \E n \in 0 .. MaxSleep : Looks(p, n)

\* sleep() has returned: it released ptable.lock and takes tickslock again.
sys_sleep_again(c, p) ==
    /\ On(c, p) /\ pc[p] = "sleep_woken" /\ tlock = Free
    /\ Looks(p, left[p])

\* A sleep that lets tickslock go before it has ptable.lock.
sleep_ReleasesFirst(c, p) ==
    /\ cpu[c] = p /\ pc[p] = "sleep"
    /\ \/ tlock = p /\ tlock' = Free /\ UNCHANGED <<state, chan, pc, sched>>
       \/ /\ tlock # p /\ plock = Free
          /\ UNCHANGED tlock
          /\ state' = [state EXCEPT ![p] = "SLEEPING"]
          /\ chan' = [chan EXCEPT ![p] = TicksChan]
          /\ pc' = [pc EXCEPT ![p] = "sleep_woken"]
          /\ sched_(c)
    /\ UNCHANGED <<pid, parent, killed, tickets, np, nextpid, left>>

\* sleep(&ticks, &tickslock): ptable.lock first, then tickslock is let go.
sleep(c, p) ==
    /\ cpu[c] = p /\ pc[p] = "sleep" /\ tlock = p /\ plock = Free
    /\ tlock' = Free
    /\ state' = [state EXCEPT ![p] = "SLEEPING"]
    /\ chan' = [chan EXCEPT ![p] = TicksChan]
    /\ pc' = [pc EXCEPT ![p] = "sleep_woken"]
    /\ sched_(c)
    /\ UNCHANGED <<pid, parent, killed, tickets, np, nextpid, left>>

\* The clock interrupt (trap.c, not in the repository): ticks++ and
\* wakeup(&ticks), under tickslock and then ptable.lock.
tick ==
    /\ tlock = Free /\ plock = Free
    /\ left' = [p \in Slots |-> IF left[p] = 0 THEN 0 ELSE left[p] - 1]
    /\ state' = Wake(wakeup1(TicksChan))
    /\ UNCHANGED <<pid, parent, killed, chan, tickets, pc, np, sched, nextpid, tlock>>

-----------------------------------------------------------------------------
Scheduler(c) == Draw(c) \/ Continue(c)

Process(c, p) ==
    \/ syscall(c, p) \/ yield(c, p)
    \/ allocproc(c, p) \/ fork_fails(c, p) \/ fork_copies(c, p) \/ fork_runs(c, p)
    \/ exit(c, p) \/ wait(c, p) \/ kill(c, p) \/ settickets(c, p)
    \/ sys_sleep(c, p) \/ sys_sleep_again(c, p) \/ sleep(c, p)

Next ==
    \/ \E c \in CPUs : Scheduler(c)
    \/ \E c \in CPUs, p \in Slots : Process(c, p)
    \/ tick

\* A CPU that holds ptable.lock runs with interrupts off and keeps executing:
\* it is in the scheduler's loop or in wait, just woken.  Nothing is assumed
\* of who gets a free spinlock, or of the lottery.
Fairness == \A c \in CPUs :
    WF_vars(Continue(c)) /\ WF_vars(\E p \in Slots : wait(c, p))

Spec == Init /\ [][Next]_vars /\ Fairness

-----------------------------------------------------------------------------
TypeOK ==
    /\ state \in [Slots -> {"UNUSED", "EMBRYO", "SLEEPING", "RUNNABLE",
                            "RUNNING", "ZOMBIE"}]
    /\ pid \in [Slots -> 0 .. MaxPid]
    /\ parent \in [Slots -> Slots \union {0}]
    /\ killed \in [Slots -> BOOLEAN]
    /\ chan \in [Slots -> Slots \union {0, TicksChan}]
    /\ tickets \in [Slots -> 0 .. MaxTickets]
    /\ pc \in [Slots -> Calls \union {"user", "fork_copy", "fork_run",
                                      "wait_woken", "sleep", "sleep_woken"}]
    /\ np \in [Slots -> Slots \union {0}]
    /\ left \in [Slots -> 0 .. MaxSleep]
    /\ cpu \in [CPUs -> Slots \union {0}]
    /\ at \in [CPUs -> Slots \union {0}]
    /\ plock \in CPUs \union {Free}
    /\ tlock \in Slots \union {Free}
    /\ nextpid \in 2 .. MaxPid + 1

InUse == {p \in Slots : state[p] # "UNUSED"}

\* No process runs on two CPUs: a slot is RUNNING exactly when one CPU has
\* it as c->proc.  A CPU between two processes of a round has the lock.
RunsOnce ==
    /\ \A p \in Slots :
          Cardinality({c \in CPUs : cpu[c] = p}) = IF state[p] = "RUNNING" THEN 1 ELSE 0
    /\ \A c \in CPUs : cpu[c] = 0 /\ at[c] # 0 => plock = c

\* The family is a tree under init: a process that has started, dead or
\* alive, has a parent that is neither free nor dead and can still wait for
\* it (the scheduler's cprintf follows p->parent without looking); a slot
\* that fork is filling belongs to one fork.  Two slots differ in pid, those
\* that a failed fork gave back with a pid included: kill and settickets mark
\* no process but the one with that pid.  A slot that was given back can still
\* be marked, and whoever is given the slot next is then killed at once.
FamilyKept ==
    /\ \A p \in InUse \ {initproc} :
          \/ state[p] = "EMBRYO"
          \/ parent[p] # 0 /\ state[parent[p]] \in {"SLEEPING", "RUNNABLE", "RUNNING"}
    /\ \A p \in Slots : state[p] = "EMBRYO" => Cardinality({q \in Slots : np[q] = p}) = 1
    /\ \A p, q \in Slots : pid[p] = pid[q] /\ pid[p] # 0 => p = q

\* No wakeup is missed.  A process asleep in wait has a child, has no
\* ZOMBIE child and was not killed; a process asleep in sys_sleep still has
\* a tick to wait for.
WakeupsKept ==
    \A p \in Slots : state[p] = "SLEEPING" =>
       \/ chan[p] = p /\ Children(p) # {} /\ Zombies(p) = {} /\ ~killed[p]
       \/ chan[p] = TicksChan /\ left[p] > 0

\* Whoever the scheduler passes ptable.lock to lets it go: the lock is
\* free again and again, whatever processes and schedulers do.
LockPassedOn == []<>(plock = Free)
-----------------------------------------------------------------------------
(* Proofs, for any number of CPUs and slots.                               *)

Alive(p) == state[p] \in {"SLEEPING", "RUNNABLE", "RUNNING"}

\* RunsOnce without counting.
OneCpu ==
    /\ \A c \in CPUs : cpu[c] # 0 => state[cpu[c]] = "RUNNING"
    /\ \A p \in Slots : state[p] = "RUNNING" => \E c \in CPUs : cpu[c] = p
    /\ \A c, d \in CPUs : cpu[c] = cpu[d] /\ cpu[c] # 0 => c = d
    /\ \A c \in CPUs : cpu[c] = 0 /\ at[c] # 0 => plock = c

\* A slot that is filled belongs to one fork, of a process that runs or may run.
OneFork ==
    /\ \A p \in Slots : np[p] # 0 <=> pc[p] \in {"fork_copy", "fork_run"}
    /\ \A p \in Slots : np[p] # 0 => state[p] \in {"RUNNABLE", "RUNNING"} /\ state[np[p]] = "EMBRYO"
    /\ \A p, q \in Slots : np[p] = np[q] /\ np[p] # 0 => p = q
    /\ \A p \in Slots : state[p] = "EMBRYO" => \E q \in Slots : np[q] = p

\* Who is whose child while fork has not finished; init never dies.
Family ==
    /\ \A p \in InUse \ {initproc} :
          state[p] = "EMBRYO" \/ (parent[p] # 0 /\ Alive(parent[p]))
    /\ \A p \in Slots : state[p] = "UNUSED" => parent[p] = 0
    /\ \A p \in Slots : pc[p] = "fork_copy" => parent[np[p]] = 0
    /\ \A p \in Slots : pc[p] = "fork_run" => parent[np[p]] = p
    /\ \A p \in Slots : parent[p] # p
    /\ Alive(initproc) /\ pc[initproc] # "exit" /\ parent[initproc] = 0

Pids ==
    /\ \A p \in Slots : pid[p] < nextpid
    /\ \A p, q \in Slots : pid[p] = pid[q] /\ pid[p] # 0 => p = q

\* A process that is about to sleep has tickslock, so no tick comes before.
Sleepers ==
    /\ \A p \in Slots : pc[p] = "sleep" => tlock = p /\ left[p] > 0
    /\ WakeupsKept

IInv == TypeOK /\ OneCpu /\ OneFork /\ Family /\ Pids /\ Sleepers

\* The values that stand for no process, no channel and no holder are no slots.
LEMMA SlotFacts ==
    /\ initproc \in Slots /\ 0 \notin Slots /\ TicksChan \notin Slots /\ TicksChan # 0
    /\ Free \notin CPUs /\ Free \notin Slots
BY Sizes DEF Slots, initproc, TicksChan

\* userinit leaves a table that satisfies the invariant.
LEMMA InitIInv == Init => IInv
<1> SUFFICES ASSUME Init PROVE IInv
  OBVIOUS
<1> USE SlotFacts DEF Init
<1>1. TypeOK
  BY Sizes DEF TypeOK, Calls
<1>2. OneCpu /\ OneFork
  BY DEF OneCpu, OneFork
<1>3. Family /\ Pids
  BY DEF Family, Pids, InUse, Alive, initproc
<1>4. Sleepers
  BY DEF Sleepers, WakeupsKept
<1> QED
  BY <1>1, <1>2, <1>3, <1>4 DEF IInv

\* One lemma per step, with one part of the invariant after the other.
LEMMA SwitchKeeps ==
    ASSUME IInv, NEW c \in CPUs, NEW p \in Runnable, cpu[c] = 0, plock \in {c, Free}, Switch(c, p)
    PROVE  IInv'
<1> USE SlotFacts DEF Switch, Runnable, proc, sched, clock
<1>1. TypeOK'
  BY DEF IInv, TypeOK, Calls
<1>2. OneCpu'
  BY DEF IInv, TypeOK, OneCpu
<1>3. OneFork'
  BY DEF IInv, TypeOK, OneFork
<1>4. Family'
  BY DEF IInv, TypeOK, OneFork, Family, InUse, Alive
<1>5. Pids'
  BY DEF IInv, TypeOK, Pids
<1>6. Sleepers'
  BY DEF IInv, TypeOK, Sleepers, WakeupsKept, Children, Zombies
<1> QED
  BY <1>1, <1>2, <1>3, <1>4, <1>5, <1>6 DEF IInv

\* Entering a system call keeps the invariant.
LEMMA SyscallKeeps ==
    ASSUME IInv, NEW c \in CPUs, NEW p \in Slots, syscall(c, p)
    PROVE  IInv'
<1> USE SlotFacts DEF syscall, On, proc, sched, clock
<1>0. state[p] = "RUNNING"
  BY DEF IInv, TypeOK, OneCpu
<1>1. TypeOK'
  BY DEF IInv, TypeOK, Calls
<1>2. OneCpu'
  BY <1>0 DEF IInv, TypeOK, OneCpu
<1>3. OneFork'
  BY <1>0 DEF IInv, TypeOK, OneFork, Calls
<1>4. Family'
  BY <1>0 DEF IInv, TypeOK, OneFork, Family, InUse, Alive, Calls
<1>5. Pids'
  BY <1>0 DEF IInv, TypeOK, Pids
<1>6. Sleepers'
  BY <1>0 DEF IInv, TypeOK, Sleepers, WakeupsKept, Children, Zombies, Calls
<1> QED
  BY <1>1, <1>2, <1>3, <1>4, <1>5, <1>6 DEF IInv

\* yield keeps it: a running process becomes runnable.
LEMMA YieldKeeps ==
    ASSUME IInv, NEW c \in CPUs, NEW p \in Slots, yield(c, p)
    PROVE  IInv'
<1> USE SlotFacts DEF yield, On, sched_, proc, sched, clock
<1>0. state[p] = "RUNNING"
  BY DEF IInv, TypeOK, OneCpu
<1>1. TypeOK'
  BY DEF IInv, TypeOK, Calls
<1>2. OneCpu'
  BY <1>0 DEF IInv, TypeOK, OneCpu
<1>3. OneFork'
  BY <1>0 DEF IInv, TypeOK, OneFork
<1>4. Family'
  BY <1>0 DEF IInv, TypeOK, OneFork, Family, InUse, Alive
<1>5. Pids'
  BY <1>0 DEF IInv, TypeOK, Pids
<1>6. Sleepers'
  BY <1>0 DEF IInv, TypeOK, Sleepers, WakeupsKept, Children, Zombies
<1> QED
  BY <1>1, <1>2, <1>3, <1>4, <1>5, <1>6 DEF IInv

\* allocproc keeps it: the slot it takes was unused.
LEMMA AllocprocKeeps ==
    ASSUME IInv, NEW c \in CPUs, NEW p \in Slots, allocproc(c, p)
    PROVE  IInv'
<1> USE SlotFacts DEF allocproc, On, Return, Unused, First, proc, sched, clock
<1>0. state[p] = "RUNNING"
  BY DEF IInv, TypeOK, OneCpu
<1>1. TypeOK'
  BY Sizes DEF IInv, TypeOK, Calls
<1>2. OneCpu'
  BY <1>0 DEF IInv, TypeOK, OneCpu
<1>3. OneFork'
  BY <1>0, SMTT(30) DEF IInv, TypeOK, OneFork
<1>4. Family'
  <2>1. parent' = parent /\ \A q \in Slots :
          state'[q] = state[q] \/ (state[q] = "UNUSED" /\ state'[q] = "EMBRYO")
    BY DEF IInv, TypeOK
  <2>2. \A q \in Slots : pc'[q] = "fork_copy" =>
          state[np'[q]] = "UNUSED" \/ (pc[q] = "fork_copy" /\ np'[q] = np[q])
    BY DEF IInv, TypeOK
  <2>3. \A q \in Slots : /\ pc'[q] = "fork_run" => pc[q] = "fork_run" /\ np'[q] = np[q]
                        /\ pc'[q] = "exit" => pc[q] = "exit"
    BY DEF IInv, TypeOK
  <2>4. np' \in [Slots -> Slots \union {0}] /\ \A q \in Slots : pc'[q] = "fork_copy" => np'[q] \in Slots
    BY SMTT(30) DEF IInv, TypeOK, OneFork
  <2> QED
    BY <2>1, <2>2, <2>3, <2>4 DEF IInv, TypeOK, Family, InUse, Alive
<1>5. Pids'
  BY <1>0 DEF IInv, TypeOK, Pids
<1>6. Sleepers'
  BY <1>0 DEF IInv, TypeOK, Sleepers, WakeupsKept, Children, Zombies
<1> QED
  BY <1>1, <1>2, <1>3, <1>4, <1>5, <1>6, Zenon DEF IInv

\* fork without memory keeps it: the slot is given back.
LEMMA ForkFailsKeeps ==
    ASSUME IInv, NEW c \in CPUs, NEW p \in Slots, fork_fails(c, p)
    PROVE  IInv'
<1> USE SlotFacts DEF fork_fails, On, Return, proc, sched, clock
<1>0. state[p] = "RUNNING"
  BY DEF IInv, TypeOK, OneCpu
<1>1. TypeOK'
  BY Zenon DEF IInv, TypeOK, Calls
<1>2. OneCpu'
  BY <1>0 DEF IInv, TypeOK, OneCpu, OneFork
<1>3. OneFork'
  BY <1>0 DEF IInv, TypeOK, OneFork
<1>4. Family'
  BY <1>0 DEF IInv, TypeOK, OneFork, Family, InUse, Alive
<1>5. Pids'
  BY <1>0 DEF IInv, TypeOK, Pids
<1>6. Sleepers'
  BY <1>0 DEF IInv, TypeOK, Sleepers, WakeupsKept, Children, Zombies
<1> QED
  BY <1>1, <1>2, <1>3, <1>4, <1>5, <1>6, Zenon DEF IInv

\* The copying in fork keeps it.
LEMMA ForkCopiesKeeps ==
    ASSUME IInv, NEW c \in CPUs, NEW p \in Slots, fork_copies(c, p)
    PROVE  IInv'
<1> USE SlotFacts DEF fork_copies, On, proc, sched, clock
<1>0. state[p] = "RUNNING"
  BY DEF IInv, TypeOK, OneCpu
<1>1. TypeOK'
  BY Zenon DEF IInv, TypeOK, Calls
<1>2. OneCpu'
  BY <1>0 DEF IInv, TypeOK, OneCpu
<1>3. OneFork'
  BY <1>0 DEF IInv, TypeOK, OneFork
<1>4. Family'
  BY <1>0 DEF IInv, TypeOK, OneFork, Family, InUse, Alive
<1>5. Pids'
  BY <1>0 DEF IInv, TypeOK, Pids
<1>6. Sleepers'
  BY <1>0 DEF IInv, TypeOK, Sleepers, WakeupsKept, Children, Zombies, OneFork, Family
<1> QED
  BY <1>1, <1>2, <1>3, <1>4, <1>5, <1>6 DEF IInv

\* Making the child runnable keeps it.
LEMMA ForkRunsKeeps ==
    ASSUME IInv, NEW c \in CPUs, NEW p \in Slots, fork_runs(c, p)
    PROVE  IInv'
<1> USE SlotFacts DEF fork_runs, On, proc, sched, clock
<1>0. state[p] = "RUNNING"
  BY DEF IInv, TypeOK, OneCpu
<1>1. TypeOK'
  BY Zenon DEF IInv, TypeOK, Calls
<1>2. OneCpu'
  BY <1>0 DEF IInv, TypeOK, OneCpu, OneFork
<1>3. OneFork'
  BY <1>0 DEF IInv, TypeOK, OneFork
<1>4. Family'
  BY <1>0 DEF IInv, TypeOK, OneFork, Family, InUse, Alive
<1>5. Pids'
  BY <1>0 DEF IInv, TypeOK, Pids
<1>6. Sleepers'
  BY <1>0 DEF IInv, TypeOK, Sleepers, WakeupsKept, Children, Zombies
<1> QED
  BY <1>1, <1>2, <1>3, <1>4, <1>5, <1>6 DEF IInv

\* What exit does to the other processes.
LEMMA ExitFacts ==
    ASSUME IInv, NEW c \in CPUs, NEW p \in Slots, exit(c, p)
    PROVE  /\ pc[p] = "exit" /\ state[p] = "RUNNING" /\ state'[p] = "ZOMBIE" /\ p # initproc
           /\ \A q \in Slots \ {p} :
                 \/ state'[q] = state[q]
                 \/ state[q] = "SLEEPING" /\ state'[q] = "RUNNABLE"
           /\ \A q \in Slots \ {p} : state'[q] = "SLEEPING" => chan[q] # parent[p]
           /\ Zombies(p) # {} => \A q \in Slots \ {p} : state'[q] = "SLEEPING" => chan[q] # initproc
           /\ \A q \in Slots : parent'[q] = IF parent[q] = p THEN initproc ELSE parent[q]
           /\ UNCHANGED <<pid, killed, chan, tickets, pc, np, nextpid, clock>>
BY SlotFacts DEF exit, On, Wake, wakeup1, Children, IInv, TypeOK, OneCpu, Family

\* The children of a process that exits find a parent in init, which is woken if
\* one of them is dead.
LEMMA ExitKeeps ==
    ASSUME IInv, NEW c \in CPUs, NEW p \in Slots, exit(c, p)
    PROVE  IInv'
<1>1. TypeOK'
  BY SlotFacts DEF exit, sched_, Wake, clock, IInv, TypeOK, Calls
<1>2. OneCpu'
  BY SlotFacts, SMTT(30) DEF exit, sched_, On, Wake, wakeup1, IInv, TypeOK, OneCpu
<1> USE SlotFacts, ExitFacts DEF clock
<1>3. OneFork'
  BY DEF IInv, TypeOK, OneFork
<1>4. Family'
  BY SMTT(30) DEF IInv, TypeOK, OneFork, Family, InUse, Alive
<1>5. Pids'
  BY DEF IInv, TypeOK, Pids
<1>6. Sleepers'
  <2>1. ASSUME NEW r \in Slots, state'[r] = "SLEEPING", chan[r] = r
        PROVE  Children(r)' # {} /\ Zombies(r)' = {} /\ ~killed'[r]
    <3>1. r # p /\ state[r] = "SLEEPING" /\ r # parent[p]
      BY <2>1
    <3>2. Children(r) # {} /\ Zombies(r) = {} /\ ~killed[r]
      BY <2>1, <3>1 DEF IInv, Sleepers, WakeupsKept
    <3>3. Children(r) \subseteq Children(r)'
      BY <3>1 DEF Children
    <3>4. ASSUME NEW q \in Zombies(r)' PROVE FALSE
      <4>1. q \in Slots /\ parent'[q] = r /\ state'[q] = "ZOMBIE" /\ q # p
        BY <3>1, <3>4 DEF Zombies, Children, IInv, Family, InUse
      <4>2. state[q] = "ZOMBIE"
        BY <4>1
      <4>3. parent[q] = p /\ r = initproc
        BY <3>2, <4>1, <4>2 DEF Zombies, Children
      <4> QED
        BY <2>1, <3>1, <4>1, <4>2, <4>3 DEF Zombies, Children
    <3> QED
      BY <3>2, <3>3, <3>4
  <2> QED
    BY <2>1 DEF IInv, TypeOK, Sleepers, WakeupsKept
<1> QED
  BY <1>1, <1>2, <1>3, <1>4, <1>5, <1>6, Zenon DEF IInv

\* wait keeps it: it frees a zombie, fails, or sleeps.
LEMMA WaitKeeps ==
    ASSUME IInv, NEW c \in CPUs, NEW p \in Slots, wait(c, p)
    PROVE  IInv'
<1> USE SlotFacts DEF sched_, Return, clock, Children, Zombies
<1>0. state[p] = "RUNNING" /\ pc[p] \in {"wait", "wait_woken"} /\ np[p] = 0
  BY DEF wait, IInv, TypeOK, OneCpu, OneFork
<1>1. TypeOK'
  <2>1. killed' \in [Slots -> BOOLEAN]
    BY Zenon DEF wait, IInv, TypeOK
  <2> QED
    BY <2>1, Sizes DEF wait, First, IInv, TypeOK, Calls
<1>2. OneCpu'
  BY <1>0 DEF wait, First, IInv, TypeOK, OneCpu
<1>3. OneFork'
  <2>1. np' = np /\ \A q \in Slots :
          pc'[q] \in {"fork_copy", "fork_run"} <=> pc[q] \in {"fork_copy", "fork_run"}
    BY <1>0 DEF wait, IInv, TypeOK
  <2>2. \A q \in Slots : state[q] \notin {"ZOMBIE", "RUNNING"} => state'[q] = state[q]
    BY <1>0, Zenon DEF wait, First, IInv, TypeOK
  <2>3. \A q \in Slots : state[q] = "RUNNING" /\ q # p => state'[q] = state[q]
    BY <1>0, Zenon DEF wait, First, IInv, TypeOK
  <2>4. \A q \in Slots : state'[q] = "EMBRYO" => state[q] = "EMBRYO"
    BY <1>0 DEF wait, First, IInv, TypeOK
  <2> QED
    BY <1>0, <2>1, <2>2, <2>3, <2>4 DEF IInv, TypeOK, OneFork
<1>4. Family'
  <2>1. np' = np /\ \A q \in Slots : /\ pc'[q] = "fork_copy" <=> pc[q] = "fork_copy"
                                     /\ pc'[q] = "fork_run" <=> pc[q] = "fork_run"
                                     /\ pc'[q] = "exit" <=> pc[q] = "exit"
    BY <1>0 DEF wait, IInv, TypeOK
  <2> DEFINE Kept(q) ==
        \/ parent'[q] = parent[q] /\ (state'[q] = state[q] \/ (q = p /\ state'[q] = "SLEEPING"))
        \/ parent'[q] = 0 /\ state'[q] = "UNUSED" /\ state[q] = "ZOMBIE"
  <2>2. \A q \in Slots : Kept(q)
    <3>1. ASSUME NEW z \in Slots, state[z] = "ZOMBIE", state' = [state EXCEPT ![z] = "UNUSED"],
                 parent' = [parent EXCEPT ![z] = 0]
          PROVE  \A q \in Slots : Kept(q)
      BY <3>1 DEF IInv, TypeOK
    <3>2. ASSUME parent' = parent, state' = state \/ state' = [state EXCEPT ![p] = "SLEEPING"]
          PROVE  \A q \in Slots : Kept(q)
      BY <3>2, Zenon DEF IInv, TypeOK
    <3> QED
      BY <3>1, <3>2, Zenon DEF wait, First
  <2> QED
    BY <1>0, <2>1, <2>2, SMTT(30) DEF IInv, TypeOK, OneFork, Family, InUse, Alive
<1>5. Pids'
  BY <1>0, SMTT(30) DEF wait, First, IInv, TypeOK, Pids
<1>6. Sleepers'
  BY <1>0 DEF wait, First, IInv, TypeOK, Sleepers, WakeupsKept
<1> QED
  BY <1>1, <1>2, <1>3, <1>4, <1>5, <1>6, Zenon DEF IInv

\* kill keeps it: it wakes at most the process it marks.
LEMMA KillKeeps ==
    ASSUME IInv, NEW c \in CPUs, NEW p \in Slots, kill(c, p)
    PROVE  IInv'
<1> USE SlotFacts DEF kill, On, Return, First, Wake, proc, sched, clock
<1>0. state[p] = "RUNNING"
  BY Zenon DEF IInv, TypeOK, OneCpu
<1>1. TypeOK'
  <2>1. killed' \in [Slots -> BOOLEAN]
    BY Zenon DEF IInv, TypeOK
  <2>2. state' \in [Slots -> {"UNUSED", "EMBRYO", "SLEEPING", "RUNNABLE", "RUNNING", "ZOMBIE"}]
    BY DEF IInv, TypeOK
  <2> QED
    BY <2>1, <2>2, Zenon DEF IInv, TypeOK, Calls
<1>2. OneCpu'
  BY <1>0 DEF IInv, TypeOK, OneCpu
<1>3. OneFork'
  BY <1>0 DEF IInv, TypeOK, OneFork
<1>4. Family'
  BY <1>0 DEF IInv, TypeOK, OneFork, Family, InUse, Alive
<1>5. Pids'
  BY <1>0, Zenon DEF IInv, TypeOK, Pids
<1>6. Sleepers'
  BY <1>0 DEF IInv, TypeOK, Sleepers, WakeupsKept, Children, Zombies
<1> QED
  BY <1>1, <1>2, <1>3, <1>4, <1>5, <1>6, Zenon DEF IInv

\* settickets keeps it.
LEMMA SetticketsKeeps ==
    ASSUME IInv, NEW c \in CPUs, NEW p \in Slots, settickets(c, p)
    PROVE  IInv'
<1> USE SlotFacts DEF settickets, On, Return, First, proc, sched, clock
<1>0. state[p] = "RUNNING"
  BY DEF IInv, TypeOK, OneCpu
<1>1. TypeOK'
  BY DEF IInv, TypeOK, Calls
<1>2. OneCpu'
  BY <1>0 DEF IInv, TypeOK, OneCpu
<1>3. OneFork'
  BY <1>0 DEF IInv, TypeOK, OneFork
<1>4. Family'
  BY <1>0 DEF IInv, TypeOK, OneFork, Family, InUse, Alive
<1>5. Pids'
  BY <1>0, Zenon DEF IInv, TypeOK, Pids
<1>6. Sleepers'
  BY <1>0 DEF IInv, TypeOK, Sleepers, WakeupsKept, Children, Zombies
<1> QED
  BY <1>1, <1>2, <1>3, <1>4, <1>5, <1>6, Zenon DEF IInv

\* Looking at the ticks in sys_sleep keeps it: the call returns or goes to sleep.
LEMMA LooksKeeps ==
    ASSUME IInv, NEW c \in CPUs, NEW p \in Slots, On(c, p),
           pc[p] \in {"sys_sleep", "sleep_woken"}, tlock = Free,
           NEW n \in 0 .. MaxSleep, Looks(p, n)
    PROVE  IInv'
<1> USE SlotFacts DEF On, Looks, Return, proc, sched, clock
<1>0. state[p] = "RUNNING"
  BY Zenon DEF IInv, TypeOK, OneCpu
<1>1. TypeOK'
  BY Sizes DEF IInv, TypeOK, Calls
<1>2. OneCpu'
  BY <1>0 DEF IInv, TypeOK, OneCpu
<1>3. OneFork'
  BY <1>0 DEF IInv, TypeOK, OneFork
<1>4. Family'
  BY <1>0 DEF IInv, TypeOK, OneFork, Family, InUse, Alive
<1>5. Pids'
  BY <1>0, Zenon DEF IInv, TypeOK, Pids
<1>6. Sleepers'
  BY <1>0 DEF IInv, TypeOK, Sleepers, WakeupsKept, Children, Zombies
<1> QED
  BY <1>1, <1>2, <1>3, <1>4, <1>5, <1>6, Zenon DEF IInv

\* sleep keeps it.
LEMMA SleepKeeps ==
    ASSUME IInv, NEW c \in CPUs, NEW p \in Slots, sleep(c, p)
    PROVE  IInv'
<1> USE SlotFacts DEF sleep, sched_, proc, sched, clock
<1>0. state[p] = "RUNNING"
  BY Zenon DEF IInv, TypeOK, OneCpu
<1>1. TypeOK'
  BY Zenon DEF IInv, TypeOK, Calls
<1>2. OneCpu'
  BY <1>0 DEF IInv, TypeOK, OneCpu
<1>3. OneFork'
  BY <1>0 DEF IInv, TypeOK, OneFork
<1>4. Family'
  BY <1>0 DEF IInv, TypeOK, OneFork, Family, InUse, Alive
<1>5. Pids'
  BY <1>0, Zenon DEF IInv, TypeOK, Pids
<1>6. Sleepers'
  BY <1>0 DEF IInv, TypeOK, Sleepers, WakeupsKept, Children, Zombies
<1> QED
  BY <1>1, <1>2, <1>3, <1>4, <1>5, <1>6, Zenon DEF IInv

\* The clock tick keeps it.
LEMMA TickKeeps ==
    ASSUME IInv, tick
    PROVE  IInv'
<1> USE SlotFacts DEF tick, Wake, wakeup1, proc, sched, clock
<1>1. TypeOK'
  BY Sizes DEF IInv, TypeOK, Calls
<1>2. OneCpu'
  BY Zenon DEF IInv, TypeOK, OneCpu
<1>3. OneFork'
  BY DEF IInv, TypeOK, OneFork
<1>4. Family'
  BY DEF IInv, TypeOK, OneFork, Family, InUse, Alive
<1>5. Pids'
  BY Zenon DEF IInv, TypeOK, Pids
<1>6. Sleepers'
  BY DEF IInv, TypeOK, Sleepers, WakeupsKept, Children, Zombies
<1> QED
  BY <1>1, <1>2, <1>3, <1>4, <1>5, <1>6, Zenon DEF IInv

\* Every step keeps the invariant.
LEMMA StepKeeps == IInv /\ [Next]_vars => IInv'
<1> SUFFICES ASSUME IInv, [Next]_vars PROVE IInv'
  OBVIOUS
<1>1. CASE UNCHANGED vars
  <2>1. TypeOK' /\ OneCpu'
    BY <1>1, Zenon DEF vars, proc, sched, clock, IInv, TypeOK, OneCpu
  <2>2. OneFork' /\ Family' /\ Pids'
    BY <1>1 DEF vars, proc, IInv, OneFork, Family, InUse, Alive, Pids
  <2>3. Sleepers'
    BY <1>1 DEF vars, proc, clock, IInv, Sleepers, WakeupsKept, Children, Zombies
  <2> QED
    BY <2>1, <2>2, <2>3, Zenon DEF IInv
<1>2. ASSUME NEW c \in CPUs, Scheduler(c) PROVE IInv'
  <2>1. ASSUME NEW p \in Runnable, Switch(c, p), cpu[c] = 0, plock \in {c, Free} PROVE IInv'
    BY <2>1, SwitchKeeps
  <2>2. ASSUME cpu[c] = 0, plock = c, at' = [at EXCEPT ![c] = 0], plock' = Free,
               UNCHANGED <<proc, pc, np, cpu, nextpid, clock>>
        PROVE  IInv'
    <3>1. TypeOK' /\ OneCpu'
      BY <2>2, SlotFacts DEF proc, clock, IInv, TypeOK, OneCpu
    <3>2. OneFork' /\ Family' /\ Pids'
      BY <2>2 DEF proc, IInv, OneFork, Family, InUse, Alive, Pids
    <3>3. Sleepers'
      BY <2>2, Zenon DEF proc, clock, IInv, Sleepers, WakeupsKept, Children, Zombies
    <3> QED
      BY <3>1, <3>2, <3>3 DEF IInv
  <2> QED
    BY <1>2, <2>1, <2>2, Zenon DEF Scheduler, Draw, Continue, First, Passed
<1>3. ASSUME NEW c \in CPUs, NEW p \in Slots, Process(c, p) PROVE IInv'
  <2>1. ASSUME sys_sleep(c, p) \/ sys_sleep_again(c, p) PROVE IInv'
    BY <2>1, LooksKeeps DEF sys_sleep, sys_sleep_again, IInv, TypeOK
  <2> QED
    BY <1>3, <2>1, SyscallKeeps, YieldKeeps, AllocprocKeeps, ForkFailsKeeps, ForkCopiesKeeps,
       ForkRunsKeeps, ExitKeeps, WaitKeeps, KillKeeps, SetticketsKeeps, SleepKeeps,
       SMTT(30) DEF Process
<1> QED
  BY <1>1, <1>2, <1>3, TickKeeps DEF Next

\* The invariant holds in every reachable state.
LEMMA Invariance == Spec => []IInv
BY InitIInv, StepKeeps, PTL DEF Spec

\* The scheduler of every CPU and the processes hand ptable.lock on so that no
\* process is ever on two CPUs, whatever their number.
THEOREM EachRunsOnce == Spec => []RunsOnce
<1>1. IInv => RunsOnce
  <2> SUFFICES ASSUME IInv PROVE RunsOnce
    OBVIOUS
  <2>1. ASSUME NEW p \in Slots
        PROVE  Cardinality({c \in CPUs : cpu[c] = p}) = IF state[p] = "RUNNING" THEN 1 ELSE 0
    <3>1. CASE state[p] = "RUNNING"
      <4>1. PICK c \in CPUs : cpu[c] = p
        BY <3>1 DEF IInv, OneCpu
      <4>2. {d \in CPUs : cpu[d] = p} = {c}
        BY <4>1, SlotFacts DEF IInv, OneCpu
      <4> QED
        BY <3>1, <4>2, FS_Singleton
    <3>2. CASE state[p] # "RUNNING"
      <4>1. {d \in CPUs : cpu[d] = p} = {}
        BY <3>2, SlotFacts DEF IInv, OneCpu
      <4> QED
        BY <3>2, <4>1, FS_EmptySet, Zenon
    <3> QED
      BY <3>1, <3>2
  <2> QED
    BY <2>1 DEF IInv, OneCpu, RunsOnce
<1> QED
  BY <1>1, Invariance, PTL

\* fork, exit and wait keep the processes a family under init, in which every
\* started process has a parent that can wait for it, a slot is filled by one
\* fork, and kill and settickets find at most one slot by its pid.
THEOREM FamilyIsKept == Spec => []FamilyKept
<1>1. IInv => FamilyKept
  <2> SUFFICES ASSUME IInv PROVE FamilyKept
    OBVIOUS
  <2>1. ASSUME NEW p \in Slots, state[p] = "EMBRYO" PROVE Cardinality({q \in Slots : np[q] = p}) = 1
    <3>1. PICK q \in Slots : np[q] = p
      BY <2>1 DEF IInv, OneFork
    <3>2. {r \in Slots : np[r] = p} = {q}
      BY <3>1, SlotFacts DEF IInv, OneFork
    <3> QED
      BY <3>2, FS_Singleton, Zenon
  <2> QED
    BY <2>1 DEF IInv, Family, Alive, Pids, FamilyKept
<1> QED
  BY <1>1, Invariance, PTL

\* exit, kill and the clock wake whoever sleeps for them: sleep and wait leave no
\* gap between the look and the sleep.
THEOREM NoWakeupMissed == Spec => []WakeupsKept
<1>1. IInv => WakeupsKept
  BY DEF IInv, Sleepers
<1> QED
  BY <1>1, Invariance, PTL
=============================================================================
