--------------------------------- MODULE Zem ---------------------------------
(***************************************************************************)
(* projects/concurrency-webserver/thread_helper.h: the semaphore Zem_t,    *)
(* built from a mutex and a condition variable, that the web server        *)
(* synchronises with.  Any thread may call Zem_wait and Zem_post, any      *)
(* number of times.  Labels are line numbers of the source; statements     *)
(* between Mutex_lock and Mutex_unlock are steps of their own.             *)
(***************************************************************************)
EXTENDS Integers, FiniteSets

CONSTANTS ZemThreads, NoThread,
          InitialValue,   \* the argument of Zem_init
          MaxValue        \* bound on the value: nobody posts when it is reached

ASSUME ZemConstants ==
  /\ IsFiniteSet(ZemThreads) /\ NoThread \notin ZemThreads
  /\ InitialValue \in Nat /\ MaxValue \in Nat /\ InitialValue <= MaxValue

VARIABLES zpc,     \* the statement thread t executes next; "out": not in a call
          value,   \* s->value
          lock,    \* s->lock: its holder, or NoThread
          asleep   \* the threads blocked on s->cond

zemVars == <<zpc, value, lock, asleep>>

ZemLabels == {"out", "52", "53", "54", "55", "56", "60", "61", "62", "63"}

ZemGoto(t, from, to) == zpc[t] = from /\ zpc' = [zpc EXCEPT ![t] = to]

\* Zem_init (lines 45-49), before there are other threads.
ZemInit ==
  /\ zpc = [t \in ZemThreads |-> "out"]
  /\ value = InitialValue
  /\ lock = NoThread
  /\ asleep = {}

Mutex_lock(t, from, to) ==
  /\ ZemGoto(t, from, to)
  /\ lock = NoThread /\ lock' = t
  /\ UNCHANGED <<value, asleep>>

Mutex_unlock(t, from, to) ==
  /\ ZemGoto(t, from, to)
  /\ lock' = NoThread
  /\ UNCHANGED <<value, asleep>>

\* The sleeper goes on without a second look at the value.
Cond_wait_If(t) ==
  \/ /\ ZemGoto(t, "53", "54") /\ value <= 0
     /\ asleep' = asleep \cup {t}
     /\ lock' = NoThread
     /\ UNCHANGED value
  \/ t \notin asleep /\ Mutex_lock(t, "54", "55")

\* Cond_wait releases the mutex and goes to sleep in one step; awake again, at
\* "54", the thread takes the mutex back and looks at the value once more.
Cond_wait(t) ==
  \/ /\ ZemGoto(t, "53", "54") /\ value <= 0
     /\ asleep' = asleep \cup {t}
     /\ lock' = NoThread
     /\ UNCHANGED value
  \/ t \notin asleep /\ Mutex_lock(t, "54", "53")

\* POSIX lets a sleeper wake up without a signal.
SpuriousWakeup(t) ==
  /\ t \in asleep
  /\ asleep' = asleep \ {t}
  /\ UNCHANGED <<zpc, value, lock>>

Zem_wait(t) ==
  \/ ZemGoto(t, "out", "52") /\ UNCHANGED <<value, lock, asleep>>
  \/ Mutex_lock(t, "52", "53")
  \/ Cond_wait(t)
  \/ ZemGoto(t, "53", "55") /\ value > 0 /\ UNCHANGED <<value, lock, asleep>>
  \/ ZemGoto(t, "55", "56") /\ value' = value - 1 /\ UNCHANGED <<lock, asleep>>
  \/ Mutex_unlock(t, "56", "out")

\* A post that signals only when the value was 0.
Cond_signal_WhenZero(t) ==
  /\ ZemGoto(t, "62", "63")
  /\ IF asleep = {} \/ value > 1 THEN UNCHANGED asleep ELSE \E u \in asleep : asleep' = asleep \ {u}
  /\ UNCHANGED <<value, lock>>

\* Line 62: one of the sleepers, if there is one, is woken.
Cond_signal(t) ==
  /\ ZemGoto(t, "62", "63")
  /\ IF asleep = {} THEN UNCHANGED asleep ELSE \E u \in asleep : asleep' = asleep \ {u}
  /\ UNCHANGED <<value, lock>>

\* The posts that have begun and are not counted yet.
Posting == {t \in ZemThreads : zpc[t] \in {"60", "61"}}

Zem_post(t) ==
  \/ ZemGoto(t, "out", "60") /\ value + Cardinality(Posting) < MaxValue /\ UNCHANGED <<value, lock, asleep>>
  \/ Mutex_lock(t, "60", "61")
  \/ ZemGoto(t, "61", "62") /\ value' = value + 1 /\ UNCHANGED <<lock, asleep>>
  \/ Cond_signal(t)
  \/ Mutex_unlock(t, "63", "out")

ZemNext == \E t \in ZemThreads : Zem_wait(t) \/ Zem_post(t) \/ SpuriousWakeup(t)

\* A thread that is inside a call and can go on does so; nobody has to make a
\* call, and nothing is assumed about who gets a contended mutex.
ZemFairness == \A t \in ZemThreads : WF_zemVars(zpc[t] # "out" /\ (Zem_wait(t) \/ Zem_post(t)))

ZemSpec == ZemInit /\ [][ZemNext]_zemVars /\ ZemFairness
-----------------------------------------------------------------------------
ZemTypeOK ==
  /\ zpc \in [ZemThreads -> ZemLabels]
  /\ value \in 0..MaxValue
  /\ lock \in ZemThreads \cup {NoThread}
  /\ asleep \subseteq ZemThreads

\* The threads inside Zem_wait that are awake and will look at the value.
Looking == {t \in ZemThreads : zpc[t] \in {"53", "54", "55"} /\ t \notin asleep}

\* The post whose unit is counted and whose signal is still to come.
Signalling == {t \in ZemThreads : zpc[t] = "62"}

\* No wake-up is lost: while a thread sleeps, every unit of the value (but the
\* one whose signal is still to come) has an awake thread that will take it.
\* A sleeper is therefore never left alone with a positive value.
NoLostWakeup ==
  asleep # {} => value <= Cardinality(Looking) + Cardinality(Signalling)

\* The abstract semaphore: its unit moves at lines 55 and 61.
callBar ==
  [t \in ZemThreads |-> IF zpc[t] \in {"52", "53", "54", "55"} THEN "wait"
                         ELSE IF zpc[t] \in {"60", "61"} THEN "post" ELSE "none"]

Abs == INSTANCE Semaphore WITH Threads <- ZemThreads, call <- callBar

\* Zem_wait and Zem_post implement a counting semaphore: every wait that
\* returns took a unit that was there, every post that returns added one.
IsSemaphore == Abs!Spec

\* When no more calls are made, the sleepers at line 54 do not stay asleep next
\* to a positive value: the units are taken, or nobody wants them.
UnitsAreTaken ==
  <>[][\A t \in ZemThreads : zpc[t] = "out" => zpc'[t] = "out"]_zemVars
    => []<>(value = 0 \/ asleep = {})
=============================================================================
