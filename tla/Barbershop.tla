----------------------------- MODULE Barbershop -----------------------------
(***************************************************************************)
(* 31/barbershop.c: a barber, customers that balk when all chairs are      *)
(* taken, and a main that cancels the barber and destroys the semaphores   *)
(* once the customers have been joined.  Labels are line numbers.          *)
(***************************************************************************)
EXTENDS SemThreads, FiniteSets

CONSTANTS Customers,   \* total_customers of them
          chairs

VARIABLE customers     \* how many are in the shop

vars == <<pc, sem, customers>>

Semaphores == {"mutex", "customer_arrives", "barber_wakes", "customer_leaves", "barber_sleeps"}

Init ==
  /\ pc = [t \in Customers \cup {"barber", "main"} |->
             CASE t = "barber" -> "61" [] t = "main" -> "131" [] OTHER -> "71"]
  /\ sem = [s \in Semaphores |-> IF s = "mutex" THEN 1 ELSE 0]
  /\ customers = 0
-----------------------------------------------------------------------------
\* Lines 59-67.
barber ==
  /\ \/ WaitStep("barber", "61", "customer_arrives", "62")
     \/ PostStep("barber", "62", "barber_wakes", "63")
     \/ WaitStep("barber", "63", "customer_leaves", "64")
     \/ PostStep("barber", "64", "barber_sleeps", "61")
  /\ UNCHANGED customers

\* Lines 71-79: take a chair, or balk.
Enter(c) ==
  \/ WaitStep(c, "71", "mutex", "72") /\ UNCHANGED customers
  \/ customers = chairs /\ LocalStep(c, "72", "73") /\ UNCHANGED customers
  \/ PostStep(c, "73", "mutex", "done") /\ UNCHANGED customers
  \/ customers # chairs /\ LocalStep(c, "72", "79") /\ customers' = customers + 1
  \/ PostStep(c, "79", "mutex", "81") /\ UNCHANGED customers

Haircut(c) ==
  /\ \/ PostStep(c, "81", "customer_arrives", "82")
     \/ WaitStep(c, "82", "barber_wakes", "84")
     \/ LocalStep(c, "84", "86")
     \/ PostStep(c, "86", "customer_leaves", "87")
     \/ WaitStep(c, "87", "barber_sleeps", "89")
  /\ UNCHANGED customers

\* Lines 89-91.
Exit(c) ==
  \/ WaitStep(c, "89", "mutex", "90") /\ UNCHANGED customers
  \/ LocalStep(c, "90", "91") /\ customers' = customers - 1
  \/ PostStep(c, "91", "mutex", "done") /\ UNCHANGED customers

customer(c) == Enter(c) \/ Haircut(c) \/ Exit(c)

\* Lines 130-134: join the customers; then cancel the barber, wherever it is,
\* destroy the semaphores and return, which ends the process.
main ==
  /\ \A c \in Customers : pc[c] = "done"
  /\ LocalStep("main", "131", "132")
  /\ UNCHANGED customers

Next == barber \/ main \/ \E c \in Customers : customer(c)

Spec == Init /\ [][Next]_vars
-----------------------------------------------------------------------------
TypeOK ==
  /\ pc \in [Customers \cup {"barber", "main"} ->
               {"61", "62", "63", "64", "71", "72", "73", "79", "81", "82", "84",
                "86", "87", "89", "90", "91", "131", "132", "done"}]
  /\ sem \in [Semaphores -> Nat]
  /\ customers \in 0..chairs

\* One haircut at a time, although the handshake semaphores are shared by all
\* customers and none of them says who it is for.
OneInChair ==
  \A c, d \in Customers : pc[c] \in {"84", "86"} /\ pc[d] \in {"84", "86"} => c = d

\* When main gets to cancelling the barber (line 132) nothing is pending: the
\* barber is back at, or inside, its first wait, and no handshake token is
\* left.  No customer ends while the barber still has to post for it.
BarberIdleAtEnd ==
  pc["main"] = "132" =>
    /\ pc["barber"] = "61"
    /\ customers = 0
    /\ sem = [s \in Semaphores |-> IF s = "mutex" THEN 1 ELSE 0]

\* Every customer got a haircut or balked, and left.
Finished == pc["main"] = "132"
=============================================================================
