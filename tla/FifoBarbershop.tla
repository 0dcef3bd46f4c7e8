--------------------------- MODULE FifoBarbershop ---------------------------
(***************************************************************************)
(* 31/FIFO_barbershop.c: the barbershop whose customers queue, each with a *)
(* semaphore of its own that it allocates and frees.  Labels are line      *)
(* numbers of the source.                                                  *)
(***************************************************************************)
EXTENDS SemThreads, ThreadCount, Sequences, TLAPS

CONSTANTS Customers, chairs

VARIABLES customers,
          queue,      \* the STAILQ head: the customers whose entries are linked
          e,          \* the barber's e: a customer, or "none"
          live,       \* customers whose entry and semaphore are allocated
          arrivals,   \* history: the order in which customers queued
          haircuts    \* history: the order in which they got their haircut

vars == <<pc, sem, customers, queue, e, live, arrivals, haircuts>>
shop == <<customers, queue, live, arrivals>>

Shared == {"mutex", "customer_arrives", "customer_leaves", "barber_sleeps"}

Init ==
  /\ pc = [t \in Customers \cup {"barber"} |-> IF t = "barber" THEN "70" ELSE "87"]
  /\ sem = [s \in Shared \cup Customers |-> IF s = "mutex" THEN 1 ELSE 0]
  /\ customers = 0 /\ queue = <<>> /\ e = "none" /\ live = {}
  /\ arrivals = <<>> /\ haircuts = <<>>
-----------------------------------------------------------------------------
\* Lines 67-82.  STAILQ_FIRST of an empty queue is NULL ("none").
barber ==
  /\ \/ WaitStep("barber", "70", "customer_arrives", "71") /\ UNCHANGED <<shop, e>>
     \/ WaitStep("barber", "71", "mutex", "72") /\ UNCHANGED <<shop, e>>
     \/ /\ LocalStep("barber", "72", "74")
        /\ IF queue = <<>> THEN e' = "none" /\ UNCHANGED queue
           ELSE e' = Head(queue) /\ queue' = Tail(queue)
        /\ UNCHANGED <<customers, live, arrivals>>
     \/ PostStep("barber", "74", "mutex", "76") /\ UNCHANGED <<shop, e>>
     \/ e # "none" /\ PostStep("barber", "76", e, "78") /\ UNCHANGED <<shop, e>>
     \/ WaitStep("barber", "78", "customer_leaves", "79") /\ UNCHANGED <<shop, e>>
     \/ PostStep("barber", "79", "barber_sleeps", "70") /\ UNCHANGED <<shop, e>>
  /\ UNCHANGED haircuts

\* Lines 87-108: balk, or allocate an entry, queue and announce oneself.
Enter(c) ==
  \/ WaitStep(c, "87", "mutex", "88") /\ UNCHANGED shop
  \/ customers = chairs /\ LocalStep(c, "88", "89") /\ UNCHANGED shop
  \/ PostStep(c, "89", "mutex", "done") /\ UNCHANGED shop
  \/ /\ customers # chairs
     /\ LocalStep(c, "88", "106")
     /\ customers' = customers + 1 /\ live' = live \cup {c}
     /\ queue' = Append(queue, c) /\ arrivals' = Append(arrivals, c)
  \/ PostStep(c, "106", "mutex", "108") /\ UNCHANGED shop
  \/ PostStep(c, "108", "customer_arrives", "109") /\ UNCHANGED shop

\* Lines 109-114: the haircut is line 111.
Haircut(c) ==
  /\ \/ WaitStep(c, "109", c, "111") /\ UNCHANGED haircuts
     \/ LocalStep(c, "111", "113") /\ haircuts' = Append(haircuts, c)
     \/ PostStep(c, "113", "customer_leaves", "114") /\ UNCHANGED haircuts
     \/ WaitStep(c, "114", "barber_sleeps", "116") /\ UNCHANGED haircuts
  /\ UNCHANGED shop

\* A customer that frees its entry when it has queued.
Exit_FreesFirst(c) ==
  \/ WaitStep(c, "116", "mutex", "117") /\ UNCHANGED shop
  \/ /\ LocalStep(c, "117", "126")
     /\ customers' = customers - 1 /\ UNCHANGED <<live, queue, arrivals>>
  \/ PostStep(c, "126", "mutex", "done") /\ UNCHANGED shop
  \/ pc[c] = "109" /\ live' = live \ {c} /\ UNCHANGED <<pc, sem, customers, queue, arrivals>>

\* Lines 116-126: leave and free the entry and its semaphore.
Exit(c) ==
  \/ WaitStep(c, "116", "mutex", "117") /\ UNCHANGED shop
  \/ /\ LocalStep(c, "117", "126")
     /\ customers' = customers - 1 /\ live' = live \ {c} /\ UNCHANGED <<queue, arrivals>>
  \/ PostStep(c, "126", "mutex", "done") /\ UNCHANGED shop

customer(c) ==
  /\ \/ Enter(c) /\ UNCHANGED haircuts
     \/ Haircut(c)
     \/ Exit(c) /\ UNCHANGED haircuts
  /\ UNCHANGED e

Next == barber \/ \E c \in Customers : customer(c)

Spec == Init /\ [][Next]_vars
-----------------------------------------------------------------------------
TypeOK ==
  /\ pc \in [Customers \cup {"barber"} ->
               {"70", "71", "72", "74", "76", "78", "79", "87", "88", "89", "106",
                "108", "109", "111", "113", "114", "116", "117", "126", "done"}]
  /\ sem \in [Shared \cup Customers -> Nat]
  /\ customers \in 0..chairs
  /\ queue \in Seq(Customers)
  /\ e \in Customers \cup {"none"}
  /\ live \subseteq Customers

\* The barber never finds the queue empty: every customer_arrives token stands
\* for an entry that is still linked when the barber gets to line 72.
QueueNotEmpty == pc["barber"] = "72" => queue # <<>>

\* Haircuts are given in the order in which customers queued.
FifoOrder ==
  /\ Len(haircuts) <= Len(arrivals)
  /\ \A k \in 1..Len(haircuts) : haircuts[k] = arrivals[k]

\* The barber does not post, and the queue does not hold, an entry that its
\* customer has freed (lines 122-125 against line 76).
NoUseAfterFree ==
  /\ pc["barber"] = "76" => e \in live
  /\ \A k \in 1..Len(queue) : queue[k] \in live

\* Every customer got a haircut or balked, and left.
Finished == \A c \in Customers : pc[c] = "done"
-----------------------------------------------------------------------------
(* The proof, under the following hypothesis.                              *)

\* Finitely many customers, none with the name of the barber, of no entry, or
\* of one of the shared semaphores.
Setting ==
  /\ IsFiniteSet(Customers) /\ chairs \in Nat
  /\ Customers \cap {"barber", "none", "mutex", "customer_arrives", "customer_leaves", "barber_sleeps"} = {}
  /\ CountingLaws

\* The statements of customers and barber; where a customer waits for its call,
\* and where it is counted in customers.
FLabels == {"87", "88", "89", "106", "108", "109", "111", "113", "114", "116", "117", "126", "done"}
FBarberLabels == {"70", "71", "72", "74", "76", "78", "79"}
FWaiting == {"106", "108", "109"}
FInShop == {"106", "108", "109", "111", "113", "114", "116", "117"}

\* The types, for every thread by itself.
FTypes ==
  /\ pc \in [Customers \cup {"barber"} -> FLabels \cup FBarberLabels]
  /\ (\A c \in Customers : pc[c] \in FLabels) /\ pc["barber"] \in FBarberLabels
  /\ sem \in [Shared \cup Customers -> Nat]
  /\ queue \in Seq(Customers) /\ e \in Customers \cup {"none"} /\ live \subseteq Customers
  /\ arrivals \in Seq(Customers) /\ haircuts \in Seq(Customers)

FCnt(L) == Count(Customers, pc, L)

\* customers counts those inside;
FShop == customers = FCnt(FInShop) /\ customers <= chairs

\* Every entry in the queue is still to be announced, or is announced, or the
\* barber has been told of it;
FArrivals == Len(queue) = FCnt({"106", "108"}) + sem["customer_arrives"] + One(pc["barber"] \in {"71", "72"})

\* whoever is called, or in the chair, is the barber's e, and the barber waits
\* for it to leave;
FTurn ==
  /\ \A c \in Customers :
       /\ sem[c] # 0 => pc[c] \in FWaiting /\ sem[c] = 1
       /\ sem[c] # 0 \/ pc[c] \in {"111", "113"} =>
            c = e /\ pc["barber"] = "78" /\ sem["customer_leaves"] = 0
  /\ sem["customer_leaves"] # 0 => pc["barber"] = "78" /\ sem["customer_leaves"] = 1
  /\ pc["barber"] = "78" => e \in Customers

\* a customer that waits is in the queue, once, or is the one whose entry the
\* barber has taken and not posted;
FOwned ==
  /\ \A i \in 1..Len(queue) : pc[queue[i]] \in FWaiting /\ sem[queue[i]] = 0
  /\ \A i, j \in 1..Len(queue) : queue[i] = queue[j] => i = j
  /\ pc["barber"] \in {"74", "76"} =>
       /\ e \in Customers /\ pc[e] \in FWaiting /\ sem[e] = 0
       /\ \A i \in 1..Len(queue) : queue[i] # e

\* the entry of a customer inside is not freed;
FLive == \A c \in Customers : pc[c] \in FInShop => c \in live

\* those who queued are those who had their haircut, the one whose turn it is,
\* if it has not had its own yet, and the queue.
FDue ==
  IF pc["barber"] \in {"74", "76"} \/ (pc["barber"] = "78" /\ (sem[e] # 0 \/ pc[e] = "111")) THEN 1 ELSE 0

FOrder ==
  /\ Len(arrivals) = Len(haircuts) + FDue + Len(queue)
  /\ \A k \in 1..Len(haircuts) : haircuts[k] = arrivals[k]
  /\ FDue = 1 => arrivals[Len(haircuts) + 1] = e
  /\ \A k \in 1..Len(queue) : queue[k] = arrivals[Len(haircuts) + FDue + k]

FCore == FArrivals /\ FTurn /\ FOwned /\ FLive /\ FOrder
FInv == FTypes /\ FShop /\ FCore

\* A count of customers is a number, and 0 if nobody is there.
LEMMA FCounting ==
  ASSUME Setting
  PROVE  \A L : FCnt(L) \in Nat /\ (FCnt(L) = 0 <=> \A c \in Customers : pc[c] \notin L)
<1>1. IsFiniteSet(Customers)
  BY DEF Setting
<1> QED BY <1>1 DEF Setting, CountingLaws, FCnt

\* The names of the semaphores and the threads are apart.
LEMMA FNames ==
  ASSUME Setting
  PROVE  /\ "mutex" \in Shared /\ "customer_arrives" \in Shared /\ "customer_leaves" \in Shared /\ "barber_sleeps" \in Shared
         /\ \A c \in Customers : /\ c # "barber" /\ c # "none" /\ c # "mutex" /\ c # "customer_arrives"
                                 /\ c # "customer_leaves" /\ c # "barber_sleeps"
BY DEF Setting, Shared

\* FIFO_barbershop.c starts in a state of the invariant.
LEMMA FInit ==
  ASSUME Setting
  PROVE  Init => FInv
<1> SUFFICES ASSUME Init PROVE FInv
  OBVIOUS
<1>1. pc["barber"] = "70" /\ (\A c \in Customers : pc[c] = "87" /\ sem[c] = 0)
  BY FNames DEF Init
<1>2. FTypes
  BY <1>1 DEF Init, FTypes, FLabels, FBarberLabels
<1>3. FCnt(FInShop) = 0 /\ FCnt({"106", "108"}) = 0
  BY <1>1, FCounting DEF FInShop
<1>4. FShop
  BY <1>3 DEF Setting, Init, FShop
<1>5. FArrivals
  BY <1>1, <1>3, FNames DEF Init, FArrivals, One
<1>6. FTurn /\ FOwned /\ FLive
  BY <1>1, FNames DEF Init, FTurn, FOwned, FLive, FInShop
<1>7. FOrder
  BY <1>1 DEF Init, FOrder, FDue
<1> QED BY <1>2, <1>4, <1>5, <1>6, <1>7 DEF FInv, FCore

\* Where no class of the statements changes, nothing else does.
FQuiet ==
  /\ \A c \in Customers : /\ pc'[c] \in {"106", "108"} <=> pc[c] \in {"106", "108"}
                          /\ pc'[c] \in FWaiting <=> pc[c] \in FWaiting
                          /\ pc'[c] = "111" <=> pc[c] = "111"
                          /\ pc'[c] = "113" <=> pc[c] = "113"
                          /\ pc'[c] \in FInShop <=> pc[c] \in FInShop
                          /\ sem'[c] = sem[c]
  /\ pc'["barber"] \in {"71", "72"} <=> pc["barber"] \in {"71", "72"}
  /\ pc'["barber"] \in {"74", "76"} <=> pc["barber"] \in {"74", "76"}
  /\ pc'["barber"] = "78" <=> pc["barber"] = "78"
  /\ sem'["customer_arrives"] = sem["customer_arrives"] /\ sem'["customer_leaves"] = sem["customer_leaves"]
  /\ queue' = queue /\ e' = e /\ live' = live /\ arrivals' = arrivals /\ haircuts' = haircuts

\* A step that is quiet in this sense keeps the shop as the invariant has it.
LEMMA FKeepsQuiet ==
  ASSUME FTypes, FCore, FQuiet PROVE FCore'
<1>1. FCnt({"106", "108"})' = FCnt({"106", "108"})
  BY Zenon DEF FQuiet, FCnt, Count
<1>2. FArrivals'
  BY <1>1 DEF FCore, FArrivals, FQuiet, One
<1>3. \A i \in 1..Len(queue) : queue[i] \in Customers
  BY DEF FTypes
<1>4. FTurn'
  BY DEF FCore, FTurn, FQuiet
<1>5. FOwned'
  BY <1>3 DEF FCore, FOwned, FQuiet
<1>6. FLive'
  BY DEF FCore, FLive, FQuiet
<1>7. FOrder'
  <2>1. FDue' = FDue
    BY DEF FDue, FCore, FTurn, FQuiet
  <2> QED BY <2>1 DEF FCore, FOrder, FQuiet
<1> QED BY <1>2, <1>4, <1>5, <1>6, <1>7 DEF FCore

\* A step of the barber keeps the invariant.
LEMMA FBarber ==
  ASSUME Setting, FInv, barber PROVE FInv'
<1> USE DEF WaitStep, PostStep, LocalStep, Goto, Sem_wait, Sem_post
<1>0. FTypes /\ FShop /\ FArrivals /\ FTurn /\ FOwned /\ FLive /\ FOrder
  BY DEF FInv, FCore
<1>1. PICK l \in FBarberLabels :
        /\ pc' = [pc EXCEPT !["barber"] = l]
        /\ customers' = customers /\ live' = live /\ arrivals' = arrivals /\ haircuts' = haircuts
        /\ \/ /\ pc["barber"] = "70" /\ l = "71" /\ sem["customer_arrives"] > 0 /\ queue' = queue /\ e' = e
              /\ sem' = [sem EXCEPT !["customer_arrives"] = @ - 1]
           \/ /\ pc["barber"] = "71" /\ l = "72" /\ sem["mutex"] > 0 /\ queue' = queue /\ e' = e
              /\ sem' = [sem EXCEPT !["mutex"] = @ - 1]
           \/ /\ pc["barber"] = "72" /\ l = "74" /\ sem' = sem
              /\ queue # << >> => e' = Head(queue) /\ queue' = Tail(queue)
              /\ queue = << >> => e' = "none" /\ queue' = queue
           \/ /\ pc["barber"] = "74" /\ l = "76" /\ queue' = queue /\ e' = e
              /\ sem' = [sem EXCEPT !["mutex"] = @ + 1]
           \/ /\ pc["barber"] = "76" /\ l = "78" /\ queue' = queue /\ e' = e
              /\ sem' = [sem EXCEPT ![e] = @ + 1]
           \/ /\ pc["barber"] = "78" /\ l = "79" /\ sem["customer_leaves"] > 0 /\ queue' = queue /\ e' = e
              /\ sem' = [sem EXCEPT !["customer_leaves"] = @ - 1]
           \/ /\ pc["barber"] = "79" /\ l = "70" /\ queue' = queue /\ e' = e
              /\ sem' = [sem EXCEPT !["barber_sleeps"] = @ + 1]
  BY DEF barber, shop, FBarberLabels
<1>2. pc'["barber"] = l /\ \A c \in Customers : pc'[c] = pc[c]
  BY <1>0, <1>1, FNames DEF FTypes
<1>3. \A L : FCnt(L)' = FCnt(L) /\ FCnt(L) \in Nat
  <2>1. \A L : FCnt(L)' = FCnt(L)
    BY <1>2, Zenon DEF FCnt, Count
  <2> QED BY <2>1, FCounting
<1>4. sem \in [Shared \cup Customers -> Nat] /\ queue \in Seq(Customers) /\ Len(queue) \in Nat
  BY <1>0 DEF FTypes
<1>5. pc["barber"] = "72" => queue # << >>
  <2> SUFFICES ASSUME pc["barber"] = "72" PROVE Len(queue) # 0
    BY <1>4
  <2>1. PICK x \in Nat, y \in Nat : x = FCnt({"106", "108"}) /\ y = sem["customer_arrives"]
    BY <1>3, <1>4, FNames
  <2>2. Len(queue) = x + y + 1
    BY <1>0, <2>1 DEF FArrivals, One
  <2> QED BY <2>2
<1>6. pc["barber"] = "76" => e \in Customers
  BY <1>0 DEF FOwned
<1>7. FTypes'
  <2>1. sem' \in [Shared \cup Customers -> Nat]
    <3>1. \/ sem' = sem
          \/ \E x \in Shared \cup Customers : sem[x] > 0 /\ sem' = [sem EXCEPT ![x] = @ - 1]
          \/ \E x \in Shared \cup Customers : sem' = [sem EXCEPT ![x] = @ + 1]
      BY <1>1, <1>6, FNames
    <3> QED BY <1>4, <3>1
  <2>2. queue' \in Seq(Customers) /\ e' \in Customers \cup {"none"}
    <3>1. (queue' = queue /\ e' = e) \/ (queue # << >> /\ queue' = Tail(queue) /\ e' = Head(queue))
      BY <1>1, <1>5
    <3>2. e \in Customers \cup {"none"}
      BY <1>0 DEF FTypes
    <3>3. queue # << >> => Head(queue) \in Customers /\ Tail(queue) \in Seq(Customers)
      BY <1>4
    <3> QED BY <1>4, <3>1, <3>2, <3>3, Zenon
  <2> QED BY <1>0, <1>1, <1>2, <2>1, <2>2 DEF FTypes
<1>8. FShop'
  BY <1>0, <1>1, <1>3 DEF FShop
<1>9. CASE pc["barber"] \in {"71", "74", "79"}
  <2>1. /\ queue' = queue /\ e' = e
        /\ \E x \in {"mutex", "barber_sleeps"} : sem' = [sem EXCEPT ![x] = @ - 1] \/ sem' = [sem EXCEPT ![x] = @ + 1]
        /\ \/ pc["barber"] = "71" /\ l = "72"
           \/ pc["barber"] = "74" /\ l = "76"
           \/ pc["barber"] = "79" /\ l = "70"
    BY <1>1, <1>9
  <2>2. /\ \A c \in Customers : sem'[c] = sem[c]
        /\ sem'["customer_arrives"] = sem["customer_arrives"] /\ sem'["customer_leaves"] = sem["customer_leaves"]
    BY <1>4, <2>1, FNames
  <2>3. FQuiet
    BY <1>1, <1>2, <2>1, <2>2 DEF FQuiet
  <2> QED BY <1>0, <1>7, <1>8, <2>3, FKeepsQuiet DEF FInv, FCore
<1>10. CASE pc["barber"] = "70"
  <2>1. /\ l = "71" /\ queue' = queue /\ e' = e /\ sem'["customer_arrives"] = sem["customer_arrives"] - 1
        /\ sem'["customer_leaves"] = sem["customer_leaves"] /\ \A c \in Customers : sem'[c] = sem[c]
    BY <1>1, <1>4, <1>10, FNames
  <2>2. FArrivals'
    <3>1. PICK x \in Nat, y \in Nat : x = FCnt({"106", "108"}) /\ y = sem["customer_arrives"]
      BY <1>3, <1>4, FNames
    <3>2. Len(queue) = x + y + 0
      BY <1>0, <1>10, <3>1 DEF FArrivals, One
    <3>3. FCnt({"106", "108"})' = x
      BY <1>3, <3>1
    <3> QED BY <1>2, <2>1, <3>1, <3>2, <3>3 DEF FArrivals, One
  <2>3. \A i \in 1..Len(queue) : queue[i] \in Customers
    BY <1>4
  <2>4. FTurn' /\ FOwned' /\ FLive'
    BY <1>0, <1>1, <1>2, <1>10, <2>1, <2>3 DEF FTurn, FOwned, FLive
  <2>5. FOrder'
    <3>1. FDue = 0 /\ FDue' = 0
      BY <1>2, <1>10, <2>1 DEF FDue
    <3> QED BY <1>0, <1>1, <2>1, <3>1 DEF FOrder
  <2> QED BY <1>7, <1>8, <2>2, <2>4, <2>5 DEF FInv, FCore
<1>11. CASE pc["barber"] = "72"
  <2>1. /\ l = "74" /\ sem' = sem /\ queue # << >> /\ e' = Head(queue) /\ queue' = Tail(queue)
    BY <1>1, <1>5, <1>11
  <2>2. /\ Len(queue) # 0 /\ Len(queue') = Len(queue) - 1 /\ Head(queue) = queue[1] /\ 1 \in 1..Len(queue)
        /\ \A i \in 1..Len(queue') : i + 1 \in 1..Len(queue) /\ i \in Int /\ i + 1 # 1 /\ queue'[i] = queue[i + 1]
        /\ \A i \in 1..Len(queue) : queue[i] \in Customers
    BY <1>4, <2>1
  <2>3. FArrivals'
    <3>1. PICK x \in Nat, y \in Nat : x = FCnt({"106", "108"}) /\ y = sem["customer_arrives"]
      BY <1>3, <1>4, FNames
    <3>2. Len(queue) = x + y + 1
      BY <1>0, <1>11, <3>1 DEF FArrivals, One
    <3>3. FCnt({"106", "108"})' = x
      BY <1>3, <3>1
    <3> QED BY <1>2, <2>1, <2>2, <3>1, <3>2, <3>3 DEF FArrivals, One
  <2>4. FTurn' /\ FLive'
    BY <1>0, <1>1, <1>2, <1>11, <2>1 DEF FTurn, FLive
  <2>5. FOwned'
    <3>1. \A i \in 1..Len(queue') : pc'[queue'[i]] \in FWaiting /\ sem'[queue'[i]] = 0
      BY <1>0, <1>2, <2>1, <2>2 DEF FOwned
    <3>2. \A i, j \in 1..Len(queue') : queue'[i] = queue'[j] => i = j
      BY <1>0, <2>2 DEF FOwned
    <3>3. e' \in Customers /\ pc'[e'] \in FWaiting /\ sem'[e'] = 0 /\ \A i \in 1..Len(queue') : queue'[i] # e'
      <4>1. \A i \in 1..Len(queue) : queue[i] = queue[1] => i = 1
        BY <1>0, <2>2 DEF FOwned
      <4>2. \A i \in 1..Len(queue') : queue'[i] # queue[1]
        BY <2>2, <4>1
      <4> QED BY <1>0, <1>2, <2>1, <2>2, <4>2 DEF FOwned
    <3> QED BY <3>1, <3>2, <3>3 DEF FOwned
  <2>6. FOrder'
    <3>1. FDue = 0 /\ FDue' = 1
      BY <1>2, <1>11, <2>1 DEF FDue
    <3>2. Len(haircuts) \in Nat
      BY <1>0 DEF FTypes
    <3>3. /\ Len(arrivals) = Len(haircuts) + 0 + Len(queue)
          /\ \A k \in 1..Len(queue) : queue[k] = arrivals[Len(haircuts) + 0 + k]
      BY <1>0, <3>1 DEF FOrder
    <3>4. Len(arrivals) = Len(haircuts) + 1 + Len(queue')
      BY <1>4, <2>2, <3>2, <3>3
    <3>5. queue[1] = arrivals[Len(haircuts) + 1]
      BY <2>2, <3>2, <3>3
    <3>6. \A k \in 1..Len(queue') : queue'[k] = arrivals[Len(haircuts) + 1 + k]
      <4> TAKE k \in 1..Len(queue')
      <4>1. queue'[k] = arrivals[Len(haircuts) + 0 + (k + 1)] /\ k \in Int
        BY <2>2, <3>3
      <4>2. Len(haircuts) + 0 + (k + 1) = Len(haircuts) + 1 + k
        BY <3>2, <4>1
      <4> QED BY <4>1, <4>2
    <3> QED BY <1>0, <1>1, <2>1, <2>2, <3>1, <3>4, <3>5, <3>6, Zenon DEF FOrder
  <2> QED BY <1>7, <1>8, <2>3, <2>4, <2>5, <2>6 DEF FInv, FCore
<1>12. CASE pc["barber"] = "76"
  <2>1. /\ l = "78" /\ queue' = queue /\ e' = e /\ sem'[e] = 1 /\ \A c \in Customers : c # e => sem'[c] = sem[c]
        /\ sem'["customer_arrives"] = sem["customer_arrives"] /\ sem'["customer_leaves"] = sem["customer_leaves"]
    BY <1>0, <1>1, <1>4, <1>6, <1>12, FNames DEF FOwned
  <2>2. FArrivals'
    BY <1>0, <1>2, <1>3, <1>12, <2>1 DEF FArrivals, One
  <2>3. \A i \in 1..Len(queue) : queue[i] \in Customers
    BY <1>4
  <2>4. FTurn' /\ FOwned' /\ FLive'
    BY <1>0, <1>1, <1>2, <1>6, <1>12, <2>1, <2>3 DEF FTurn, FOwned, FLive
  <2>5. FOrder'
    <3>1. FDue = 1 /\ FDue' = 1
      BY <1>2, <1>12, <2>1 DEF FDue
    <3> QED BY <1>0, <1>1, <2>1, <3>1 DEF FOrder
  <2> QED BY <1>7, <1>8, <2>2, <2>4, <2>5 DEF FInv, FCore
<1>13. CASE pc["barber"] = "78"
  <2>1. /\ l = "79" /\ queue' = queue /\ e' = e /\ sem["customer_leaves"] # 0 /\ sem'["customer_leaves"] = 0
        /\ sem'["customer_arrives"] = sem["customer_arrives"] /\ \A c \in Customers : sem'[c] = sem[c]
    BY <1>0, <1>1, <1>4, <1>13, FNames DEF FTurn
  <2>2. FArrivals'
    BY <1>0, <1>2, <1>3, <1>13, <2>1 DEF FArrivals, One
  <2>3. \A i \in 1..Len(queue) : queue[i] \in Customers
    BY <1>4
  <2>4. FTurn' /\ FOwned' /\ FLive'
    BY <1>0, <1>1, <1>2, <1>13, <2>1, <2>3 DEF FTurn, FOwned, FLive
  <2>5. FOrder'
    <3>1. FDue = 0 /\ FDue' = 0
      BY <1>0, <1>2, <1>13, <2>1 DEF FDue, FTurn
    <3> QED BY <1>0, <1>1, <2>1, <3>1 DEF FOrder
  <2> QED BY <1>7, <1>8, <2>2, <2>4, <2>5 DEF FInv, FCore
<1> QED BY <1>1, <1>9, <1>10, <1>11, <1>12, <1>13

\* A wait or a post on any semaphore leaves all of them natural numbers.
LEMMA FSemTypes ==
  ASSUME FTypes,
         \/ sem' = sem
         \/ \E x \in Shared \cup Customers : sem[x] > 0 /\ sem' = [sem EXCEPT ![x] = @ - 1]
         \/ \E x \in Shared \cup Customers : sem' = [sem EXCEPT ![x] = @ + 1]
  PROVE  sem' \in [Shared \cup Customers -> Nat]
<1>1. sem \in [Shared \cup Customers -> Nat]
  BY DEF FTypes
<1> QED BY <1>1

\* A step of a customer keeps the invariant.
LEMMA FCustomer ==
  ASSUME Setting, FInv, NEW c \in Customers, customer(c) PROVE FInv'
<1> USE DEF WaitStep, PostStep, LocalStep, Goto, Sem_wait, Sem_post
<1>0. FTypes /\ FShop /\ FArrivals /\ FTurn /\ FOwned /\ FLive /\ FOrder
  BY DEF FInv, FCore
<1>1. PICK l \in FLabels :
        /\ pc' = [pc EXCEPT ![c] = l] /\ e' = e
        /\ \/ /\ pc[c] = "87" /\ l = "88" /\ sem["mutex"] > 0 /\ UNCHANGED <<shop, haircuts>>
              /\ sem' = [sem EXCEPT !["mutex"] = @ - 1]
           \/ pc[c] = "88" /\ l = "89" /\ UNCHANGED <<shop, haircuts>> /\ sem' = sem
           \/ /\ pc[c] \in {"89", "126"} /\ l = "done" /\ UNCHANGED <<shop, haircuts>>
              /\ sem' = [sem EXCEPT !["mutex"] = @ + 1]
           \/ /\ pc[c] = "88" /\ l = "106" /\ customers # chairs /\ sem' = sem /\ customers' = customers + 1
              /\ live' = live \cup {c} /\ queue' = Append(queue, c) /\ arrivals' = Append(arrivals, c)
              /\ haircuts' = haircuts
           \/ /\ pc[c] = "106" /\ l = "108" /\ UNCHANGED <<shop, haircuts>>
              /\ sem' = [sem EXCEPT !["mutex"] = @ + 1]
           \/ /\ pc[c] = "108" /\ l = "109" /\ UNCHANGED <<shop, haircuts>>
              /\ sem' = [sem EXCEPT !["customer_arrives"] = @ + 1]
           \/ /\ pc[c] = "109" /\ l = "111" /\ sem[c] > 0 /\ UNCHANGED <<shop, haircuts>>
              /\ sem' = [sem EXCEPT ![c] = @ - 1]
           \/ pc[c] = "111" /\ l = "113" /\ UNCHANGED shop /\ sem' = sem /\ haircuts' = Append(haircuts, c)
           \/ /\ pc[c] = "113" /\ l = "114" /\ UNCHANGED <<shop, haircuts>>
              /\ sem' = [sem EXCEPT !["customer_leaves"] = @ + 1]
           \/ /\ pc[c] = "114" /\ l = "116" /\ sem["barber_sleeps"] > 0 /\ UNCHANGED <<shop, haircuts>>
              /\ sem' = [sem EXCEPT !["barber_sleeps"] = @ - 1]
           \/ /\ pc[c] = "116" /\ l = "117" /\ sem["mutex"] > 0 /\ UNCHANGED <<shop, haircuts>>
              /\ sem' = [sem EXCEPT !["mutex"] = @ - 1]
           \/ /\ pc[c] = "117" /\ l = "126" /\ sem' = sem /\ customers' = customers - 1 /\ live' = live \ {c}
              /\ UNCHANGED <<queue, arrivals, haircuts>>
  BY DEF customer, Enter, Haircut, Exit, shop, FLabels
<1>2. /\ pc'[c] = l /\ pc'["barber"] = pc["barber"] /\ c # "barber"
      /\ \A d \in Customers : d # c => pc'[d] = pc[d]
  BY <1>0, <1>1, FNames DEF FTypes
<1>3. \A L : FCnt(L)' = FCnt(L) + One(l \in L) - One(pc[c] \in L)
  <2>1. Moves(Customers, pc, pc', c) /\ IsFiniteSet(Customers)
    BY <1>2, Zenon DEF Setting, Moves
  <2>2. \A L : Count(Customers, pc', L) = Count(Customers, pc, L) + One(pc'[c] \in L) - One(pc[c] \in L)
    BY <2>1 DEF Setting, CountingLaws
  <2> QED BY <1>2, <2>2, Zenon DEF FCnt
<1>4. /\ sem \in [Shared \cup Customers -> Nat] /\ queue \in Seq(Customers) /\ Len(queue) \in Nat
      /\ arrivals \in Seq(Customers) /\ haircuts \in Seq(Customers)
      /\ Len(arrivals) \in Nat /\ Len(haircuts) \in Nat
      /\ \A i \in 1..Len(queue) : queue[i] \in Customers
  BY <1>0 DEF FTypes
<1>5. PICK x \in Nat, y \in Nat, z \in Nat :
        x = FCnt({"106", "108"}) /\ y = sem["customer_arrives"] /\ z = One(pc["barber"] \in {"71", "72"})
  BY <1>4, FNames, FCounting, Zenon DEF One
<1>6. /\ Len(queue) = x + y + z
      /\ FCnt({"106", "108"})' = x + One(l \in {"106", "108"}) - One(pc[c] \in {"106", "108"})
      /\ z = One(pc'["barber"] \in {"71", "72"})
  BY <1>0, <1>2, <1>3, <1>5, Zenon DEF FArrivals
<1>7. FTypes'
  <2>1. sem' \in [Shared \cup Customers -> Nat]
    <3>1. \/ sem' = sem
          \/ \E s \in Shared \cup Customers : sem[s] > 0 /\ sem' = [sem EXCEPT ![s] = @ - 1]
          \/ \E s \in Shared \cup Customers : sem' = [sem EXCEPT ![s] = @ + 1]
      BY <1>1, FNames
    <3> QED BY <1>0, <3>1, FSemTypes
  <2>2. queue' \in Seq(Customers) /\ arrivals' \in Seq(Customers) /\ haircuts' \in Seq(Customers)
    <3>1. /\ Append(queue, c) \in Seq(Customers) /\ Append(arrivals, c) \in Seq(Customers)
          /\ Append(haircuts, c) \in Seq(Customers)
      BY <1>4
    <3>2. (queue' = queue \/ queue' = Append(queue, c)) /\ (arrivals' = arrivals \/ arrivals' = Append(arrivals, c))
          /\ (haircuts' = haircuts \/ haircuts' = Append(haircuts, c))
      BY <1>1 DEF shop
    <3> QED BY <1>4, <3>1, <3>2, Zenon
  <2>3. live' \subseteq Customers
    BY <1>0, <1>1 DEF FTypes, shop
  <2> QED BY <1>0, <1>1, <1>2, <2>1, <2>2, <2>3 DEF FTypes
<1>8. FShop'
  <2>1. PICK n \in Nat : n = FCnt(FInShop)
    BY FCounting
  <2>2. customers = n /\ n <= chairs
    BY <1>0, <2>1 DEF FShop
  <2>3. FCnt(FInShop)' = n + One(l \in FInShop) - One(pc[c] \in FInShop)
    BY <1>3, <2>1, Zenon
  <2>4. customers' = n + One(l = "106") - One(pc[c] = "117") /\ (l = "106" => n # chairs)
    BY <1>1, <2>2 DEF One, shop
  <2>5. One(l \in FInShop) - One(pc[c] \in FInShop) = One(l = "106") - One(pc[c] = "117")
    BY <1>1 DEF One, FInShop
  <2> QED BY <2>2, <2>3, <2>4, <2>5 DEF Setting, FShop, One
<1>9. CASE l \in {"88", "89", "108", "116", "117", "done"}
  <2>1. /\ UNCHANGED <<shop, haircuts>>
        /\ \/ sem' = sem
           \/ \E s \in {"mutex", "barber_sleeps"} : sem' = [sem EXCEPT ![s] = @ - 1] \/ sem' = [sem EXCEPT ![s] = @ + 1]
    BY <1>1, <1>9
  <2>2. /\ \A d \in Customers : sem'[d] = sem[d]
        /\ sem'["customer_arrives"] = sem["customer_arrives"] /\ sem'["customer_leaves"] = sem["customer_leaves"]
    BY <1>4, <2>1, FNames
  <2>3. /\ l \in {"106", "108"} <=> pc[c] \in {"106", "108"}
        /\ l \in FWaiting <=> pc[c] \in FWaiting
        /\ l # "111" /\ pc[c] # "111" /\ l # "113" /\ pc[c] # "113"
        /\ l \in FInShop <=> pc[c] \in FInShop
    BY <1>1, <1>9 DEF FWaiting, FInShop
  <2>4. FQuiet
    BY <1>1, <1>2, <2>1, <2>2, <2>3 DEF FQuiet, shop
  <2> QED BY <1>0, <1>7, <1>8, <2>4, FKeepsQuiet DEF FInv, FCore
<1>10. CASE l = "106"
  <2>1. /\ pc[c] = "88" /\ sem' = sem /\ live' = live \cup {c} /\ queue' = Append(queue, c)
        /\ arrivals' = Append(arrivals, c) /\ haircuts' = haircuts /\ e' = e
    BY <1>1, <1>10, Zenon
  <2>2. /\ Len(queue') = Len(queue) + 1 /\ queue'[Len(queue) + 1] = c
        /\ \A i \in 1..Len(queue) : queue'[i] = queue[i] /\ queue[i] # c
        /\ \A i \in 1..Len(queue') : i \in 1..Len(queue) \/ i = Len(queue) + 1
    <3>1. \A i \in 1..Len(queue) : queue[i] # c
      BY <1>0, <2>1, Zenon DEF FOwned, FWaiting
    <3>2. Len(queue') = Len(queue) + 1 /\ queue'[Len(queue) + 1] = c /\ \A i \in 1..Len(queue) : queue'[i] = queue[i]
      BY <1>4, <2>1
    <3> QED BY <1>4, <3>1, <3>2
  <2>3. /\ Len(arrivals') = Len(arrivals) + 1 /\ arrivals'[Len(arrivals) + 1] = c
        /\ \A i \in 1..Len(arrivals) : arrivals'[i] = arrivals[i]
    BY <1>4, <2>1
  <2>4. sem[c] = 0 /\ (pc["barber"] \in {"74", "76"} => e # c) /\ (pc["barber"] = "78" => sem[e] = sem'[e])
    BY <1>0, <2>1 DEF FTurn, FOwned, FWaiting
  <2>5. FArrivals'
    <3>1. FCnt({"106", "108"})' = x + 1 - 0
      BY <1>6, <1>10, <2>1 DEF One
    <3>2. Len(queue') = (x + 1 - 0) + y + z
      BY <1>4, <1>6, <2>2
    <3>3. sem'["customer_arrives"] = y
      BY <1>5, <2>1
    <3> QED BY <1>6, <3>1, <3>2, <3>3, Zenon DEF FArrivals
  <2>6. FTurn' /\ FLive'
    BY <1>0, <1>2, <1>10, <2>1, <2>4 DEF FTurn, FLive, FWaiting, FInShop
  <2>7. FOwned'
    <3>1. \A i \in 1..Len(queue') : pc'[queue'[i]] \in FWaiting /\ sem'[queue'[i]] = 0
      <4>1. l \in FWaiting
        BY <1>10 DEF FWaiting
      <4>2. \A i \in 1..Len(queue) : pc[queue[i]] \in FWaiting /\ sem[queue[i]] = 0
        BY <1>0 DEF FOwned
      <4>3. \A i \in 1..Len(queue) : pc'[queue'[i]] \in FWaiting /\ sem'[queue'[i]] = 0
        <5>1. SUFFICES ASSUME NEW i \in 1..Len(queue) PROVE pc'[queue'[i]] \in FWaiting /\ sem'[queue'[i]] = 0
          BY Zenon
        <5>2. queue'[i] = queue[i] /\ queue[i] # c /\ queue[i] \in Customers
          BY <1>4, <2>2, Zenon
        <5>3. pc'[queue[i]] = pc[queue[i]]
          BY <1>2, <5>2, Zenon
        <5>4. pc[queue[i]] \in FWaiting /\ sem[queue[i]] = 0 /\ sem' = sem
          BY <2>1, <4>2, Zenon
        <5> QED BY ONLY <5>2, <5>3, <5>4, Zenon
      <4> QED BY <1>2, <2>1, <2>2, <2>4, <4>1, <4>3, Zenon
    <3>2. \A i, j \in 1..Len(queue') : queue'[i] = queue'[j] => i = j
      BY <1>0, <2>2 DEF FOwned
    <3>3. pc["barber"] \in {"74", "76"} => /\ e \in Customers /\ pc'[e] \in FWaiting /\ sem'[e] = 0
                                          /\ \A i \in 1..Len(queue') : queue'[i] # e
      BY <1>0, <1>2, <2>1, <2>2, <2>4 DEF FOwned
    <3> QED BY <1>2, <2>1, <3>1, <3>2, <3>3 DEF FOwned
  <2>8. FOrder'
    <3>1. FDue' = FDue /\ FDue \in Nat
      BY <1>0, <1>2, <1>10, <2>1 DEF FDue, FTurn
    <3>2. PICK h \in Nat, p \in Nat, n \in Nat, a \in Nat :
            h = Len(haircuts) /\ p = FDue /\ n = Len(queue) /\ a = Len(arrivals)
      BY <1>4, <3>1, Zenon
    <3>3. /\ a = h + p + n /\ (\A k \in 1..h : haircuts[k] = arrivals[k]) /\ (p = 1 => arrivals[h + 1] = e)
          /\ \A k \in 1..n : queue[k] = arrivals[h + p + k]
      BY <1>0, <3>2, Zenon DEF FOrder
    <3>4. a + 1 = h + p + (n + 1)
      BY <3>3
    <3>5. \A k \in 1..h : haircuts[k] = arrivals'[k]
      <4>1. \A k \in 1..h : k \in 1..Len(arrivals)
        BY <3>2, <3>3
      <4> QED BY <2>3, <3>3, <4>1, Zenon
    <3>6. p = 1 => arrivals'[h + 1] = e
      BY <2>3, <3>2, <3>3
    <3>7. \A k \in 1..n + 1 : queue'[k] = arrivals'[h + p + k]
      <4>1. /\ \A k \in 1..n : queue'[k] = queue[k] /\ queue[k] = arrivals[h + p + k]
            /\ queue'[n + 1] = c /\ arrivals'[a + 1] = c /\ \A k \in 1..a : arrivals'[k] = arrivals[k]
        BY <2>2, <2>3, <3>2, <3>3, Zenon
      <4>2. \A k \in 1..n : h + p + k \in 1..a
        BY <3>3
      <4>3. \A k \in 1..n + 1 : k \in 1..n \/ k = n + 1
        OBVIOUS
      <4> QED BY <3>4, <4>1, <4>2, <4>3, Zenon
    <3> QED BY <2>1, <2>2, <2>3, <3>1, <3>2, <3>4, <3>5, <3>6, <3>7, Zenon DEF FOrder
  <2> QED BY <1>7, <1>8, <2>5, <2>6, <2>7, <2>8 DEF FInv, FCore
<1>11. CASE l = "109"
  <2>1. /\ pc[c] = "108" /\ UNCHANGED <<shop, haircuts, e>> /\ sem'["customer_arrives"] = sem["customer_arrives"] + 1
        /\ sem'["customer_leaves"] = sem["customer_leaves"] /\ \A d \in Customers : sem'[d] = sem[d]
    BY <1>1, <1>4, <1>11, FNames
  <2>2. FArrivals'
    <3>1. FCnt({"106", "108"})' = x + 0 - 1
      BY <1>6, <1>11, <2>1 DEF One
    <3>2. Len(queue) = (x + 0 - 1) + (y + 1) + z
      BY <1>6
    <3>3. sem'["customer_arrives"] = y + 1 /\ queue' = queue
      BY <1>5, <2>1 DEF shop
    <3> QED BY <1>6, <3>1, <3>2, <3>3, Zenon DEF FArrivals
  <2>3. FTurn' /\ FLive'
    BY <1>0, <1>2, <1>11, <2>1 DEF FTurn, FLive, FWaiting, FInShop, shop
  <2>4. FOwned'
    <3>1. /\ \A d \in Customers : pc[d] \in FWaiting => pc'[d] \in FWaiting
          /\ queue' = queue /\ \A i \in 1..Len(queue) : queue[i] \in Customers
      BY <1>2, <1>4, <1>11, <2>1, Zenon DEF FWaiting, shop
    <3>2. FOwned /\ e' = e /\ pc'["barber"] = pc["barber"] /\ \A d \in Customers : sem'[d] = sem[d]
      BY <1>0, <1>2, <2>1, Zenon
    <3> QED BY ONLY <3>1, <3>2, Zenon DEF FOwned
  <2>5. FOrder'
    <3>1. FDue' = FDue
      BY <1>0, <1>2, <1>11, <2>1 DEF FDue, FTurn
    <3> QED BY <1>0, <2>1, <3>1 DEF FOrder, shop
  <2> QED BY <1>7, <1>8, <2>2, <2>3, <2>4, <2>5 DEF FInv, FCore
<1>12. CASE l = "111"
  <2>1. /\ pc[c] = "109" /\ sem[c] # 0 /\ sem[c] = 1 /\ UNCHANGED <<shop, haircuts, e>>
        /\ sem'["customer_arrives"] = sem["customer_arrives"] /\ sem'["customer_leaves"] = sem["customer_leaves"]
        /\ sem'[c] = 0 /\ \A d \in Customers : d # c => sem'[d] = sem[d]
    BY <1>0, <1>1, <1>4, <1>12, FNames DEF FTurn
  <2>2. c = e /\ pc["barber"] = "78" /\ sem["customer_leaves"] = 0
    BY <1>0, <2>1 DEF FTurn
  <2>3. FArrivals'
    <3>1. FCnt({"106", "108"})' = x + 0 - 0
      BY <1>6, <1>12, <2>1 DEF One
    <3> QED BY <1>5, <1>6, <2>1, <3>1 DEF FArrivals, shop
  <2>4. FTurn' /\ FLive'
    BY <1>0, <1>2, <1>12, <2>1, <2>2 DEF FTurn, FLive, FWaiting, FInShop, shop
  <2>5. FOwned'
    <3>1. \A i \in 1..Len(queue) : queue[i] # c
      <4>1. \A i \in 1..Len(queue) : sem[queue[i]] = 0
        BY <1>0, Zenon DEF FOwned
      <4> QED BY <2>1, <4>1
    <3>2. \A i \in 1..Len(queue) : pc'[queue[i]] = pc[queue[i]] /\ sem'[queue[i]] = sem[queue[i]]
      BY <1>2, <1>4, <2>1, <3>1, Zenon
    <3>3. FOwned /\ queue' = queue /\ pc'["barber"] \notin {"74", "76"}
      BY <1>0, <1>2, <2>1, <2>2, Zenon DEF shop
    <3> QED BY ONLY <3>2, <3>3, Zenon DEF FOwned
  <2>6. FOrder'
    <3>1. FDue' = FDue
      BY <1>2, <1>12, <2>1, <2>2, Zenon DEF FDue
    <3> QED BY <1>0, <2>1, <3>1 DEF FOrder, shop
  <2> QED BY <1>7, <1>8, <2>3, <2>4, <2>5, <2>6 DEF FInv, FCore
<1>13. CASE l = "113"
  <2>1. pc[c] = "111" /\ UNCHANGED <<shop, e>> /\ sem' = sem /\ haircuts' = Append(haircuts, c)
    BY <1>1, <1>13
  <2>2. c = e /\ pc["barber"] = "78" /\ sem["customer_leaves"] = 0 /\ sem[c] = 0
    BY <1>0, <2>1 DEF FTurn, FWaiting
  <2>3. FArrivals'
    <3>1. FCnt({"106", "108"})' = x + 0 - 0
      BY <1>6, <1>13, <2>1 DEF One
    <3> QED BY <1>5, <1>6, <2>1, <3>1 DEF FArrivals, shop
  <2>4. FTurn' /\ FLive'
    BY <1>0, <1>2, <1>13, <2>1, <2>2 DEF FTurn, FLive, FWaiting, FInShop, shop
  <2>5. FOwned'
    <3>1. \A i \in 1..Len(queue) : queue[i] # c
      BY <1>0, <2>1 DEF FOwned, FWaiting
    <3>2. \A i \in 1..Len(queue) : pc'[queue[i]] = pc[queue[i]] /\ sem'[queue[i]] = sem[queue[i]]
      BY <1>2, <1>4, <2>1, <3>1, Zenon
    <3>3. FOwned /\ queue' = queue /\ pc'["barber"] \notin {"74", "76"}
      BY <1>0, <1>2, <2>1, <2>2, Zenon DEF shop
    <3> QED BY ONLY <3>2, <3>3, Zenon DEF FOwned
  <2>6. FOrder'
    <3>1. FDue = 1 /\ FDue' = 0
      BY <1>2, <1>13, <2>1, <2>2 DEF FDue
    <3>2. PICK h \in Nat, n \in Nat : h = Len(haircuts) /\ n = Len(queue)
      BY <1>4
    <3>3. /\ Len(arrivals) = h + 1 + n /\ (\A k \in 1..h : haircuts[k] = arrivals[k]) /\ arrivals[h + 1] = e
          /\ \A k \in 1..n : queue[k] = arrivals[h + 1 + k]
      BY <1>0, <3>1, <3>2, Zenon DEF FOrder
    <3>4. Len(haircuts') = h + 1 /\ haircuts'[h + 1] = c /\ \A k \in 1..h : haircuts'[k] = haircuts[k]
      BY <1>4, <2>1, <3>2
    <3>5. \A k \in 1..h + 1 : haircuts'[k] = arrivals[k]
      BY <2>2, <3>3, <3>4
    <3>6. Len(arrivals) = (h + 1) + 0 + n /\ \A k \in 1..n : queue[k] = arrivals[(h + 1) + 0 + k]
      BY <3>3
    <3> QED BY <2>1, <3>1, <3>2, <3>4, <3>5, <3>6 DEF FOrder, shop
  <2> QED BY <1>7, <1>8, <2>3, <2>4, <2>5, <2>6 DEF FInv, FCore
<1>14. CASE l = "114"
  <2>1. /\ pc[c] = "113" /\ UNCHANGED <<shop, haircuts, e>>
        /\ sem'["customer_arrives"] = sem["customer_arrives"] /\ sem'["customer_leaves"] = sem["customer_leaves"] + 1
        /\ \A d \in Customers : sem'[d] = sem[d]
    BY <1>1, <1>4, <1>14, FNames
  <2>2. c = e /\ pc["barber"] = "78" /\ sem["customer_leaves"] = 0 /\ sem[c] = 0 /\ sem'["customer_leaves"] = 1
    BY <1>0, <2>1 DEF FTurn, FWaiting
  <2>3. FArrivals'
    <3>1. FCnt({"106", "108"})' = x + 0 - 0
      BY <1>6, <1>14, <2>1 DEF One
    <3> QED BY <1>5, <1>6, <2>1, <3>1 DEF FArrivals, shop
  <2>4. FTurn' /\ FLive'
    BY <1>0, <1>2, <1>14, <2>1, <2>2 DEF FTurn, FLive, FWaiting, FInShop, shop
  <2>5. FOwned'
    <3>1. \A i \in 1..Len(queue) : queue[i] # c
      BY <1>0, <2>1 DEF FOwned, FWaiting
    <3>2. \A i \in 1..Len(queue) : pc'[queue[i]] = pc[queue[i]] /\ sem'[queue[i]] = sem[queue[i]]
      BY <1>2, <1>4, <2>1, <3>1, Zenon
    <3>3. FOwned /\ queue' = queue /\ pc'["barber"] \notin {"74", "76"}
      BY <1>0, <1>2, <2>1, <2>2, Zenon DEF shop
    <3> QED BY ONLY <3>2, <3>3, Zenon DEF FOwned
  <2>6. FOrder'
    <3>1. FDue = 0 /\ FDue' = 0
      BY <1>2, <1>14, <2>1, <2>2 DEF FDue
    <3> QED BY <1>0, <2>1, <3>1 DEF FOrder, shop
  <2> QED BY <1>7, <1>8, <2>3, <2>4, <2>5, <2>6 DEF FInv, FCore
<1>15. CASE l = "126"
  <2>1. pc[c] = "117" /\ UNCHANGED <<queue, arrivals, haircuts, e>> /\ sem' = sem /\ live' = live \ {c}
    BY <1>1, <1>15
  <2>2. FArrivals'
    <3>1. FCnt({"106", "108"})' = x + 0 - 0
      BY <1>6, <1>15, <2>1 DEF One
    <3> QED BY <1>5, <1>6, <2>1, <3>1 DEF FArrivals
  <2>3. FTurn' /\ FLive'
    BY <1>0, <1>2, <1>15, <2>1 DEF FTurn, FLive, FWaiting, FInShop
  <2>4. FOwned'
    <3>1. \A i \in 1..Len(queue) : queue[i] # c
      BY <1>0, <2>1 DEF FOwned, FWaiting
    <3>2. \A d \in Customers : pc[d] \in FWaiting => pc'[d] = pc[d]
      BY <1>2, <2>1, Zenon DEF FWaiting
    <3>3. /\ FOwned /\ queue' = queue /\ e' = e /\ sem' = sem /\ pc'["barber"] = pc["barber"]
          /\ \A i \in 1..Len(queue) : queue[i] \in Customers
      BY <1>0, <1>2, <1>4, <2>1, Zenon
    <3> QED BY ONLY <3>2, <3>3, Zenon DEF FOwned
  <2>5. FOrder'
    <3>1. FDue' = FDue
      BY <1>0, <1>2, <1>15, <2>1 DEF FDue, FTurn
    <3> QED BY <1>0, <2>1, <3>1 DEF FOrder
  <2> QED BY <1>7, <1>8, <2>2, <2>3, <2>4, <2>5 DEF FInv, FCore
<1> QED BY <1>1, <1>9, <1>10, <1>11, <1>12, <1>13, <1>14, <1>15 DEF FLabels

\* A step of FIFO_barbershop.c keeps the invariant.
LEMMA FStep ==
  ASSUME Setting
  PROVE  FInv /\ [Next]_vars => FInv'
<1> SUFFICES ASSUME FInv, [Next]_vars PROVE FInv'
  OBVIOUS
<1>1. CASE UNCHANGED vars
  <2>1. /\ pc' = pc /\ sem' = sem /\ customers' = customers /\ queue' = queue /\ e' = e
        /\ live' = live /\ arrivals' = arrivals /\ haircuts' = haircuts
    BY <1>1 DEF vars
  <2>2. FTypes' /\ FShop' /\ FArrivals' /\ FTurn' /\ FOwned' /\ FLive'
    BY <2>1, Zenon DEF FInv, FCore, FTypes, FShop, FArrivals, FTurn, FOwned, FLive, FCnt
  <2>3. FOrder'
    BY <2>1, Zenon DEF FInv, FCore, FOrder, FDue
  <2> QED BY <2>2, <2>3 DEF FInv, FCore
<1> QED BY <1>1, FBarber, FCustomer DEF Next

\* What the invariant says.
LEMMA FShows ==
  ASSUME Setting
  PROVE  FInv => QueueNotEmpty /\ NoUseAfterFree /\ FifoOrder /\ TypeOK
<1> SUFFICES ASSUME FInv PROVE QueueNotEmpty /\ NoUseAfterFree /\ FifoOrder /\ TypeOK
  OBVIOUS
<1>0. FTypes /\ FShop /\ FArrivals /\ FTurn /\ FOwned /\ FLive /\ FOrder
  BY DEF FInv, FCore
<1>1. QueueNotEmpty
  <2> SUFFICES ASSUME pc["barber"] = "72" PROVE queue # << >>
    BY DEF QueueNotEmpty
  <2>1. PICK x \in Nat, y \in Nat : x = FCnt({"106", "108"}) /\ y = sem["customer_arrives"]
    BY <1>0, FCounting, FNames DEF FTypes
  <2>2. Len(queue) = x + y + 1
    BY <1>0, <2>1 DEF FArrivals, One
  <2> QED BY <2>2
<1>2. NoUseAfterFree
  <2>1. \A i \in 1..Len(queue) : queue[i] \in Customers
    BY <1>0 DEF FTypes
  <2> QED BY <1>0, <2>1 DEF NoUseAfterFree, FOwned, FLive, FWaiting, FInShop
<1>3. FifoOrder
  <2>1. Len(haircuts) \in Nat /\ Len(queue) \in Nat /\ FDue \in Nat
    BY <1>0 DEF FTypes, FDue
  <2>2. Len(haircuts) <= Len(arrivals)
    BY <1>0, <2>1 DEF FOrder
  <2> QED BY <1>0, <2>2 DEF FifoOrder, FOrder
<1>4. TypeOK
  <2>1. customers \in 0..chairs
    BY <1>0, FCounting DEF Setting, FShop
  <2> QED BY <1>0, <2>1 DEF FTypes, TypeOK, FLabels, FBarberLabels
<1> QED BY <1>1, <1>2, <1>3, <1>4
=============================================================================
