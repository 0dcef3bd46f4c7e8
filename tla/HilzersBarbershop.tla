-------------------------- MODULE HilzersBarbershop --------------------------
(***************************************************************************)
(* 31/Hilzers_barbershop.c: customers wait for a place on the sofa, then   *)
(* for a chair, get their hair cut and pay.  An usher stands for a place   *)
(* on the sofa, a barber for a chair.  A customer's entry in a queue       *)
(* carries the semaphore on which it waits; it allocates one for the sofa  *)
(* and another one for the chair.  Labels are line numbers of the source.  *)
(***************************************************************************)
EXTENDS SemThreads, ThreadCount, Sequences, TLAPS

CONSTANTS Customers, Ushers, Barbers, max_capacity

VARIABLES customer_num,
          queue,    \* wait_sofaq_head and wait_chairq_head
          e,        \* e[s]: the customer whose entry server s took, or "none"
          live,     \* live[q]: customers whose entry for q is allocated
          called    \* called[q]: customers whose semaphore for q is posted

vars == <<pc, sem, customer_num, queue, e, live, called>>
entries == <<queue, live, called>>

Places == {"sofa", "chair"}
Servers == Ushers \cup Barbers

Semaphores == {"cust_num_mutex", "sofaq_mutex", "chairq_mutex", "cust_arrive", "cust_on_sofa",
               "cust_leave_sofa", "payment", "receipt", "cashier_mutex"}
Mutexes == {"cust_num_mutex", "sofaq_mutex", "chairq_mutex", "cashier_mutex"}

Init ==
  /\ pc = [t \in Customers \cup Servers |->
             CASE t \in Customers -> "149" [] t \in Ushers -> "195" [] t \in Barbers -> "105"]
  /\ sem = [s \in Semaphores |-> IF s \in Mutexes THEN 1 ELSE 0]
  /\ customer_num = 0
  /\ queue = [q \in Places |-> <<>>]
  /\ e = [s \in Servers |-> "none"]
  /\ live = [q \in Places |-> {}]
  /\ called = [q \in Places |-> {}]
-----------------------------------------------------------------------------
\* The steps with an entry: insert it, wait on it, take the first one, post it.
Queue(c, from, q, to) ==
  /\ LocalStep(c, from, to)
  /\ queue' = [queue EXCEPT ![q] = Append(@, c)]
  /\ live' = [live EXCEPT ![q] = @ \cup {c}]
  /\ UNCHANGED <<called, e>>

AwaitCall(c, from, q, to) ==
  /\ c \in called[q]
  /\ LocalStep(c, from, to)
  /\ called' = [called EXCEPT ![q] = @ \ {c}]
  /\ UNCHANGED <<queue, live, e>>

\* free_entry (lines 136-145).
free_entry(c, from, q, to) ==
  /\ LocalStep(c, from, to)
  /\ live' = [live EXCEPT ![q] = @ \ {c}]
  /\ UNCHANGED <<queue, called, e>>

TakeFirst(s, from, q, to) ==
  /\ queue[q] # <<>>
  /\ LocalStep(s, from, to)
  /\ e' = [e EXCEPT ![s] = Head(queue[q])]
  /\ queue' = [queue EXCEPT ![q] = Tail(@)]
  /\ UNCHANGED <<live, called>>

Call(s, from, q, to) ==
  /\ LocalStep(s, from, to)
  /\ called' = [called EXCEPT ![q] = @ \cup {e[s]}]
  /\ UNCHANGED <<queue, live, e>>

SemStep(A) == A /\ UNCHANGED <<entries, e>>

\* Lines 191-205.
usher(u) ==
  /\ \/ SemStep(WaitStep(u, "195", "cust_arrive", "196"))
     \/ SemStep(WaitStep(u, "196", "sofaq_mutex", "197"))
     \/ TakeFirst(u, "197", "sofa", "199")
     \/ SemStep(PostStep(u, "199", "sofaq_mutex", "200"))
     \/ Call(u, "200", "sofa", "202")
     \/ SemStep(WaitStep(u, "202", "cust_leave_sofa", "195"))
  /\ UNCHANGED customer_num

\* A barber that keeps the cashier's lock.
barber_KeepsLock(b) ==
  /\ \/ SemStep(WaitStep(b, "105", "cust_on_sofa", "106"))
     \/ SemStep(WaitStep(b, "106", "chairq_mutex", "107"))
     \/ TakeFirst(b, "107", "chair", "109")
     \/ SemStep(PostStep(b, "109", "chairq_mutex", "110"))
     \/ Call(b, "110", "chair", "113")
     \/ SemStep(WaitStep(b, "113", "payment", "114"))
     \/ SemStep(WaitStep(b, "114", "cashier_mutex", "117"))
     \/ SemStep(PostStep(b, "117", "receipt", "105"))
  /\ UNCHANGED customer_num

\* Lines 101-120.
barber(b) ==
  /\ \/ SemStep(WaitStep(b, "105", "cust_on_sofa", "106"))
     \/ SemStep(WaitStep(b, "106", "chairq_mutex", "107"))
     \/ TakeFirst(b, "107", "chair", "109")
     \/ SemStep(PostStep(b, "109", "chairq_mutex", "110"))
     \/ Call(b, "110", "chair", "113")
     \/ SemStep(WaitStep(b, "113", "payment", "114"))
     \/ SemStep(WaitStep(b, "114", "cashier_mutex", "116"))
     \/ SemStep(PostStep(b, "116", "cashier_mutex", "117"))
     \/ SemStep(PostStep(b, "117", "receipt", "105"))
  /\ UNCHANGED customer_num

\* The test for room in the shop outside the lock.
Enter_TestsFirst(c) ==
  \/ LocalStep(c, "149", IF customer_num = max_capacity THEN "done" ELSE "150") /\ UNCHANGED customer_num
  \/ WaitStep(c, "150", "cust_num_mutex", "157") /\ customer_num' = customer_num + 1
  \/ PostStep(c, "157", "cust_num_mutex", "159") /\ UNCHANGED customer_num

\* Lines 149-157: come in, or balk.
Enter(c) ==
  \/ WaitStep(c, "149", "cust_num_mutex", "150") /\ UNCHANGED customer_num
  \/ customer_num = max_capacity /\ LocalStep(c, "150", "151") /\ UNCHANGED customer_num
  \/ PostStep(c, "151", "cust_num_mutex", "done") /\ UNCHANGED customer_num
  \/ /\ customer_num # max_capacity
     /\ LocalStep(c, "150", "157") /\ customer_num' = customer_num + 1
  \/ PostStep(c, "157", "cust_num_mutex", "159") /\ UNCHANGED customer_num

\* Lines 159-168: queue for the sofa, and sit down when called.
Sofa(c) ==
  \/ SemStep(WaitStep(c, "159", "sofaq_mutex", "163"))
  \/ Queue(c, "163", "sofa", "164")
  \/ SemStep(PostStep(c, "164", "sofaq_mutex", "166"))
  \/ SemStep(PostStep(c, "166", "cust_arrive", "167"))
  \/ AwaitCall(c, "167", "sofa", "168")
  \/ free_entry(c, "168", "sofa", "170")

\* Lines 170-178: queue for a chair, and leave the sofa when called.
Chair(c) ==
  \/ SemStep(WaitStep(c, "170", "chairq_mutex", "173"))
  \/ Queue(c, "173", "chair", "174")
  \/ SemStep(PostStep(c, "174", "chairq_mutex", "175"))
  \/ SemStep(PostStep(c, "175", "cust_on_sofa", "176"))
  \/ AwaitCall(c, "176", "chair", "177")
  \/ free_entry(c, "177", "chair", "178")
  \/ SemStep(PostStep(c, "178", "cust_leave_sofa", "181"))

\* Lines 181-187: pay and leave.
Pay(c) ==
  \/ PostStep(c, "181", "payment", "182") /\ UNCHANGED customer_num
  \/ WaitStep(c, "182", "receipt", "184") /\ UNCHANGED customer_num
  \/ WaitStep(c, "184", "cust_num_mutex", "185") /\ UNCHANGED customer_num
  \/ LocalStep(c, "185", "187") /\ customer_num' = customer_num - 1
  \/ PostStep(c, "187", "cust_num_mutex", "done") /\ UNCHANGED customer_num

customer(c) ==
  \/ (Enter(c) \/ Pay(c)) /\ UNCHANGED <<entries, e>>
  \/ (Sofa(c) \/ Chair(c)) /\ UNCHANGED customer_num

Next ==
  \/ \E u \in Ushers : usher(u)
  \/ \E b \in Barbers : barber(b)
  \/ \E c \in Customers : customer(c)

Spec == Init /\ [][Next]_vars
-----------------------------------------------------------------------------
TypeOK ==
  /\ sem \in [Semaphores -> Nat]
  /\ \A s \in Mutexes : sem[s] \in 0..1
  /\ customer_num \in 0..max_capacity
  /\ queue \in [Places -> Seq(Customers)]
  /\ e \in [Servers -> Customers \cup {"none"}]
  /\ live \in [Places -> SUBSET Customers]
  /\ called \in [Places -> SUBSET Customers]

\* A server finds an entry in its queue for every announcement it receives.
QueuesNotEmpty ==
  /\ \A u \in Ushers : pc[u] = "197" => queue["sofa"] # <<>>
  /\ \A b \in Barbers : pc[b] = "107" => queue["chair"] # <<>>

OnSofa == {c \in Customers : pc[c] \in {"168", "170", "173", "174", "175", "176", "177", "178"}}
InChair == {c \in Customers : pc[c] \in {"177", "178", "181"}}

\* Never more customers on the sofa than it has places, nor more hair cuts in
\* progress than barbers, although a barber takes anybody's payment and an
\* usher anybody's leaving.
PlacesBound ==
  /\ Cardinality(OnSofa) <= Cardinality(Ushers)
  /\ Cardinality(InChair) <= Cardinality(Barbers)

\* Usher and barber do not post the semaphore of an entry that is freed.
NoUseAfterFree ==
  /\ \A u \in Ushers : pc[u] = "200" => e[u] \in live["sofa"]
  /\ \A b \in Barbers : pc[b] = "110" => e[b] \in live["chair"]

\* Every customer has left, so main's joins return.
Finished == \A c \in Customers : pc[c] = "done"
-----------------------------------------------------------------------------
(* The proof, under the following hypothesis.                              *)

\* Finitely many customers, ushers and barbers, no thread being two of them, and
\* none with the name of no entry.
Setting ==
  /\ IsFiniteSet(Customers) /\ IsFiniteSet(Ushers) /\ IsFiniteSet(Barbers)
  /\ Customers \cap (Ushers \cup Barbers) = {}
  /\ Ushers \cap Barbers = {} /\ "none" \notin Customers
  /\ max_capacity \in Nat
  /\ CountingLaws

\* What the places have in common: who serves them, where a customer that
\* waits, and one that has been called, is, and where a server that was told
\* of an arrival, has taken an entry, or has called, is.
HServersOf(q) == IF q = "sofa" THEN Ushers ELSE Barbers
HAnnouncing(q) == IF q = "sofa" THEN {"164", "166"} ELSE {"174", "175"}
HWaiting(q) == IF q = "sofa" THEN {"164", "166", "167"} ELSE {"174", "175", "176"}
HFreeing(q) == IF q = "sofa" THEN {"168"} ELSE {"177"}
HSeated(q) == IF q = "sofa" THEN {"168", "170", "173", "174", "175", "176", "177", "178"}
              ELSE {"177", "178", "181"}
HTold(q) == IF q = "sofa" THEN {"196", "197"} ELSE {"106", "107"}
HHolding(q) == IF q = "sofa" THEN {"199", "200"} ELSE {"109", "110"}
HServing(q) == IF q = "sofa" THEN {"202"} ELSE {"113"}
HArrive(q) == IF q = "sofa" THEN "cust_arrive" ELSE "cust_on_sofa"
HLeave(q) == IF q = "sofa" THEN "cust_leave_sofa" ELSE "payment"

\* The statements of the three kinds of threads.
HCustomerLabels ==
  {"149", "150", "151", "157", "159", "163", "164", "166", "167", "168", "170", "173", "174",
   "175", "176", "177", "178", "181", "182", "184", "185", "187", "done"}
HUsherLabels == {"195", "196", "197", "199", "200", "202"}
HBarberLabels == {"105", "106", "107", "109", "110", "113", "114", "116", "117"}

\* The types, for every thread by itself.
HTypes ==
  /\ pc \in [Customers \cup Servers -> HCustomerLabels \cup HUsherLabels \cup HBarberLabels]
  /\ \A c \in Customers : pc[c] \in HCustomerLabels
  /\ \A u \in Ushers : pc[u] \in HUsherLabels
  /\ \A b \in Barbers : pc[b] \in HBarberLabels
  /\ sem \in [Semaphores -> Nat]
  /\ queue \in [Places -> Seq(Customers)]
  /\ e \in [Servers -> Customers \cup {"none"}]
  /\ live \in [Places -> SUBSET Customers]
  /\ called \in [Places -> SUBSET Customers]

HCnt(S, L) == Count(S, pc, L)

\* Every entry in the queue is still to be announced, or is announced, or a
\* server has been told of it;
HArrivals(q) ==
  Len(queue[q]) = HCnt(Customers, HAnnouncing(q)) + sem[HArrive(q)] + HCnt(HServersOf(q), HTold(q))

\* a server that waits for somebody to leave has called one customer, which has
\* not left;
HSeats(q) ==
  Cardinality(called[q]) + HCnt(Customers, HSeated(q)) + sem[HLeave(q)] = HCnt(HServersOf(q), HServing(q))

\* and a customer that waits is in one place only: in the queue, once, or in
\* the hands of one server, or called.
HQueued(q) ==
  /\ \A i \in 1..Len(queue[q]) : pc[queue[q][i]] \in HWaiting(q) /\ queue[q][i] \notin called[q]
  /\ \A i, j \in 1..Len(queue[q]) : queue[q][i] = queue[q][j] => i = j

HHeld(q) ==
  \A s \in HServersOf(q) : pc[s] \in HHolding(q) =>
    /\ e[s] \in Customers /\ pc[e[s]] \in HWaiting(q) /\ e[s] \notin called[q]
    /\ \A i \in 1..Len(queue[q]) : queue[q][i] # e[s]
    /\ \A r \in HServersOf(q) : pc[r] \in HHolding(q) /\ e[r] = e[s] => r = s

HCalled(q) == \A c \in called[q] : pc[c] \in HWaiting(q)
HLive(q) == \A c \in Customers : pc[c] \in HWaiting(q) \cup HFreeing(q) => c \in live[q]

HPlace(q) == HArrivals(q) /\ HSeats(q) /\ HQueued(q) /\ HHeld(q) /\ HCalled(q) /\ HLive(q)

\* The mutexes, and customer_num, which counts those inside.
HInShop == HCustomerLabels \ {"149", "150", "151", "187", "done"}

HLocks ==
  /\ sem["cust_num_mutex"] + HCnt(Customers, {"150", "151", "157", "185", "187"}) = 1
  /\ customer_num = HCnt(Customers, HInShop) /\ customer_num <= max_capacity
  /\ sem["sofaq_mutex"] + HCnt(Customers, {"163", "164"}) + HCnt(Ushers, {"197", "199"}) = 1
  /\ sem["chairq_mutex"] + HCnt(Customers, {"173", "174"}) + HCnt(Barbers, {"107", "109"}) = 1
  /\ sem["cashier_mutex"] + HCnt(Barbers, {"116"}) = 1

HInv == HTypes /\ HLocks /\ \A q \in Places : HPlace(q)

\* The classes of the statements, for a place.
LEMMA HClasses ==
  ASSUME NEW q \in Places
  PROVE  /\ HAnnouncing(q) \subseteq HWaiting(q) /\ HWaiting(q) \cap HSeated(q) = {}
         /\ HFreeing(q) \subseteq HSeated(q) /\ HFreeing(q) \cap HWaiting(q) = {}
         /\ HTold(q) \cap HHolding(q) = {} /\ HTold(q) \cap HServing(q) = {}
         /\ HHolding(q) \cap HServing(q) = {} /\ HServersOf(q) \subseteq Servers
         /\ HArrive(q) \in Semaphores /\ HLeave(q) \in Semaphores
BY DEF Places, HAnnouncing, HWaiting, HSeated, HFreeing, HTold, HHolding, HServing, HServersOf, Servers,
       HArrive, HLeave, Semaphores

\* The threads are finitely many.
LEMMA HFinite ==
  ASSUME Setting
  PROVE  /\ IsFiniteSet(Customers) /\ IsFiniteSet(Ushers) /\ IsFiniteSet(Barbers)
         /\ \A q \in Places : IsFiniteSet(HServersOf(q))
BY DEF Setting, HServersOf

\* The counts.
LEMMA HCounting ==
  ASSUME Setting
  PROVE  \A S, L : IsFiniteSet(S) => HCnt(S, L) \in Nat /\ (HCnt(S, L) = 0 <=> \A t \in S : pc[t] \notin L)
                                     /\ HCnt(S, L) <= Cardinality(S) /\ Cardinality(S) \in Nat
BY DEF Setting, CountingLaws, HCnt

\* The numbers that the two equations of a place are about.
HSums(q) ==
  /\ HCnt(Customers, HAnnouncing(q)) \in Nat /\ HCnt(HServersOf(q), HTold(q)) \in Nat
  /\ HCnt(Customers, HSeated(q)) \in Nat /\ HCnt(HServersOf(q), HServing(q)) \in Nat
  /\ sem[HArrive(q)] \in Nat /\ sem[HLeave(q)] \in Nat
  /\ Len(queue[q]) \in Nat /\ Cardinality(called[q]) \in Nat
  /\ queue[q] \in Seq(Customers) /\ called[q] \in SUBSET Customers /\ IsFiniteSet(called[q])

\* In a state of the types they are numbers.
LEMMA HNumbers ==
  ASSUME Setting, HTypes, NEW q \in Places PROVE HSums(q)
<1>1. queue[q] \in Seq(Customers) /\ called[q] \in SUBSET Customers /\ IsFiniteSet(called[q])
  BY HFinite DEF HTypes, Setting, CountingLaws
<1>2. Len(queue[q]) \in Nat /\ Cardinality(called[q]) \in Nat
  BY <1>1 DEF Setting, CountingLaws
<1>3. sem[HArrive(q)] \in Nat /\ sem[HLeave(q)] \in Nat
  BY HClasses DEF HTypes
<1> QED BY <1>1, <1>2, <1>3, HFinite, HCounting DEF HSums

\* Where no class of the place changes, nothing else of it does.
HQuiet(q) ==
  /\ \A c \in Customers : /\ pc'[c] \in HAnnouncing(q) <=> pc[c] \in HAnnouncing(q)
                          /\ pc'[c] \in HWaiting(q) <=> pc[c] \in HWaiting(q)
                          /\ pc'[c] \in HFreeing(q) => pc[c] \in HFreeing(q)
                          /\ pc'[c] \in HSeated(q) <=> pc[c] \in HSeated(q)
  /\ \A s \in HServersOf(q) : /\ pc'[s] \in HTold(q) <=> pc[s] \in HTold(q)
                              /\ pc'[s] \in HHolding(q) <=> pc[s] \in HHolding(q)
                              /\ pc'[s] \in HServing(q) <=> pc[s] \in HServing(q)
                              /\ e'[s] = e[s]
  /\ queue'[q] = queue[q] /\ called'[q] = called[q]
  /\ \A c \in live[q] : pc'[c] \in HWaiting(q) \cup HFreeing(q) => c \in live'[q]
  /\ sem'[HArrive(q)] = sem[HArrive(q)] /\ sem'[HLeave(q)] = sem[HLeave(q)]

\* A step that is quiet at a place keeps its invariant.
LEMMA HKeepsQuiet ==
  ASSUME HTypes, NEW q \in Places, HPlace(q), HQuiet(q) PROVE HPlace(q)'
<1>1. /\ HCnt(Customers, HAnnouncing(q))' = HCnt(Customers, HAnnouncing(q))
      /\ HCnt(Customers, HSeated(q))' = HCnt(Customers, HSeated(q))
      /\ HCnt(HServersOf(q), HTold(q))' = HCnt(HServersOf(q), HTold(q))
      /\ HCnt(HServersOf(q), HServing(q))' = HCnt(HServersOf(q), HServing(q))
  BY Zenon DEF HQuiet, HCnt, Count
<1>2. queue[q] \in Seq(Customers) /\ called[q] \subseteq Customers
  BY DEF HTypes
<1>3. \A i \in 1..Len(queue[q]) : queue[q][i] \in Customers
  BY <1>2
<1>4. HArrivals(q)' /\ HSeats(q)'
  BY <1>1 DEF HQuiet, HPlace, HArrivals, HSeats
<1>5. HQueued(q)' /\ HCalled(q)' /\ HLive(q)'
  BY <1>2, <1>3 DEF HQuiet, HPlace, HQueued, HCalled, HLive
<1>6. HHeld(q)'
  BY <1>2, <1>3 DEF HQuiet, HPlace, HHeld
<1> QED BY <1>4, <1>5, <1>6 DEF HPlace

\* One customer moves; the servers of the place do not.
HCustomerMoves(q, c) ==
  /\ c \in Customers /\ Moves(Customers, pc, pc', c)
  /\ \A s \in HServersOf(q) : pc'[s] = pc[s] /\ e'[s] = e[s]

\* The counts of the customers follow the one that moves.
LEMMA HCustomerCounts ==
  ASSUME Setting, NEW q \in Places, NEW c, HCustomerMoves(q, c)
  PROVE  /\ \A L : HCnt(Customers, L)' = HCnt(Customers, L) + One(pc'[c] \in L) - One(pc[c] \in L)
         /\ \A L : HCnt(HServersOf(q), L)' = HCnt(HServersOf(q), L)
<1>1. Moves(Customers, pc, pc', c) /\ IsFiniteSet(Customers)
  BY HFinite DEF HCustomerMoves
<1>2. \A L : Count(Customers, pc', L) = Count(Customers, pc, L) + One(pc'[c] \in L) - One(pc[c] \in L)
  BY <1>1 DEF Setting, CountingLaws
<1>3. \A L : Count(HServersOf(q), pc', L) = Count(HServersOf(q), pc, L)
  BY DEF HCustomerMoves, Count
<1> QED BY <1>2, <1>3, Zenon DEF HCnt

\* A customer that stays in the classes of a place leaves the place as it is.
LEMMA HKeepsBystander ==
  ASSUME HTypes, NEW q \in Places, HPlace(q), NEW c, HCustomerMoves(q, c),
         pc'[c] \in HAnnouncing(q) <=> pc[c] \in HAnnouncing(q),
         pc'[c] \in HWaiting(q) <=> pc[c] \in HWaiting(q),
         pc'[c] \in HSeated(q) <=> pc[c] \in HSeated(q), pc'[c] \notin HFreeing(q),
         queue'[q] = queue[q], called'[q] = called[q],
         \A d \in live[q] : d # c => d \in live'[q], pc'[c] \notin HWaiting(q) \/ live'[q] = live[q],
         sem'[HArrive(q)] = sem[HArrive(q)], sem'[HLeave(q)] = sem[HLeave(q)]
  PROVE  HPlace(q)'
<1>1. /\ \A d \in Customers : d # c => pc'[d] = pc[d]
      /\ \A s \in HServersOf(q) : pc'[s] = pc[s] /\ e'[s] = e[s]
  BY DEF HCustomerMoves, Moves
<1>2. \A d \in Customers : /\ pc'[d] \in HAnnouncing(q) <=> pc[d] \in HAnnouncing(q)
                           /\ pc'[d] \in HWaiting(q) <=> pc[d] \in HWaiting(q)
                           /\ pc'[d] \in HFreeing(q) => pc[d] \in HFreeing(q)
                           /\ pc'[d] \in HSeated(q) <=> pc[d] \in HSeated(q)
  BY <1>1
<1>3. \A d \in live[q] : pc'[d] \in HWaiting(q) \cup HFreeing(q) => d \in live'[q]
  OBVIOUS
<1>4. HQuiet(q)
  BY <1>1, <1>2, <1>3, Zenon DEF HQuiet
<1> QED BY <1>4, HKeepsQuiet

\* One server moves; the customers do not.
HServerMoves(q, s) ==
  /\ s \in HServersOf(q) /\ Moves(HServersOf(q), pc, pc', s)
  /\ \A c \in Customers : pc'[c] = pc[c]
  /\ \A r \in HServersOf(q) : r # s => e'[r] = e[r]

\* The counts of the servers follow the one that moves.
LEMMA HServerCounts ==
  ASSUME Setting, NEW q \in Places, NEW s, HServerMoves(q, s)
  PROVE  /\ \A L : HCnt(HServersOf(q), L)' = HCnt(HServersOf(q), L) + One(pc'[s] \in L) - One(pc[s] \in L)
         /\ \A L : HCnt(Customers, L)' = HCnt(Customers, L)
<1>1. Moves(HServersOf(q), pc, pc', s) /\ IsFiniteSet(HServersOf(q))
  BY HFinite DEF HServerMoves
<1>2. \A L : Count(HServersOf(q), pc', L) = Count(HServersOf(q), pc, L) + One(pc'[s] \in L) - One(pc[s] \in L)
  BY <1>1 DEF Setting, CountingLaws
<1>3. \A L : Count(Customers, pc', L) = Count(Customers, pc, L)
  BY Zenon DEF HServerMoves, Count
<1> QED BY <1>2, <1>3, Zenon DEF HCnt

\* Customer c inserts its entry (lines 163, 173).
LEMMA HKeepsQueue ==
  ASSUME Setting, HTypes, NEW q \in Places, HPlace(q), NEW c, HCustomerMoves(q, c),
         pc[c] \notin HWaiting(q), pc'[c] \in HAnnouncing(q),
         pc[c] \in HSeated(q) <=> pc'[c] \in HSeated(q),
         queue'[q] = Append(queue[q], c), live'[q] = live[q] \cup {c}, called'[q] = called[q],
         sem'[HArrive(q)] = sem[HArrive(q)], sem'[HLeave(q)] = sem[HLeave(q)]
  PROVE  HPlace(q)'
<1>0. HSums(q) /\ c \in Customers
  BY HNumbers DEF HCustomerMoves
<1>1. /\ pc'[c] \in HWaiting(q) /\ pc[c] \notin HAnnouncing(q)
      /\ \A d \in Customers : d # c => pc'[d] = pc[d]
      /\ \A s \in HServersOf(q) : pc'[s] = pc[s] /\ e'[s] = e[s]
  BY HClasses DEF HCustomerMoves, Moves
<1>2. /\ HCnt(Customers, HAnnouncing(q))' = HCnt(Customers, HAnnouncing(q)) + 1
      /\ HCnt(Customers, HSeated(q))' = HCnt(Customers, HSeated(q))
      /\ \A L : HCnt(HServersOf(q), L)' = HCnt(HServersOf(q), L)
  <2>1. /\ One(pc'[c] \in HAnnouncing(q)) = 1 /\ One(pc[c] \in HAnnouncing(q)) = 0
        /\ One(pc'[c] \in HSeated(q)) = One(pc[c] \in HSeated(q)) /\ One(pc[c] \in HSeated(q)) \in Nat
    BY <1>1 DEF One
  <2>2. /\ HCnt(Customers, HAnnouncing(q))' = HCnt(Customers, HAnnouncing(q)) + 1 - 0
        /\ HCnt(Customers, HSeated(q))' =
             HCnt(Customers, HSeated(q)) + One(pc[c] \in HSeated(q)) - One(pc[c] \in HSeated(q))
        /\ \A L : HCnt(HServersOf(q), L)' = HCnt(HServersOf(q), L)
    BY <2>1, HCustomerCounts
  <2> QED BY <1>0, <2>1, <2>2 DEF HSums
<1>3. Len(queue'[q]) = Len(queue[q]) + 1
  BY <1>0 DEF HSums
<1>4. /\ \A i \in 1..Len(queue'[q]) : \/ i \in 1..Len(queue[q]) /\ queue'[q][i] = queue[q][i]
                                      \/ i = Len(queue[q]) + 1 /\ queue'[q][i] = c
      /\ \A i \in 1..Len(queue[q]) : queue[q][i] \in Customers /\ queue[q][i] # c
  <2>1. \A i \in 1..Len(queue[q]) : queue[q][i] \in Customers
    BY <1>0 DEF HSums
  <2>2. \A i \in 1..Len(queue[q]) : queue[q][i] # c
    BY DEF HPlace, HQueued
  <2>3. queue[q] \in Seq(Customers) /\ Len(queue[q]) \in Nat
    BY <1>0 DEF HSums
  <2>4. \A i \in 1..Len(queue[q]) + 1 : queue'[q][i] = IF i = Len(queue[q]) + 1 THEN c ELSE queue[q][i]
    BY <1>0, <2>3
  <2>5. \A i \in 1..Len(queue'[q]) : \/ i \in 1..Len(queue[q]) /\ queue'[q][i] = queue[q][i]
                                     \/ i = Len(queue[q]) + 1 /\ queue'[q][i] = c
    <3> TAKE i \in 1..Len(queue'[q])
    <3>1. i \in 1..Len(queue[q]) + 1
      BY <1>3
    <3>2. CASE i = Len(queue[q]) + 1
      BY <2>4, <3>1, <3>2
    <3>3. CASE i # Len(queue[q]) + 1
      BY <2>3, <2>4, <3>1, <3>3
    <3> QED BY <3>2, <3>3
  <2>6. \A i \in 1..Len(queue[q]) : queue[q][i] \in Customers /\ queue[q][i] # c
    BY <2>1, <2>2, Zenon
  <2> QED BY <2>5, <2>6
<1>5. c \notin called[q] /\ called[q] \subseteq Customers
  BY <1>0 DEF HPlace, HCalled, HSums
<1>6. HArrivals(q)'
  <2>1. PICK x \in Nat, y \in Nat, z \in Nat :
          x = HCnt(Customers, HAnnouncing(q)) /\ y = sem[HArrive(q)] /\ z = HCnt(HServersOf(q), HTold(q))
    BY <1>0 DEF HSums
  <2>2. Len(queue[q]) = x + y + z
    BY <2>1 DEF HPlace, HArrivals
  <2>3. HCnt(Customers, HAnnouncing(q))' = x + 1 /\ HCnt(HServersOf(q), HTold(q))' = z
    BY <1>2, <2>1
  <2> QED BY <1>3, <2>1, <2>2, <2>3 DEF HArrivals
<1>7. HSeats(q)'
  BY <1>2 DEF HPlace, HSeats
<1>8. HQueued(q)'
  <2>1. \A i \in 1..Len(queue'[q]) : pc'[queue'[q][i]] \in HWaiting(q) /\ queue'[q][i] \notin called[q]
    BY <1>1, <1>4, <1>5 DEF HPlace, HQueued
  <2>2. \A i, j \in 1..Len(queue'[q]) : queue'[q][i] = queue'[q][j] => i = j
    BY <1>4, Zenon DEF HPlace, HQueued
  <2> QED BY <2>1, <2>2, Zenon DEF HQueued
<1>9. HHeld(q)'
  <2> SUFFICES ASSUME NEW s \in HServersOf(q), pc[s] \in HHolding(q)
               PROVE  /\ e[s] \in Customers /\ pc'[e[s]] \in HWaiting(q) /\ e[s] \notin called[q]
                      /\ \A i \in 1..Len(queue'[q]) : queue'[q][i] # e[s]
                      /\ \A r \in HServersOf(q) : pc[r] \in HHolding(q) /\ e[r] = e[s] => r = s
    BY <1>1 DEF HHeld
  <2>1. /\ e[s] \in Customers /\ pc[e[s]] \in HWaiting(q) /\ e[s] \notin called[q]
        /\ \A i \in 1..Len(queue[q]) : queue[q][i] # e[s]
        /\ \A r \in HServersOf(q) : pc[r] \in HHolding(q) /\ e[r] = e[s] => r = s
    BY Zenon DEF HPlace, HHeld
  <2> QED BY <1>1, <1>4, <2>1
<1>10. HCalled(q)' /\ HLive(q)'
  BY <1>0, <1>1, <1>5, Zenon DEF HPlace, HCalled, HLive
<1> QED BY <1>6, <1>7, <1>8, <1>9, <1>10 DEF HPlace

\* Customer c announces itself (lines 166, 175), or leaves (lines 178, 181).
LEMMA HKeepsPost ==
  ASSUME Setting, HTypes, NEW q \in Places, HPlace(q), NEW c, HCustomerMoves(q, c),
         pc[c] \in HWaiting(q) <=> pc'[c] \in HWaiting(q),
         pc[c] \notin HFreeing(q), pc'[c] \notin HFreeing(q), pc'[c] \notin HAnnouncing(q),
         queue'[q] = queue[q], live'[q] = live[q], called'[q] = called[q],
         sem'[HArrive(q)] = sem[HArrive(q)] + One(pc[c] \in HAnnouncing(q)),
         sem'[HLeave(q)] = sem[HLeave(q)] + One(pc[c] \in HSeated(q)) - One(pc'[c] \in HSeated(q))
  PROVE  HPlace(q)'
<1>0. HSums(q) /\ c \in Customers
  BY HNumbers DEF HCustomerMoves
<1>1. /\ \A d \in Customers : d # c => pc'[d] = pc[d]
      /\ \A s \in HServersOf(q) : pc'[s] = pc[s] /\ e'[s] = e[s]
  BY DEF HCustomerMoves, Moves
<1>2. /\ HCnt(Customers, HAnnouncing(q))' = HCnt(Customers, HAnnouncing(q)) + 0 - One(pc[c] \in HAnnouncing(q))
      /\ HCnt(Customers, HSeated(q))' =
           HCnt(Customers, HSeated(q)) + One(pc'[c] \in HSeated(q)) - One(pc[c] \in HSeated(q))
      /\ \A L : HCnt(HServersOf(q), L)' = HCnt(HServersOf(q), L)
  <2>1. One(pc'[c] \in HAnnouncing(q)) = 0
    BY DEF One
  <2> QED BY <2>1, HCustomerCounts
<1>3. PICK i \in Nat, j \in Nat, k \in Nat : i = One(pc[c] \in HAnnouncing(q)) /\ j = One(pc[c] \in HSeated(q))
                                             /\ k = One(pc'[c] \in HSeated(q))
  BY DEF One
<1>4. HArrivals(q)'
  <2>1. PICK x \in Nat, y \in Nat, z \in Nat :
          x = HCnt(Customers, HAnnouncing(q)) /\ y = sem[HArrive(q)] /\ z = HCnt(HServersOf(q), HTold(q))
    BY <1>0, Zenon DEF HSums
  <2>2. Len(queue[q]) = x + y + z
    BY <2>1, Zenon DEF HPlace, HArrivals
  <2>3. HCnt(Customers, HAnnouncing(q))' = x + 0 - i /\ sem'[HArrive(q)] = y + i /\ HCnt(HServersOf(q), HTold(q))' = z
    BY <1>2, <1>3, <2>1, Zenon
  <2> QED BY <2>2, <2>3 DEF HArrivals
<1>5. HSeats(q)'
  <2>1. PICK x \in Nat, y \in Nat, z \in Nat, n \in Nat :
          /\ x = HCnt(Customers, HSeated(q)) /\ y = sem[HLeave(q)] /\ z = HCnt(HServersOf(q), HServing(q))
          /\ n = Cardinality(called[q])
    BY <1>0, Zenon DEF HSums
  <2>2. n + x + y = z
    BY <2>1, Zenon DEF HPlace, HSeats
  <2>3. HCnt(Customers, HSeated(q))' = x + k - j /\ sem'[HLeave(q)] = y + j - k /\ HCnt(HServersOf(q), HServing(q))' = z
    BY <1>2, <1>3, <2>1, Zenon
  <2> QED BY <2>1, <2>2, <2>3 DEF HSeats
<1>6. called[q] \subseteq Customers /\ \A m \in 1..Len(queue[q]) : queue[q][m] \in Customers
  BY <1>0 DEF HSums
<1>7. HQueued(q)' /\ HCalled(q)' /\ HLive(q)'
  BY <1>0, <1>1, <1>6 DEF HPlace, HQueued, HCalled, HLive
<1>8. HHeld(q)'
  BY <1>0, <1>1, <1>6 DEF HPlace, HHeld
<1> QED BY <1>4, <1>5, <1>7, <1>8 DEF HPlace

\* Customer c has been called and goes on (lines 167, 176).
LEMMA HKeepsSit ==
  ASSUME Setting, HTypes, NEW q \in Places, HPlace(q), NEW c, HCustomerMoves(q, c),
         pc[c] \in HWaiting(q), pc[c] \notin HAnnouncing(q), pc'[c] \in HFreeing(q), c \in called[q],
         queue'[q] = queue[q], live'[q] = live[q], called'[q] = called[q] \ {c},
         sem'[HArrive(q)] = sem[HArrive(q)], sem'[HLeave(q)] = sem[HLeave(q)]
  PROVE  HPlace(q)'
<1>0. HSums(q) /\ c \in Customers
  BY HNumbers, Zenon DEF HCustomerMoves
<1>1. /\ \A d \in Customers : d # c => pc'[d] = pc[d]
      /\ \A s \in HServersOf(q) : pc'[s] = pc[s] /\ e'[s] = e[s]
      /\ pc'[c] \notin HWaiting(q) /\ pc'[c] \notin HAnnouncing(q) /\ pc'[c] \in HSeated(q) /\ pc[c] \notin HSeated(q)
  BY HClasses, Zenon DEF HCustomerMoves, Moves
<1>2. /\ HCnt(Customers, HAnnouncing(q))' = HCnt(Customers, HAnnouncing(q))
      /\ HCnt(Customers, HSeated(q))' = HCnt(Customers, HSeated(q)) + 1
      /\ \A L : HCnt(HServersOf(q), L)' = HCnt(HServersOf(q), L)
  <2>1. /\ One(pc'[c] \in HAnnouncing(q)) = 0 /\ One(pc[c] \in HAnnouncing(q)) = 0
        /\ One(pc'[c] \in HSeated(q)) = 1 /\ One(pc[c] \in HSeated(q)) = 0
    BY <1>1, Zenon DEF One
  <2>2. /\ HCnt(Customers, HAnnouncing(q))' = HCnt(Customers, HAnnouncing(q)) + 0 - 0
        /\ HCnt(Customers, HSeated(q))' = HCnt(Customers, HSeated(q)) + 1 - 0
        /\ \A L : HCnt(HServersOf(q), L)' = HCnt(HServersOf(q), L)
    BY <2>1, HCustomerCounts
  <2> QED BY <1>0, <2>2 DEF HSums
<1>3. Cardinality(called'[q]) = Cardinality(called[q]) - 1
  <2>1. IsFiniteSet(called[q])
    BY <1>0 DEF HSums
  <2>2. Cardinality(called[q] \ {c}) = Cardinality(called[q]) - 1
    BY <2>1, Zenon DEF Setting, CountingLaws
  <2> QED BY <2>2
<1>4. HArrivals(q)'
  BY <1>2, Zenon DEF HPlace, HArrivals
<1>5. HSeats(q)'
  <2>1. PICK x \in Nat, y \in Nat, z \in Nat, n \in Nat :
          /\ x = HCnt(Customers, HSeated(q)) /\ y = sem[HLeave(q)] /\ z = HCnt(HServersOf(q), HServing(q))
          /\ n = Cardinality(called[q])
    BY <1>0, Zenon DEF HSums
  <2>2. n + x + y = z
    BY <2>1, Zenon DEF HPlace, HSeats
  <2>3. HCnt(Customers, HSeated(q))' = x + 1 /\ HCnt(HServersOf(q), HServing(q))' = z /\ Cardinality(called'[q]) = n - 1
    BY <1>2, <1>3, <2>1, Zenon
  <2> QED BY <2>1, <2>2, <2>3 DEF HSeats
<1>6. called[q] \subseteq Customers /\ \A m \in 1..Len(queue[q]) : queue[q][m] \in Customers /\ queue[q][m] # c
  BY <1>0 DEF HSums, HPlace, HQueued
<1>7. HQueued(q)' /\ HCalled(q)' /\ HLive(q)'
  <2>1. /\ HQueued(q) /\ HCalled(q) /\ HLive(q)
        /\ queue'[q] = queue[q] /\ called'[q] = called[q] \ {c} /\ live'[q] = live[q] /\ pc[c] \in HWaiting(q)
    BY Zenon DEF HPlace
  <2>2. HQueued(q)'
    <3>1. \A i \in 1..Len(queue[q]) : pc'[queue[q][i]] \in HWaiting(q) /\ queue[q][i] \notin called[q] \ {c}
      BY ONLY <1>1, <1>6, <2>1, Zenon DEF HQueued
    <3> QED BY ONLY <2>1, <3>1, Zenon DEF HQueued
  <2>3. HCalled(q)'
    BY ONLY <1>1, <1>6, <2>1, Zenon DEF HCalled
  <2>4. HLive(q)'
    BY ONLY <1>1, <2>1, Zenon DEF HLive
  <2> QED BY ONLY <2>2, <2>3, <2>4, Zenon
<1>8. HHeld(q)'
  <2>1. HHeld(q) /\ c \in called[q] /\ queue'[q] = queue[q] /\ called'[q] = called[q] \ {c}
    BY Zenon DEF HPlace
  <2>2. ASSUME NEW r \in HServersOf(q), pc'[r] \in HHolding(q)
        PROVE  /\ pc[r] \in HHolding(q) /\ e'[r] = e[r]
               /\ e[r] \in Customers /\ pc[e[r]] \in HWaiting(q) /\ e[r] \notin called[q]
               /\ \A i \in 1..Len(queue[q]) : queue[q][i] # e[r]
    BY ONLY <1>1, <2>1, <2>2, Zenon DEF HHeld
  <2>3. ASSUME NEW r \in HServersOf(q), NEW t \in HServersOf(q), pc'[r] \in HHolding(q), pc'[t] \in HHolding(q),
               e'[r] = e'[t]
        PROVE  r = t
    BY ONLY <2>1, <2>2, <2>3, Zenon DEF HHeld
  <2>4. ASSUME NEW r \in HServersOf(q), pc'[r] \in HHolding(q)
        PROVE  /\ e'[r] \in Customers /\ pc'[e'[r]] \in HWaiting(q) /\ e'[r] \notin called'[q]
               /\ \A i \in 1..Len(queue'[q]) : queue'[q][i] # e'[r]
    <3>1. /\ e'[r] = e[r] /\ e[r] \in Customers /\ pc[e[r]] \in HWaiting(q) /\ e[r] \notin called[q]
          /\ \A i \in 1..Len(queue[q]) : queue[q][i] # e[r]
      BY ONLY <2>2, <2>4, Zenon
    <3>2. e[r] # c
      BY ONLY <2>1, <3>1, Zenon
    <3>3. pc'[e[r]] = pc[e[r]]
      BY ONLY <1>1, <3>1, <3>2, Zenon
    <3> QED BY ONLY <2>1, <3>1, <3>3, Zenon
  <2> QED BY ONLY <2>3, <2>4, Zenon DEF HHeld
<1> QED BY <1>4, <1>5, <1>7, <1>8 DEF HPlace

\* Server s is told of an arrival (lines 195, 105), or learns that its
\* customer has left (lines 202, 113).
LEMMA HKeepsWait ==
  ASSUME Setting, HTypes, NEW q \in Places, HPlace(q), NEW s, HServerMoves(q, s),
         pc[s] \notin HTold(q), pc'[s] \notin HServing(q), pc[s] \notin HHolding(q), pc'[s] \notin HHolding(q),
         queue'[q] = queue[q], live'[q] = live[q], called'[q] = called[q],
         sem'[HArrive(q)] = sem[HArrive(q)] - One(pc'[s] \in HTold(q)),
         sem'[HLeave(q)] = sem[HLeave(q)] - One(pc[s] \in HServing(q))
  PROVE  HPlace(q)'
<1>0. HSums(q) /\ s \in HServersOf(q)
  BY HNumbers DEF HServerMoves
<1>1. /\ \A r \in HServersOf(q) : r # s => pc'[r] = pc[r] /\ e'[r] = e[r]
      /\ \A c \in Customers : pc'[c] = pc[c]
  BY Zenon DEF HServerMoves, Moves
<1>2. PICK i \in Nat, j \in Nat : i = One(pc'[s] \in HTold(q)) /\ j = One(pc[s] \in HServing(q))
  BY Zenon DEF One
<1>3. /\ HCnt(HServersOf(q), HTold(q))' = HCnt(HServersOf(q), HTold(q)) + i - 0
      /\ HCnt(HServersOf(q), HServing(q))' = HCnt(HServersOf(q), HServing(q)) + 0 - j
      /\ \A L : HCnt(Customers, L)' = HCnt(Customers, L)
  <2>1. One(pc[s] \in HTold(q)) = 0 /\ One(pc'[s] \in HServing(q)) = 0
    BY Zenon DEF One
  <2> QED BY <1>2, <2>1, HServerCounts
<1>4. HArrivals(q)'
  <2>1. PICK x \in Nat, y \in Nat, z \in Nat :
          x = HCnt(Customers, HAnnouncing(q)) /\ y = sem[HArrive(q)] /\ z = HCnt(HServersOf(q), HTold(q))
    BY <1>0, Zenon DEF HSums
  <2>2. Len(queue[q]) = x + y + z
    BY <2>1, Zenon DEF HPlace, HArrivals
  <2>3. HCnt(Customers, HAnnouncing(q))' = x /\ sem'[HArrive(q)] = y - i /\ HCnt(HServersOf(q), HTold(q))' = z + i - 0
    BY <1>2, <1>3, <2>1, Zenon
  <2> QED BY <2>2, <2>3 DEF HArrivals
<1>5. HSeats(q)'
  <2>1. PICK x \in Nat, y \in Nat, z \in Nat, n \in Nat :
          /\ x = HCnt(Customers, HSeated(q)) /\ y = sem[HLeave(q)] /\ z = HCnt(HServersOf(q), HServing(q))
          /\ n = Cardinality(called[q])
    BY <1>0, Zenon DEF HSums
  <2>2. n + x + y = z
    BY <2>1, Zenon DEF HPlace, HSeats
  <2>3. HCnt(Customers, HSeated(q))' = x /\ sem'[HLeave(q)] = y - j /\ HCnt(HServersOf(q), HServing(q))' = z + 0 - j
    BY <1>2, <1>3, <2>1, Zenon
  <2> QED BY <2>1, <2>2, <2>3 DEF HSeats
<1>6. called[q] \subseteq Customers /\ \A m \in 1..Len(queue[q]) : queue[q][m] \in Customers
  BY <1>0 DEF HSums
<1>7. HQueued(q)' /\ HCalled(q)' /\ HLive(q)'
  <2>1. HQueued(q)'
    BY <1>1, <1>6, Zenon DEF HPlace, HQueued
  <2>2. HCalled(q)'
    BY <1>1, <1>6, Zenon DEF HPlace, HCalled
  <2>3. HLive(q)'
    BY <1>1, <1>6, Zenon DEF HPlace, HLive
  <2> QED BY <2>1, <2>2, <2>3
<1>8. HHeld(q)'
  BY <1>1, <1>6 DEF HPlace, HHeld
<1> QED BY <1>4, <1>5, <1>7, <1>8, Zenon DEF HPlace

\* Server s takes the first entry (lines 197, 107).
LEMMA HKeepsTake ==
  ASSUME Setting, HTypes, NEW q \in Places, HPlace(q), NEW s, HServerMoves(q, s),
         pc[s] \in HTold(q), pc'[s] \in HHolding(q), e'[s] = Head(queue[q]),
         queue[q] # << >>, queue'[q] = Tail(queue[q]), live'[q] = live[q], called'[q] = called[q],
         sem'[HArrive(q)] = sem[HArrive(q)], sem'[HLeave(q)] = sem[HLeave(q)]
  PROVE  HPlace(q)'
<1>0. HSums(q) /\ s \in HServersOf(q)
  BY HNumbers, Zenon DEF HServerMoves
<1>1. /\ \A r \in HServersOf(q) : r # s => pc'[r] = pc[r] /\ e'[r] = e[r]
      /\ \A c \in Customers : pc'[c] = pc[c]
      /\ pc[s] \notin HHolding(q) /\ pc'[s] \notin HTold(q) /\ pc[s] \notin HServing(q) /\ pc'[s] \notin HServing(q)
  BY HClasses, Zenon DEF HServerMoves, Moves
<1>2. /\ HCnt(HServersOf(q), HTold(q))' = HCnt(HServersOf(q), HTold(q)) + 0 - 1
      /\ HCnt(HServersOf(q), HServing(q))' = HCnt(HServersOf(q), HServing(q)) + 0 - 0
      /\ \A L : HCnt(Customers, L)' = HCnt(Customers, L)
  <2>1. /\ One(pc[s] \in HTold(q)) = 1 /\ One(pc'[s] \in HServing(q)) = 0
        /\ One(pc'[s] \in HTold(q)) = 0 /\ One(pc[s] \in HServing(q)) = 0
    BY <1>1, Zenon DEF One
  <2> QED BY <2>1, HServerCounts
<1>3. /\ Len(queue[q]) \in Nat /\ Len(queue[q]) # 0 /\ Len(queue'[q]) = Len(queue[q]) - 1
      /\ Head(queue[q]) = queue[q][1]
      /\ \A i \in 1..Len(queue[q]) - 1 : queue'[q][i] = queue[q][i + 1]
      /\ \A i \in 1..Len(queue[q]) : queue[q][i] \in Customers
  BY <1>0 DEF HSums
<1>4. HArrivals(q)'
  <2>1. PICK x \in Nat, y \in Nat, z \in Nat :
          x = HCnt(Customers, HAnnouncing(q)) /\ y = sem[HArrive(q)] /\ z = HCnt(HServersOf(q), HTold(q))
    BY <1>0, Zenon DEF HSums
  <2>2. Len(queue[q]) = x + y + z
    BY <2>1, Zenon DEF HPlace, HArrivals
  <2>3. HCnt(Customers, HAnnouncing(q))' = x /\ sem'[HArrive(q)] = y /\ HCnt(HServersOf(q), HTold(q))' = z + 0 - 1
    BY <1>2, <2>1, Zenon
  <2> QED BY <1>3, <2>2, <2>3 DEF HArrivals
<1>5. HSeats(q)'
  BY <1>0, <1>2 DEF HPlace, HSeats, HSums
<1>6. /\ 1 \in 1..Len(queue[q])
      /\ \A i \in 1..Len(queue'[q]) : /\ i + 1 \in 1..Len(queue[q]) /\ i \in Int /\ i + 1 # 1
                                      /\ queue'[q][i] = queue[q][i + 1]
  BY <1>3
<1>7. HQueued(q)'
  <2>1. \A i \in 1..Len(queue'[q]) : pc'[queue'[q][i]] \in HWaiting(q) /\ queue'[q][i] \notin called[q]
    <3>1. \A i \in 1..Len(queue[q]) : pc[queue[q][i]] \in HWaiting(q) /\ queue[q][i] \notin called[q]
      BY Zenon DEF HPlace, HQueued
    <3>2. SUFFICES ASSUME NEW i \in 1..Len(queue'[q])
                   PROVE  pc'[queue'[q][i]] \in HWaiting(q) /\ queue'[q][i] \notin called[q]
      BY Zenon
    <3>3. i + 1 \in 1..Len(queue[q]) /\ queue'[q][i] = queue[q][i + 1]
      BY ONLY <1>6, Zenon
    <3>4. \A j \in 1..Len(queue[q]) : queue[q][j] \in Customers
      BY ONLY <1>3, Zenon
    <3>5. queue[q][i + 1] \in Customers /\ pc[queue[q][i + 1]] \in HWaiting(q) /\ queue[q][i + 1] \notin called[q]
      BY ONLY <3>1, <3>3, <3>4, Zenon
    <3>6. \A d \in Customers : pc'[d] = pc[d]
      BY ONLY <1>1, Zenon
    <3>7. pc'[queue[q][i + 1]] = pc[queue[q][i + 1]]
      BY ONLY <3>5, <3>6
    <3> QED BY <3>3, <3>5, <3>7, Zenon
  <2>2. \A i, j \in 1..Len(queue'[q]) : queue'[q][i] = queue'[q][j] => i = j
    <3>1. \A i, j \in 1..Len(queue[q]) : queue[q][i] = queue[q][j] => i = j
      BY Zenon DEF HPlace, HQueued
    <3>2. \A i, j \in 1..Len(queue'[q]) : queue'[q][i] = queue'[q][j] => i + 1 = j + 1 /\ i \in Int /\ j \in Int
      <4>1. SUFFICES ASSUME NEW i \in 1..Len(queue'[q]), NEW j \in 1..Len(queue'[q]), queue'[q][i] = queue'[q][j]
                     PROVE  i + 1 = j + 1 /\ i \in Int /\ j \in Int
        BY Zenon
      <4>2. /\ i + 1 \in 1..Len(queue[q]) /\ j + 1 \in 1..Len(queue[q]) /\ i \in Int /\ j \in Int
            /\ queue[q][i + 1] = queue[q][j + 1]
        BY ONLY <1>6, <4>1, Zenon
      <4> QED BY ONLY <3>1, <4>2, Zenon
    <3> QED BY ONLY <3>2
  <2> QED BY <2>1, <2>2, Zenon DEF HQueued
<1>8. HHeld(q)'
  <2>0. HQueued(q) /\ HHeld(q) /\ e'[s] = queue[q][1] /\ called'[q] = called[q]
    BY <1>3, Zenon DEF HPlace
  <2>1. /\ e'[s] \in Customers /\ pc'[e'[s]] \in HWaiting(q) /\ e'[s] \notin called[q]
        /\ \A i \in 1..Len(queue'[q]) : queue'[q][i] # e'[s]
    <3>1. /\ queue[q][1] \in Customers /\ pc[queue[q][1]] \in HWaiting(q) /\ queue[q][1] \notin called[q]
      BY ONLY <1>3, <1>6, <2>0, Zenon DEF HQueued
    <3>2. \A i \in 1..Len(queue'[q]) : queue'[q][i] # queue[q][1]
      <4>1. SUFFICES ASSUME NEW i \in 1..Len(queue'[q]), queue'[q][i] = queue[q][1] PROVE FALSE
        BY Zenon
      <4>2. /\ i + 1 \in 1..Len(queue[q]) /\ 1 \in 1..Len(queue[q]) /\ i + 1 # 1 /\ queue[q][i + 1] = queue[q][1]
        BY ONLY <1>6, <4>1, Zenon
      <4> QED BY ONLY <2>0, <4>2, Zenon DEF HQueued
    <3> QED BY ONLY <1>1, <2>0, <3>1, <3>2, Zenon
  <2>2. ASSUME NEW r \in HServersOf(q), r # s, pc[r] \in HHolding(q)
        PROVE  /\ e[r] \in Customers /\ pc'[e[r]] \in HWaiting(q) /\ e[r] \notin called[q] /\ e[r] # e'[s]
               /\ \A i \in 1..Len(queue'[q]) : queue'[q][i] # e[r]
    <3>1. /\ e[r] \in Customers /\ pc[e[r]] \in HWaiting(q) /\ e[r] \notin called[q]
          /\ \A i \in 1..Len(queue[q]) : queue[q][i] # e[r]
      BY ONLY <2>0, <2>2, Zenon DEF HHeld
    <3>2. \A i \in 1..Len(queue'[q]) : queue'[q][i] # e[r]
      BY ONLY <1>6, <3>1, Zenon
    <3>3. e[r] # e'[s]
      BY ONLY <1>6, <2>0, <3>1, Zenon
    <3> QED BY ONLY <1>1, <3>1, <3>2, <3>3, Zenon
  <2>3. \A r, t \in HServersOf(q) : pc[r] \in HHolding(q) /\ pc[t] \in HHolding(q) /\ e[r] = e[t] => r = t
    BY ONLY <2>0, Zenon DEF HHeld
  <2>4. ASSUME NEW r \in HServersOf(q), pc'[r] \in HHolding(q)
        PROVE  /\ e'[r] \in Customers /\ pc'[e'[r]] \in HWaiting(q) /\ e'[r] \notin called[q]
               /\ \A i \in 1..Len(queue'[q]) : queue'[q][i] # e'[r]
    BY <1>1, <2>1, <2>2, <2>4, Zenon
  <2>5. ASSUME NEW r \in HServersOf(q), NEW t \in HServersOf(q), pc'[r] \in HHolding(q), pc'[t] \in HHolding(q),
               e'[r] = e'[t]
        PROVE  r = t
    BY <1>1, <2>2, <2>3, <2>5, Zenon
  <2> QED BY <2>4, <2>5, Zenon DEF HHeld
<1>9. HCalled(q)'
  BY <1>0, <1>1, Zenon DEF HPlace, HCalled, HSums
<1>10. HLive(q)'
  BY <1>1, Zenon DEF HPlace, HLive
<1> QED BY <1>4, <1>5, <1>7, <1>8, <1>9, <1>10, Zenon DEF HPlace

\* Server s calls the customer whose entry it took (lines 200, 110).
LEMMA HKeepsCall ==
  ASSUME Setting, HTypes, NEW q \in Places, HPlace(q), NEW s, HServerMoves(q, s),
         pc[s] \in HHolding(q), pc'[s] \in HServing(q), queue'[q] = queue[q],
         live'[q] = live[q], called'[q] = called[q] \cup {e[s]}, e'[s] = e[s],
         sem'[HArrive(q)] = sem[HArrive(q)], sem'[HLeave(q)] = sem[HLeave(q)]
  PROVE  HPlace(q)'
<1>0. HSums(q) /\ s \in HServersOf(q)
  BY HNumbers, Zenon DEF HServerMoves
<1>1. /\ \A r \in HServersOf(q) : r # s => pc'[r] = pc[r] /\ e'[r] = e[r]
      /\ \A c \in Customers : pc'[c] = pc[c]
      /\ pc'[s] \notin HHolding(q) /\ pc[s] \notin HTold(q) /\ pc'[s] \notin HTold(q) /\ pc[s] \notin HServing(q)
  BY HClasses, Zenon DEF HServerMoves, Moves
<1>2. /\ HCnt(HServersOf(q), HTold(q))' = HCnt(HServersOf(q), HTold(q)) + 0 - 0
      /\ HCnt(HServersOf(q), HServing(q))' = HCnt(HServersOf(q), HServing(q)) + 1 - 0
      /\ \A L : HCnt(Customers, L)' = HCnt(Customers, L)
  <2>1. /\ One(pc[s] \in HTold(q)) = 0 /\ One(pc'[s] \in HServing(q)) = 1
        /\ One(pc'[s] \in HTold(q)) = 0 /\ One(pc[s] \in HServing(q)) = 0
    BY <1>1, Zenon DEF One
  <2>2. \A L : HCnt(HServersOf(q), L)' = HCnt(HServersOf(q), L) + One(pc'[s] \in L) - One(pc[s] \in L)
    BY HServerCounts, Zenon
  <2>3. \A L : HCnt(Customers, L)' = HCnt(Customers, L)
    BY HServerCounts, Zenon
  <2> QED BY ONLY <2>1, <2>2, <2>3, Zenon
<1>3. /\ e[s] \in Customers /\ pc[e[s]] \in HWaiting(q) /\ e[s] \notin called[q]
      /\ \A i \in 1..Len(queue[q]) : queue[q][i] # e[s]
      /\ \A r \in HServersOf(q) : pc[r] \in HHolding(q) /\ e[r] = e[s] => r = s
  <2>1. HHeld(q) /\ pc[s] \in HHolding(q)
    BY Zenon DEF HPlace
  <2> QED BY ONLY <1>0, <2>1, Zenon DEF HHeld
<1>4. HArrivals(q)'
  <2>1. HCnt(HServersOf(q), HTold(q))' = HCnt(HServersOf(q), HTold(q))
    BY <1>0, <1>2 DEF HSums
  <2> QED BY <1>2, <2>1, Zenon DEF HPlace, HArrivals
<1>5. HSeats(q)'
  <2>1. PICK x \in Nat, y \in Nat, z \in Nat, n \in Nat :
          /\ x = HCnt(Customers, HSeated(q)) /\ y = sem[HLeave(q)] /\ z = HCnt(HServersOf(q), HServing(q))
          /\ n = Cardinality(called[q])
    BY <1>0, Zenon DEF HSums
  <2>2. n + x + y = z
    BY <2>1, Zenon DEF HPlace, HSeats
  <2>3. Cardinality(called'[q]) = n + 1
    <3>1. IsFiniteSet(called[q])
      BY <1>0 DEF HSums
    <3>2. Cardinality(called[q] \cup {e[s]}) = Cardinality(called[q]) + 1
      BY <1>3, <3>1, Zenon DEF Setting, CountingLaws
    <3> QED BY <2>1, <3>2, Zenon
  <2>4. HCnt(Customers, HSeated(q))' = x /\ sem'[HLeave(q)] = y /\ HCnt(HServersOf(q), HServing(q))' = z + 1 - 0
    BY <1>2, <2>1, Zenon
  <2> QED BY <2>1, <2>2, <2>3, <2>4 DEF HSeats
<1>6. called[q] \subseteq Customers /\ \A m \in 1..Len(queue[q]) : queue[q][m] \in Customers
  BY <1>0 DEF HSums
<1>7. HQueued(q)' /\ HCalled(q)' /\ HLive(q)'
  <2>1. HQueued(q) /\ HCalled(q) /\ HLive(q)
    BY Zenon DEF HPlace
  <2>2. queue'[q] = queue[q] /\ called'[q] = called[q] \cup {e[s]} /\ live'[q] = live[q]
    BY Zenon
  <2>3. HQueued(q)'
    <3>1. \A i \in 1..Len(queue[q]) : pc'[queue[q][i]] \in HWaiting(q) /\ queue[q][i] \notin called[q] \cup {e[s]}
      BY ONLY <1>1, <1>3, <1>6, <2>1, Zenon DEF HQueued
    <3>2. \A i, j \in 1..Len(queue[q]) : queue[q][i] = queue[q][j] => i = j
      BY ONLY <2>1, Zenon DEF HQueued
    <3> QED BY ONLY <2>2, <3>1, <3>2, Zenon DEF HQueued
  <2>4. HCalled(q)'
    BY ONLY <1>1, <1>3, <1>6, <2>1, <2>2, Zenon DEF HCalled
  <2>5. HLive(q)'
    BY ONLY <1>1, <2>1, <2>2, Zenon DEF HLive
  <2> QED BY ONLY <2>3, <2>4, <2>5, Zenon
<1>8. HHeld(q)'
  <2>1. HHeld(q)
    BY Zenon DEF HPlace
  <2>2. /\ queue'[q] = queue[q] /\ called'[q] = called[q] \cup {e[s]} /\ e'[s] = e[s] /\ pc[s] \in HHolding(q)
    BY Zenon
  <2>3. ASSUME NEW r \in HServersOf(q), pc'[r] \in HHolding(q)
        PROVE  /\ r # s /\ pc[r] \in HHolding(q) /\ e'[r] = e[r]
               /\ e[r] \in Customers /\ pc'[e[r]] \in HWaiting(q) /\ e[r] \notin called[q] /\ e[r] # e[s]
               /\ \A i \in 1..Len(queue[q]) : queue[q][i] # e[r]
    <3>1. r # s /\ pc[r] \in HHolding(q) /\ e'[r] = e[r]
      BY ONLY <1>1, <2>3, Zenon
    <3>2. /\ e[r] \in Customers /\ pc[e[r]] \in HWaiting(q) /\ e[r] \notin called[q]
          /\ \A i \in 1..Len(queue[q]) : queue[q][i] # e[r]
      BY ONLY <2>1, <2>3, <3>1, Zenon DEF HHeld
    <3> QED BY ONLY <1>1, <1>3, <2>3, <3>1, <3>2, Zenon
  <2>4. ASSUME NEW r \in HServersOf(q), NEW t \in HServersOf(q), pc'[r] \in HHolding(q), pc'[t] \in HHolding(q),
               e'[r] = e'[t]
        PROVE  r = t
    BY ONLY <2>1, <2>3, <2>4, Zenon DEF HHeld
  <2>5. ASSUME NEW r \in HServersOf(q), pc'[r] \in HHolding(q)
        PROVE  /\ e'[r] \in Customers /\ pc'[e'[r]] \in HWaiting(q) /\ e'[r] \notin called'[q]
               /\ \A i \in 1..Len(queue'[q]) : queue'[q][i] # e'[r]
    BY ONLY <2>2, <2>3, <2>5, Zenon
  <2> QED BY ONLY <2>4, <2>5, Zenon DEF HHeld
<1> QED BY <1>4, <1>5, <1>7, <1>8, Zenon DEF HPlace

\* The two places, and what serves them.
LEMMA HPlaceNames ==
  /\ "sofa" \in Places /\ "chair" \in Places /\ (\A q \in Places : q = "sofa" \/ q = "chair")
  /\ HServersOf("sofa") = Ushers /\ HServersOf("chair") = Barbers
  /\ HArrive("sofa") = "cust_arrive" /\ HArrive("chair") = "cust_on_sofa"
  /\ HLeave("sofa") = "cust_leave_sofa" /\ HLeave("chair") = "payment"
BY DEF Places, HServersOf, HArrive, HLeave

\* Hilzers_barbershop.c starts in a state of the invariant.
LEMMA HInit ==
  ASSUME Setting
  PROVE  Init => HInv
<1> SUFFICES ASSUME Init PROVE HInv
  OBVIOUS
<1>1. /\ \A c \in Customers : pc[c] = "149"
      /\ \A u \in Ushers : pc[u] = "195"
      /\ \A b \in Barbers : pc[b] = "105"
  BY DEF Setting, Init, Servers
<1>2. \A x \in Semaphores : sem[x] = IF x \in Mutexes THEN 1 ELSE 0
  BY DEF Init
<1>3. HTypes
  BY <1>1 DEF Init, HTypes, HCustomerLabels, HUsherLabels, HBarberLabels, Servers
<1>4. /\ \A L : "149" \notin L => HCnt(Customers, L) = 0
      /\ \A L : "195" \notin L => HCnt(Ushers, L) = 0
      /\ \A L : "105" \notin L => HCnt(Barbers, L) = 0
  BY <1>1, HFinite, HCounting
<1>5. HLocks
  <2>1. /\ HCnt(Customers, {"150", "151", "157", "185", "187"}) = 0 /\ HCnt(Customers, HInShop) = 0
        /\ HCnt(Customers, {"163", "164"}) = 0 /\ HCnt(Customers, {"173", "174"}) = 0
        /\ HCnt(Ushers, {"197", "199"}) = 0 /\ HCnt(Barbers, {"107", "109"}) = 0 /\ HCnt(Barbers, {"116"}) = 0
    BY <1>4 DEF HInShop
  <2> QED BY <1>2, <2>1 DEF Setting, Init, HLocks, Semaphores, Mutexes
<1>6. ASSUME NEW q \in Places PROVE HPlace(q)
  <2>1. queue[q] = << >> /\ called[q] = {} /\ Cardinality(called[q]) = 0
    BY DEF Init, Setting, CountingLaws
  <2>2. /\ HCnt(Customers, HAnnouncing(q)) = 0 /\ HCnt(Customers, HSeated(q)) = 0
        /\ HCnt(HServersOf(q), HTold(q)) = 0 /\ HCnt(HServersOf(q), HServing(q)) = 0
    BY <1>4, HPlaceNames DEF HAnnouncing, HSeated, HTold, HServing
  <2>3. sem[HArrive(q)] = 0 /\ sem[HLeave(q)] = 0
    BY <1>2, HPlaceNames, Zenon DEF Semaphores, Mutexes
  <2>4. HArrivals(q) /\ HSeats(q)
    BY <2>1, <2>2, <2>3 DEF HArrivals, HSeats
  <2>5. HQueued(q) /\ HCalled(q)
    BY <2>1 DEF HQueued, HCalled
  <2>6. HHeld(q) /\ HLive(q)
    BY <1>1, HPlaceNames DEF HHeld, HLive, HHolding, HWaiting, HFreeing
  <2> QED BY <2>4, <2>5, <2>6 DEF HPlace
<1> QED BY <1>3, <1>5, <1>6 DEF HInv

\* A step of an usher keeps it.
LEMMA HUsher ==
  ASSUME Setting, HInv, NEW u \in Ushers, usher(u) PROVE HInv'
<1>0. HTypes /\ HLocks /\ HPlace("sofa") /\ HPlace("chair") /\ u \notin Customers /\ u \notin Barbers
  BY HPlaceNames, Zenon DEF Setting, HInv
<1>1. PICK l \in HUsherLabels :
        /\ pc' = [pc EXCEPT ![u] = l] /\ customer_num' = customer_num /\ live' = live
        /\ \/ /\ pc[u] = "195" /\ l = "196" /\ sem["cust_arrive"] > 0
              /\ sem' = [sem EXCEPT !["cust_arrive"] = @ - 1] /\ UNCHANGED <<queue, called, e>>
           \/ /\ pc[u] = "196" /\ l = "197" /\ sem["sofaq_mutex"] > 0
              /\ sem' = [sem EXCEPT !["sofaq_mutex"] = @ - 1] /\ UNCHANGED <<queue, called, e>>
           \/ /\ pc[u] = "197" /\ l = "199" /\ queue["sofa"] # << >> /\ e' = [e EXCEPT ![u] = Head(queue["sofa"])]
              /\ queue' = [queue EXCEPT !["sofa"] = Tail(@)] /\ UNCHANGED <<sem, called>>
           \/ /\ pc[u] = "199" /\ l = "200"
              /\ sem' = [sem EXCEPT !["sofaq_mutex"] = @ + 1] /\ UNCHANGED <<queue, called, e>>
           \/ /\ pc[u] = "200" /\ l = "202"
              /\ called' = [called EXCEPT !["sofa"] = @ \cup {e[u]}] /\ UNCHANGED <<sem, queue, e>>
           \/ /\ pc[u] = "202" /\ l = "195" /\ sem["cust_leave_sofa"] > 0
              /\ sem' = [sem EXCEPT !["cust_leave_sofa"] = @ - 1] /\ UNCHANGED <<queue, called, e>>
  BY Zenon DEF usher, SemStep, TakeFirst, Call, entries,
         WaitStep, PostStep, LocalStep, Goto, Sem_wait, Sem_post, HUsherLabels
<1>2. /\ pc'[u] = l /\ (\A t \in Customers \cup Servers : t # u => pc'[t] = pc[t])
      /\ (\A c \in Customers : pc'[c] = pc[c]) /\ (\A b \in Barbers : pc'[b] = pc[b])
  BY <1>0, <1>1, Zenon DEF HTypes, Servers
<1>3. HServerMoves("sofa", u)
  <2>1. \A r \in Ushers : r # u => e'[r] = e[r]
    BY <1>0, <1>1, Zenon DEF HTypes, Servers
  <2> QED BY <1>2, <2>1, HPlaceNames, Zenon DEF HServerMoves, Moves, Servers
<1>4. HTypes'
  <2>1. sem' \in [Semaphores -> Nat]
    <3>1. sem \in [Semaphores -> Nat]
      BY <1>0 DEF HTypes
    <3>2. \/ sem' = sem
          \/ \E x \in Semaphores : sem[x] > 0 /\ sem' = [sem EXCEPT ![x] = @ - 1]
          \/ \E x \in Semaphores : sem' = [sem EXCEPT ![x] = @ + 1]
      BY <1>1 DEF Semaphores
    <3> QED BY <3>1, <3>2
  <2>2. queue' \in [Places -> Seq(Customers)] /\ e' \in [Servers -> Customers \cup {"none"}]
    <3>1. queue["sofa"] # << >> => Head(queue["sofa"]) \in Customers /\ Tail(queue["sofa"]) \in Seq(Customers)
      BY <1>0, HPlaceNames DEF HTypes
    <3>2. \/ queue' = queue /\ e' = e
          \/ /\ queue["sofa"] # << >> /\ queue' = [queue EXCEPT !["sofa"] = Tail(@)]
             /\ e' = [e EXCEPT ![u] = Head(queue["sofa"])]
      BY <1>1
    <3>3. queue \in [Places -> Seq(Customers)] /\ e \in [Servers -> Customers \cup {"none"}]
      BY <1>0 DEF HTypes
    <3>4. queue' \in [Places -> Seq(Customers)]
      BY <3>1, <3>2, <3>3, Zenon
    <3>5. e' \in [Servers -> Customers \cup {"none"}]
      BY <3>1, <3>2, <3>3
    <3> QED BY <3>4, <3>5
  <2>3. called' \in [Places -> SUBSET Customers]
    <3>1. pc[u] = "200" => e[u] \in Customers
      BY <1>0, HPlaceNames DEF HPlace, HHeld, HHolding
    <3>2. called' = called \/ (pc[u] = "200" /\ called' = [called EXCEPT !["sofa"] = @ \cup {e[u]}])
      BY <1>1, Zenon
    <3> QED BY <1>0, <3>1, <3>2 DEF HTypes
  <2> QED BY <1>0, <1>1, <1>2, <2>1, <2>2, <2>3 DEF HTypes
<1>5. HPlace("sofa")'
  <2>1. CASE pc[u] \in {"195", "202"}
    <3>1. /\ sem'["cust_arrive"] = sem["cust_arrive"] - One(l \in HTold("sofa"))
          /\ sem'["cust_leave_sofa"] = sem["cust_leave_sofa"] - One(pc[u] \in HServing("sofa"))
      <4>1. sem \in [Semaphores -> Nat]
        BY <1>0, Zenon DEF HTypes
      <4>2. \/ pc[u] = "195" /\ l = "196" /\ sem' = [sem EXCEPT !["cust_arrive"] = @ - 1]
            \/ pc[u] = "202" /\ l = "195" /\ sem' = [sem EXCEPT !["cust_leave_sofa"] = @ - 1]
        BY <1>1, <2>1, Zenon
      <4> QED BY ONLY <4>1, <4>2 DEF Semaphores, One, HTold, HServing
    <3>2. /\ pc[u] \notin HTold("sofa") /\ l \notin HServing("sofa")
          /\ pc[u] \notin HHolding("sofa") /\ l \notin HHolding("sofa")
          /\ queue' = queue /\ live' = live /\ called' = called
      BY <1>1, <2>1 DEF HTold, HServing, HHolding
    <3> QED BY <1>0, <1>2, <1>3, <3>1, <3>2, HKeepsWait, HPlaceNames, Zenon
  <2>2. CASE pc[u] \in {"196", "199"}
    <3>1. sem'["cust_arrive"] = sem["cust_arrive"] /\ sem'["cust_leave_sofa"] = sem["cust_leave_sofa"]
      BY <1>0, <1>1, <2>2, Zenon DEF HTypes, Semaphores
    <3>2. /\ l \in HTold("sofa") <=> pc[u] \in HTold("sofa")
          /\ l \in HHolding("sofa") <=> pc[u] \in HHolding("sofa")
          /\ l \in HServing("sofa") <=> pc[u] \in HServing("sofa")
          /\ queue' = queue /\ called' = called /\ e' = e
      BY <1>1, <2>2, Zenon DEF HTold, HServing, HHolding
    <3>3. HQuiet("sofa")
      BY <1>1, <1>2, <3>1, <3>2, HPlaceNames DEF HQuiet, Servers
    <3> QED BY <1>0, <3>3, HKeepsQuiet, HPlaceNames, Zenon
  <2>3. CASE pc[u] = "197"
    <3>1. /\ pc[u] \in HTold("sofa") /\ l \in HHolding("sofa") /\ queue["sofa"] # << >>
          /\ queue'["sofa"] = Tail(queue["sofa"]) /\ e'[u] = Head(queue["sofa"]) /\ called' = called /\ sem' = sem
      BY <1>0, <1>1, <2>3, HPlaceNames, Zenon DEF HTypes, Servers, HTold, HHolding
    <3> QED BY <1>0, <1>1, <1>2, <1>3, <3>1, HKeepsTake, HPlaceNames, Zenon
  <2>4. CASE pc[u] = "200"
    <3>1. /\ pc[u] \in HHolding("sofa") /\ l \in HServing("sofa") /\ queue' = queue /\ e' = e
          /\ called'["sofa"] = called["sofa"] \cup {e[u]} /\ sem' = sem
      BY <1>0, <1>1, <2>4, HPlaceNames DEF HTypes, HServing, HHolding
    <3> QED BY <1>0, <1>1, <1>2, <1>3, <3>1, HKeepsCall, HPlaceNames, Zenon
  <2> QED BY <1>1, <2>1, <2>2, <2>3, <2>4, Zenon
<1>6. HPlace("chair")'
  <2>1. /\ sem'["cust_on_sofa"] = sem["cust_on_sofa"] /\ sem'["payment"] = sem["payment"]
        /\ queue'["chair"] = queue["chair"] /\ called'["chair"] = called["chair"]
        /\ \A b \in Barbers : e'[b] = e[b]
    <3>1. sem'["cust_on_sofa"] = sem["cust_on_sofa"] /\ sem'["payment"] = sem["payment"]
      BY <1>0, <1>1, Zenon DEF HTypes, Semaphores
    <3>2. queue'["chair"] = queue["chair"] /\ called'["chair"] = called["chair"]
      BY <1>0, <1>1, Zenon DEF HTypes, Places
    <3>3. \A b \in Barbers : e'[b] = e[b]
      BY <1>0, <1>1, Zenon DEF HTypes, Servers
    <3> QED BY <3>1, <3>2, <3>3, Zenon
  <2>2. HQuiet("chair")
    BY <1>1, <1>2, <2>1, HPlaceNames, Zenon DEF HQuiet
  <2> QED BY <1>0, <2>2, HKeepsQuiet, HPlaceNames
<1>7. HLocks'
  <2>1. /\ \A L : HCnt(Customers, L)' = HCnt(Customers, L)
        /\ \A L : HCnt(Barbers, L)' = HCnt(Barbers, L)
        /\ \A L : HCnt(Ushers, L)' = HCnt(Ushers, L) + One(pc'[u] \in L) - One(pc[u] \in L)
    <3>1. \A L : HCnt(Barbers, L)' = HCnt(Barbers, L)
      BY <1>2, Zenon DEF HCnt, Count
    <3> QED BY <1>3, <3>1, HServerCounts, HPlaceNames
  <2>2. PICK m \in Nat, x \in Nat, y \in Nat :
          m = sem["sofaq_mutex"] /\ x = HCnt(Customers, {"163", "164"}) /\ y = HCnt(Ushers, {"197", "199"})
    <3>1. sem["sofaq_mutex"] \in Nat
      BY <1>0, Zenon DEF HTypes, Semaphores
    <3>2. HCnt(Customers, {"163", "164"}) \in Nat /\ HCnt(Ushers, {"197", "199"}) \in Nat
      BY HFinite, HCounting, Zenon
    <3> QED BY ONLY <3>1, <3>2, Zenon
  <2>3. m + x + y = 1
    BY <1>0, <2>2, Zenon DEF HLocks
  <2>4. HCnt(Ushers, {"197", "199"})' = y + One(l \in {"197", "199"}) - One(pc[u] \in {"197", "199"})
    BY <1>2, <2>1, <2>2, Zenon
  <2>5. /\ sem'["sofaq_mutex"] = m + One(pc[u] = "199") - One(pc[u] = "196")
        /\ sem'["cust_num_mutex"] = sem["cust_num_mutex"]
        /\ sem'["chairq_mutex"] = sem["chairq_mutex"] /\ sem'["cashier_mutex"] = sem["cashier_mutex"]
    <3>1. \/ pc[u] = "196" /\ sem' = [sem EXCEPT !["sofaq_mutex"] = @ - 1]
          \/ pc[u] = "199" /\ sem' = [sem EXCEPT !["sofaq_mutex"] = @ + 1]
          \/ /\ pc[u] \notin {"196", "199"} /\ sem'["sofaq_mutex"] = sem["sofaq_mutex"]
             /\ sem'["cust_num_mutex"] = sem["cust_num_mutex"]
             /\ sem'["chairq_mutex"] = sem["chairq_mutex"] /\ sem'["cashier_mutex"] = sem["cashier_mutex"]
      BY <1>0, <1>1, Zenon DEF HTypes, Semaphores
    <3>2. sem \in [Semaphores -> Nat]
      BY <1>0 DEF HTypes
    <3>3. CASE pc[u] = "196"
      BY <2>2, <3>1, <3>2, <3>3 DEF Semaphores, One
    <3>4. CASE pc[u] = "199"
      BY <2>2, <3>1, <3>2, <3>4 DEF Semaphores, One
    <3>5. CASE pc[u] \notin {"196", "199"}
      BY <2>2, <3>1, <3>5 DEF One
    <3> QED BY <3>3, <3>4, <3>5, Zenon
  <2>6. sem'["sofaq_mutex"] + x + HCnt(Ushers, {"197", "199"})' = 1
    BY <1>1, <2>3, <2>4, <2>5 DEF One
  <2> QED BY <1>0, <1>1, <2>1, <2>2, <2>5, <2>6, Zenon DEF HLocks
<1> QED BY <1>4, <1>5, <1>6, <1>7, HPlaceNames DEF HInv

\* A step of a barber keeps it.
LEMMA HBarber ==
  ASSUME Setting, HInv, NEW b \in Barbers, barber(b) PROVE HInv'
<1>0. HTypes /\ HLocks /\ HPlace("chair") /\ HPlace("sofa") /\ b \notin Customers /\ b \notin Ushers
  BY HPlaceNames, Zenon DEF Setting, HInv
<1>1. PICK l \in HBarberLabels :
        /\ pc' = [pc EXCEPT ![b] = l] /\ customer_num' = customer_num /\ live' = live
        /\ \/ /\ pc[b] = "105" /\ l = "106" /\ sem["cust_on_sofa"] > 0
              /\ sem' = [sem EXCEPT !["cust_on_sofa"] = @ - 1] /\ UNCHANGED <<queue, called, e>>
           \/ /\ pc[b] = "106" /\ l = "107" /\ sem["chairq_mutex"] > 0
              /\ sem' = [sem EXCEPT !["chairq_mutex"] = @ - 1] /\ UNCHANGED <<queue, called, e>>
           \/ /\ pc[b] = "107" /\ l = "109" /\ queue["chair"] # << >> /\ e' = [e EXCEPT ![b] = Head(queue["chair"])]
              /\ queue' = [queue EXCEPT !["chair"] = Tail(@)] /\ UNCHANGED <<sem, called>>
           \/ /\ pc[b] = "109" /\ l = "110"
              /\ sem' = [sem EXCEPT !["chairq_mutex"] = @ + 1] /\ UNCHANGED <<queue, called, e>>
           \/ /\ pc[b] = "110" /\ l = "113"
              /\ called' = [called EXCEPT !["chair"] = @ \cup {e[b]}] /\ UNCHANGED <<sem, queue, e>>
           \/ /\ pc[b] = "113" /\ l = "114" /\ sem["payment"] > 0
              /\ sem' = [sem EXCEPT !["payment"] = @ - 1] /\ UNCHANGED <<queue, called, e>>
           \/ /\ pc[b] = "114" /\ l = "116" /\ sem["cashier_mutex"] > 0
              /\ sem' = [sem EXCEPT !["cashier_mutex"] = @ - 1] /\ UNCHANGED <<queue, called, e>>
           \/ /\ pc[b] = "116" /\ l = "117"
              /\ sem' = [sem EXCEPT !["cashier_mutex"] = @ + 1] /\ UNCHANGED <<queue, called, e>>
           \/ /\ pc[b] = "117" /\ l = "105"
              /\ sem' = [sem EXCEPT !["receipt"] = @ + 1] /\ UNCHANGED <<queue, called, e>>
  BY Zenon DEF barber, SemStep, TakeFirst, Call, entries,
         WaitStep, PostStep, LocalStep, Goto, Sem_wait, Sem_post, HBarberLabels
<1>2. /\ pc'[b] = l /\ (\A t \in Customers \cup Servers : t # b => pc'[t] = pc[t])
      /\ (\A c \in Customers : pc'[c] = pc[c]) /\ (\A s \in Ushers : pc'[s] = pc[s])
  BY <1>0, <1>1, Zenon DEF HTypes, Servers
<1>3. HServerMoves("chair", b)
  <2>1. \A r \in Barbers : r # b => e'[r] = e[r]
    BY <1>0, <1>1, Zenon DEF HTypes, Servers
  <2> QED BY <1>2, <2>1, HPlaceNames, Zenon DEF HServerMoves, Moves, Servers
<1>4. HTypes'
  <2>1. sem' \in [Semaphores -> Nat]
    <3>1. sem \in [Semaphores -> Nat]
      BY <1>0, Zenon DEF HTypes
    <3>2. \/ sem' = sem
          \/ \E x \in Semaphores : sem[x] > 0 /\ sem' = [sem EXCEPT ![x] = @ - 1]
          \/ \E x \in Semaphores : sem' = [sem EXCEPT ![x] = @ + 1]
      BY <1>1, Zenon DEF Semaphores
    <3> QED BY <3>1, <3>2
  <2>2. queue' \in [Places -> Seq(Customers)] /\ e' \in [Servers -> Customers \cup {"none"}]
    <3>1. queue["chair"] # << >> => Head(queue["chair"]) \in Customers /\ Tail(queue["chair"]) \in Seq(Customers)
      BY <1>0, HPlaceNames DEF HTypes
    <3>2. \/ queue' = queue /\ e' = e
          \/ /\ queue["chair"] # << >> /\ queue' = [queue EXCEPT !["chair"] = Tail(@)]
             /\ e' = [e EXCEPT ![b] = Head(queue["chair"])]
      BY <1>1
    <3>3. queue \in [Places -> Seq(Customers)] /\ e \in [Servers -> Customers \cup {"none"}]
      BY <1>0 DEF HTypes
    <3>4. queue' \in [Places -> Seq(Customers)]
      BY <3>1, <3>2, <3>3, Zenon
    <3>5. e' \in [Servers -> Customers \cup {"none"}]
      BY <3>1, <3>2, <3>3
    <3> QED BY <3>4, <3>5
  <2>3. called' \in [Places -> SUBSET Customers]
    <3>1. pc[b] = "110" => e[b] \in Customers
      BY <1>0, HPlaceNames, Zenon DEF HPlace, HHeld, HHolding
    <3>2. called' = called \/ (pc[b] = "110" /\ called' = [called EXCEPT !["chair"] = @ \cup {e[b]}])
      BY <1>1, Zenon
    <3> QED BY <1>0, <3>1, <3>2 DEF HTypes
  <2> QED BY <1>0, <1>1, <1>2, <2>1, <2>2, <2>3 DEF HTypes
<1>5. HPlace("chair")'
  <2>1. CASE pc[b] \in {"105", "113"}
    <3>1. /\ sem'["cust_on_sofa"] = sem["cust_on_sofa"] - One(l \in HTold("chair"))
          /\ sem'["payment"] = sem["payment"] - One(pc[b] \in HServing("chair"))
      <4>1. sem \in [Semaphores -> Nat]
        BY <1>0, Zenon DEF HTypes
      <4>2. \/ pc[b] = "105" /\ l = "106" /\ sem' = [sem EXCEPT !["cust_on_sofa"] = @ - 1]
            \/ pc[b] = "113" /\ l = "114" /\ sem' = [sem EXCEPT !["payment"] = @ - 1]
        BY <1>1, <2>1, Zenon
      <4> QED BY ONLY <4>1, <4>2 DEF Semaphores, One, HTold, HServing
    <3>2. /\ pc[b] \notin HTold("chair") /\ l \notin HServing("chair")
          /\ pc[b] \notin HHolding("chair") /\ l \notin HHolding("chair")
          /\ queue' = queue /\ live' = live /\ called' = called
      BY <1>1, <2>1, Zenon DEF HTold, HServing, HHolding
    <3> QED BY <1>0, <1>2, <1>3, <3>1, <3>2, HKeepsWait, HPlaceNames, Zenon
  <2>2. CASE pc[b] \in {"106", "109", "114", "116", "117"}
    <3>1. sem'["cust_on_sofa"] = sem["cust_on_sofa"] /\ sem'["payment"] = sem["payment"]
      BY <1>0, <1>1, <2>2, Zenon DEF HTypes, Semaphores
    <3>2. /\ l \in HTold("chair") <=> pc[b] \in HTold("chair")
          /\ l \in HHolding("chair") <=> pc[b] \in HHolding("chair")
          /\ l \in HServing("chair") <=> pc[b] \in HServing("chair")
          /\ queue' = queue /\ called' = called /\ e' = e
      BY <1>1, <2>2, Zenon DEF HTold, HServing, HHolding
    <3>3. HQuiet("chair")
      BY <1>1, <1>2, <3>1, <3>2, HPlaceNames DEF HQuiet, Servers
    <3> QED BY <1>0, <3>3, HKeepsQuiet, HPlaceNames, Zenon
  <2>3. CASE pc[b] = "107"
    <3>1. /\ pc[b] \in HTold("chair") /\ l \in HHolding("chair") /\ queue["chair"] # << >>
          /\ queue'["chair"] = Tail(queue["chair"]) /\ e'[b] = Head(queue["chair"]) /\ called' = called /\ sem' = sem
      BY <1>0, <1>1, <2>3, HPlaceNames, Zenon DEF HTypes, Servers, HTold, HHolding
    <3> QED BY <1>0, <1>1, <1>2, <1>3, <3>1, HKeepsTake, HPlaceNames, Zenon
  <2>4. CASE pc[b] = "110"
    <3>1. /\ pc[b] \in HHolding("chair") /\ l \in HServing("chair") /\ queue' = queue /\ e' = e
          /\ called'["chair"] = called["chair"] \cup {e[b]} /\ sem' = sem
      BY <1>0, <1>1, <2>4, HPlaceNames, Zenon DEF HTypes, HServing, HHolding
    <3> QED BY <1>0, <1>1, <1>2, <1>3, <3>1, HKeepsCall, HPlaceNames, Zenon
  <2> QED BY <1>1, <2>1, <2>2, <2>3, <2>4, Zenon
<1>6. HPlace("sofa")'
  <2>1. /\ sem'["cust_arrive"] = sem["cust_arrive"] /\ sem'["cust_leave_sofa"] = sem["cust_leave_sofa"]
        /\ queue'["sofa"] = queue["sofa"] /\ called'["sofa"] = called["sofa"]
        /\ \A s \in Ushers : e'[s] = e[s]
    <3>1. sem'["cust_arrive"] = sem["cust_arrive"] /\ sem'["cust_leave_sofa"] = sem["cust_leave_sofa"]
      BY <1>0, <1>1, Zenon DEF HTypes, Semaphores
    <3>2. queue'["sofa"] = queue["sofa"] /\ called'["sofa"] = called["sofa"]
      BY <1>0, <1>1, Zenon DEF HTypes, Places
    <3>3. \A s \in Ushers : e'[s] = e[s]
      BY <1>0, <1>1, Zenon DEF HTypes, Servers
    <3> QED BY <3>1, <3>2, <3>3, Zenon
  <2>2. HQuiet("sofa")
    BY <1>1, <1>2, <2>1, HPlaceNames, Zenon DEF HQuiet
  <2> QED BY <1>0, <2>2, HKeepsQuiet, HPlaceNames, Zenon
<1>7. HLocks'
  <2>1. /\ \A L : HCnt(Customers, L)' = HCnt(Customers, L)
        /\ \A L : HCnt(Ushers, L)' = HCnt(Ushers, L)
        /\ \A L : HCnt(Barbers, L)' = HCnt(Barbers, L) + One(pc'[b] \in L) - One(pc[b] \in L)
    <3>1. \A L : HCnt(Ushers, L)' = HCnt(Ushers, L)
      BY <1>2, Zenon DEF HCnt, Count
    <3> QED BY <1>3, <3>1, HServerCounts, HPlaceNames, Zenon
  <2>2. PICK m \in Nat, x \in Nat, y \in Nat, n \in Nat, z \in Nat :
          /\ m = sem["chairq_mutex"] /\ x = HCnt(Customers, {"173", "174"}) /\ y = HCnt(Barbers, {"107", "109"})
          /\ n = sem["cashier_mutex"] /\ z = HCnt(Barbers, {"116"})
    <3>1. sem["chairq_mutex"] \in Nat /\ sem["cashier_mutex"] \in Nat
      BY <1>0 DEF HTypes, Semaphores
    <3>2. /\ HCnt(Customers, {"173", "174"}) \in Nat /\ HCnt(Barbers, {"107", "109"}) \in Nat
          /\ HCnt(Barbers, {"116"}) \in Nat
      BY HFinite, HCounting
    <3> QED BY <3>1, <3>2
  <2>3. m + x + y = 1 /\ n + z = 1
    BY <1>0, <2>2, Zenon DEF HLocks
  <2>4. /\ HCnt(Barbers, {"107", "109"})' = y + One(l \in {"107", "109"}) - One(pc[b] \in {"107", "109"})
        /\ HCnt(Barbers, {"116"})' = z + One(l \in {"116"}) - One(pc[b] \in {"116"})
    BY <1>2, <2>1, <2>2, Zenon
  <2>5. /\ sem'["chairq_mutex"] = m + One(pc[b] = "109") - One(pc[b] = "106")
        /\ sem'["cashier_mutex"] = n + One(pc[b] = "116") - One(pc[b] = "114")
        /\ sem'["cust_num_mutex"] = sem["cust_num_mutex"] /\ sem'["sofaq_mutex"] = sem["sofaq_mutex"]
    <3>1. \/ pc[b] = "106" /\ sem' = [sem EXCEPT !["chairq_mutex"] = @ - 1]
          \/ pc[b] = "109" /\ sem' = [sem EXCEPT !["chairq_mutex"] = @ + 1]
          \/ pc[b] = "114" /\ sem' = [sem EXCEPT !["cashier_mutex"] = @ - 1]
          \/ pc[b] = "116" /\ sem' = [sem EXCEPT !["cashier_mutex"] = @ + 1]
          \/ /\ pc[b] \notin {"106", "109", "114", "116"} /\ sem'["sofaq_mutex"] = sem["sofaq_mutex"]
             /\ sem'["cust_num_mutex"] = sem["cust_num_mutex"]
             /\ sem'["chairq_mutex"] = sem["chairq_mutex"] /\ sem'["cashier_mutex"] = sem["cashier_mutex"]
      BY <1>0, <1>1, Zenon DEF HTypes, Semaphores
    <3>2. sem \in [Semaphores -> Nat]
      BY <1>0 DEF HTypes
    <3>3. CASE pc[b] = "106"
      BY <2>2, <3>1, <3>2, <3>3 DEF Semaphores, One
    <3>4. CASE pc[b] = "109"
      BY <2>2, <3>1, <3>2, <3>4 DEF Semaphores, One
    <3>5. CASE pc[b] = "114"
      BY <2>2, <3>1, <3>2, <3>5 DEF Semaphores, One
    <3>6. CASE pc[b] = "116"
      BY <2>2, <3>1, <3>2, <3>6 DEF Semaphores, One
    <3>7. CASE pc[b] \notin {"106", "109", "114", "116"}
      BY <2>2, <3>1, <3>7 DEF One
    <3> QED BY <3>3, <3>4, <3>5, <3>6, <3>7, Zenon
  <2>6. sem'["chairq_mutex"] + x + HCnt(Barbers, {"107", "109"})' = 1
    BY <1>1, <2>3, <2>4, <2>5 DEF One
  <2>7. sem'["cashier_mutex"] + HCnt(Barbers, {"116"})' = 1
    BY <1>1, <2>3, <2>4, <2>5 DEF One
  <2> QED BY <1>0, <1>1, <2>1, <2>2, <2>5, <2>6, <2>7, Zenon DEF HLocks
<1> QED BY <1>4, <1>5, <1>6, <1>7, HPlaceNames, Zenon DEF HInv

\* What a step of a customer moves.
LEMMA HCustomerMove ==
  ASSUME Setting, HTypes, NEW c \in Customers, NEW l \in HCustomerLabels, pc' = [pc EXCEPT ![c] = l], e' = e
  PROVE  /\ pc'[c] = l /\ (\A d \in Customers : d # c => pc'[d] = pc[d])
         /\ (\A s \in Servers : pc'[s] = pc[s]) /\ (\A q \in Places : HCustomerMoves(q, c))
         /\ \A L : HCnt(Customers, L)' = HCnt(Customers, L) + One(l \in L) - One(pc[c] \in L)
         /\ \A L : HCnt(Ushers, L)' = HCnt(Ushers, L) /\ HCnt(Barbers, L)' = HCnt(Barbers, L)
         /\ pc' \in [Customers \cup Servers -> HCustomerLabels \cup HUsherLabels \cup HBarberLabels]
<1>1. /\ pc'[c] = l /\ (\A d \in Customers : d # c => pc'[d] = pc[d]) /\ (\A s \in Servers : pc'[s] = pc[s])
      /\ pc' \in [Customers \cup Servers -> HCustomerLabels \cup HUsherLabels \cup HBarberLabels]
  BY Zenon DEF Setting, HTypes, Servers
<1>2. \A q \in Places : HCustomerMoves(q, c)
  BY <1>1, HClasses, Zenon DEF HCustomerMoves, Moves
<1>3. \A L : HCnt(Customers, L)' = HCnt(Customers, L) + One(pc'[c] \in L) - One(pc[c] \in L)
  BY <1>2, HPlaceNames, HCustomerCounts, Zenon
<1>4. \A L : HCnt(Ushers, L)' = HCnt(Ushers, L) /\ HCnt(Barbers, L)' = HCnt(Barbers, L)
  BY <1>2, HPlaceNames, HCustomerCounts
<1> QED BY <1>1, <1>2, <1>3, <1>4, Zenon

\* A semaphore step keeps the types of the semaphores.
LEMMA HSemTypes ==
  ASSUME HTypes,
         \/ sem' = sem
         \/ \E x \in Semaphores : sem[x] > 0 /\ sem' = [sem EXCEPT ![x] = @ - 1]
         \/ \E x \in Semaphores : sem' = [sem EXCEPT ![x] = @ + 1]
  PROVE  sem' \in [Semaphores -> Nat]
<1>1. sem \in [Semaphores -> Nat]
  BY DEF HTypes
<1> QED BY <1>1

\* A customer that comes to the sofa keeps the invariant.
LEMMA HSofa ==
  ASSUME Setting, HInv, NEW c \in Customers, Sofa(c), customer_num' = customer_num PROVE HInv'
<1>0. HTypes /\ HLocks /\ HPlace("sofa") /\ HPlace("chair")
  BY HPlaceNames, Zenon DEF HInv
<1>1. PICK l \in HCustomerLabels :
        /\ pc' = [pc EXCEPT ![c] = l] /\ e' = e
        /\ \/ /\ pc[c] = "159" /\ l = "163" /\ sem["sofaq_mutex"] > 0
              /\ sem' = [sem EXCEPT !["sofaq_mutex"] = @ - 1] /\ UNCHANGED <<queue, live, called>>
           \/ /\ pc[c] = "163" /\ l = "164" /\ queue' = [queue EXCEPT !["sofa"] = Append(@, c)]
              /\ live' = [live EXCEPT !["sofa"] = @ \cup {c}] /\ UNCHANGED <<sem, called>>
           \/ /\ pc[c] = "164" /\ l = "166"
              /\ sem' = [sem EXCEPT !["sofaq_mutex"] = @ + 1] /\ UNCHANGED <<queue, live, called>>
           \/ /\ pc[c] = "166" /\ l = "167"
              /\ sem' = [sem EXCEPT !["cust_arrive"] = @ + 1] /\ UNCHANGED <<queue, live, called>>
           \/ /\ pc[c] = "167" /\ l = "168" /\ c \in called["sofa"]
              /\ called' = [called EXCEPT !["sofa"] = @ \ {c}] /\ UNCHANGED <<sem, queue, live>>
           \/ /\ pc[c] = "168" /\ l = "170" /\ live' = [live EXCEPT !["sofa"] = @ \ {c}]
              /\ UNCHANGED <<sem, queue, called>>
  BY DEF Sofa, SemStep, Queue, AwaitCall, free_entry, entries,
         WaitStep, PostStep, LocalStep, Goto, Sem_wait, Sem_post, HCustomerLabels
<1>2. /\ pc'[c] = l /\ (\A d \in Customers : d # c => pc'[d] = pc[d])
      /\ (\A s \in Servers : pc'[s] = pc[s]) /\ (\A q \in Places : HCustomerMoves(q, c))
      /\ \A L : HCnt(Customers, L)' = HCnt(Customers, L) + One(l \in L) - One(pc[c] \in L)
      /\ \A L : HCnt(Ushers, L)' = HCnt(Ushers, L) /\ HCnt(Barbers, L)' = HCnt(Barbers, L)
      /\ pc' \in [Customers \cup Servers -> HCustomerLabels \cup HUsherLabels \cup HBarberLabels]
  BY <1>0, <1>1, HCustomerMove, Zenon
<1>3. HTypes'
  <2>1. sem' \in [Semaphores -> Nat]
    <3>1. \/ sem' = sem
          \/ \E x \in Semaphores : sem[x] > 0 /\ sem' = [sem EXCEPT ![x] = @ - 1]
          \/ \E x \in Semaphores : sem' = [sem EXCEPT ![x] = @ + 1]
      BY <1>1 DEF Semaphores
    <3> QED BY <1>0, <3>1, HSemTypes, Zenon
  <2>2. queue' \in [Places -> Seq(Customers)]
    <3>1. queue \in [Places -> Seq(Customers)] /\ Append(queue["sofa"], c) \in Seq(Customers)
      BY <1>0, HPlaceNames DEF HTypes
    <3>2. queue' = queue \/ queue' = [queue EXCEPT !["sofa"] = Append(@, c)]
      BY <1>1
    <3> QED BY <3>1, <3>2, Zenon
  <2>3. live' \in [Places -> SUBSET Customers] /\ called' \in [Places -> SUBSET Customers]
    <3>1. /\ live' = live \/ live' = [live EXCEPT !["sofa"] = @ \cup {c}] \/ live' = [live EXCEPT !["sofa"] = @ \ {c}]
          /\ called' = called \/ called' = [called EXCEPT !["sofa"] = @ \ {c}]
      BY <1>1
    <3>2. live \in [Places -> SUBSET Customers] /\ called \in [Places -> SUBSET Customers]
      BY <1>0 DEF HTypes
    <3>3. live' \in [Places -> SUBSET Customers]
      BY <3>1, <3>2
    <3>4. called' \in [Places -> SUBSET Customers]
      BY <3>1, <3>2, Zenon
    <3> QED BY <3>3, <3>4, Zenon
  <2> QED BY <1>0, <1>1, <1>2, <2>1, <2>2, <2>3, Zenon DEF HTypes, Servers
<1>4. HPlace("sofa")'
  <2>0. HCustomerMoves("sofa", c)
    BY <1>2, HPlaceNames, Zenon
  <2>1. CASE pc[c] \in {"159", "164", "168"}
    <3>1. sem'["cust_arrive"] = sem["cust_arrive"] /\ sem'["cust_leave_sofa"] = sem["cust_leave_sofa"]
      BY <1>0, <1>1, <2>1, Zenon DEF HTypes, Semaphores
    <3>2. /\ l \in HAnnouncing("sofa") <=> pc[c] \in HAnnouncing("sofa")
          /\ l \in HWaiting("sofa") <=> pc[c] \in HWaiting("sofa")
          /\ l \notin HFreeing("sofa") /\ (l \in HSeated("sofa") <=> pc[c] \in HSeated("sofa"))
          /\ l \notin HWaiting("sofa") \cup HFreeing("sofa") \/ live' = live
          /\ queue' = queue /\ called' = called
      BY <1>1, <2>1, Zenon DEF HAnnouncing, HWaiting, HFreeing, HSeated
    <3>3. \A d \in live["sofa"] : d # c => d \in live'["sofa"]
      BY <1>0, <1>1, HPlaceNames DEF HTypes
    <3> QED BY <1>0, <1>1, <1>2, <3>1, <3>2, <3>3, HKeepsBystander, HPlaceNames, Zenon
  <2>2. CASE pc[c] = "163"
    <3>1. /\ pc[c] \notin HWaiting("sofa") /\ l \in HAnnouncing("sofa")
          /\ pc[c] \in HSeated("sofa") <=> l \in HSeated("sofa")
          /\ queue'["sofa"] = Append(queue["sofa"], c) /\ live'["sofa"] = live["sofa"] \cup {c}
          /\ called' = called /\ sem' = sem
      BY <1>0, <1>1, <2>2, HPlaceNames, Zenon DEF HTypes, HAnnouncing, HWaiting, HSeated
    <3> QED BY <1>0, <1>2, <2>0, <3>1, HKeepsQueue, HPlaceNames, Zenon
  <2>3. CASE pc[c] = "166"
    <3>1. /\ pc[c] \in HWaiting("sofa") <=> l \in HWaiting("sofa")
          /\ pc[c] \notin HFreeing("sofa") /\ l \notin HFreeing("sofa") /\ l \notin HAnnouncing("sofa")
          /\ queue' = queue /\ live' = live /\ called' = called
          /\ pc[c] \in HAnnouncing("sofa") /\ pc[c] \notin HSeated("sofa") /\ l \notin HSeated("sofa")
      BY <1>1, <2>3, Zenon DEF HAnnouncing, HWaiting, HFreeing, HSeated
    <3>0. sem \in [Semaphores -> Nat] /\ sem' = [sem EXCEPT !["cust_arrive"] = @ + 1]
      BY <1>0, <1>1, <2>3, Zenon DEF HTypes
    <3>2. /\ sem'["cust_arrive"] = sem["cust_arrive"] + One(pc[c] \in HAnnouncing("sofa"))
          /\ sem'["cust_leave_sofa"] =
               sem["cust_leave_sofa"] + One(pc[c] \in HSeated("sofa")) - One(pc'[c] \in HSeated("sofa"))
      BY <1>2, <3>0, <3>1 DEF Semaphores, One
    <3> QED BY <1>0, <1>2, <2>0, <3>1, <3>2, HKeepsPost, HPlaceNames, Zenon
  <2>4. CASE pc[c] = "167"
    <3>1. /\ pc[c] \in HWaiting("sofa") /\ pc[c] \notin HAnnouncing("sofa") /\ l \in HFreeing("sofa")
          /\ c \in called["sofa"] /\ queue' = queue /\ live' = live /\ called'["sofa"] = called["sofa"] \ {c} /\ sem' = sem
      BY <1>0, <1>1, <2>4, HPlaceNames, Zenon DEF HTypes, HAnnouncing, HWaiting, HFreeing
    <3> QED BY <1>0, <1>2, <2>0, <3>1, HKeepsSit, HPlaceNames, Zenon
  <2> QED BY <1>1, <2>1, <2>2, <2>3, <2>4, Zenon
<1>5. HPlace("chair")'
  <2>1. /\ sem'["cust_on_sofa"] = sem["cust_on_sofa"] /\ sem'["payment"] = sem["payment"]
        /\ queue'["chair"] = queue["chair"] /\ called'["chair"] = called["chair"] /\ live'["chair"] = live["chair"]
    <3>1. sem'["cust_on_sofa"] = sem["cust_on_sofa"] /\ sem'["payment"] = sem["payment"]
      BY <1>0, <1>1, Zenon DEF HTypes, Semaphores
    <3>2. queue'["chair"] = queue["chair"] /\ called'["chair"] = called["chair"] /\ live'["chair"] = live["chair"]
      BY <1>0, <1>1, Zenon DEF HTypes, Places
    <3> QED BY <3>1, <3>2, Zenon
  <2>2. /\ l \notin HAnnouncing("chair") /\ pc[c] \notin HAnnouncing("chair")
        /\ l \notin HWaiting("chair") /\ pc[c] \notin HWaiting("chair")
        /\ l \notin HFreeing("chair") /\ l \notin HSeated("chair") /\ pc[c] \notin HSeated("chair")
    BY <1>1, Zenon DEF HAnnouncing, HWaiting, HFreeing, HSeated
  <2> QED BY <1>0, <1>1, <1>2, <2>1, <2>2, HKeepsBystander, HPlaceNames, Zenon
<1>6. HLocks'
  <2>2. PICK m \in Nat, x \in Nat, y \in Nat :
          m = sem["sofaq_mutex"] /\ x = HCnt(Customers, {"163", "164"}) /\ y = HCnt(Ushers, {"197", "199"})
    <3>1. sem["sofaq_mutex"] \in Nat
      BY <1>0, Zenon DEF HTypes, Semaphores
    <3>2. HCnt(Customers, {"163", "164"}) \in Nat /\ HCnt(Ushers, {"197", "199"}) \in Nat
      BY HFinite, HCounting, Zenon
    <3> QED BY ONLY <3>1, <3>2, Zenon
  <2>3. m + x + y = 1
    BY <1>0, <2>2, Zenon DEF HLocks
  <2>4. HCnt(Customers, {"163", "164"})' = x + One(l \in {"163", "164"}) - One(pc[c] \in {"163", "164"})
    BY <1>2, <2>2, Zenon
  <2>5. /\ sem'["sofaq_mutex"] = m + One(pc[c] = "164") - One(pc[c] = "159")
        /\ sem'["cust_num_mutex"] = sem["cust_num_mutex"]
        /\ sem'["chairq_mutex"] = sem["chairq_mutex"] /\ sem'["cashier_mutex"] = sem["cashier_mutex"]
    <3>1. \/ pc[c] = "159" /\ sem' = [sem EXCEPT !["sofaq_mutex"] = @ - 1]
          \/ pc[c] = "164" /\ sem' = [sem EXCEPT !["sofaq_mutex"] = @ + 1]
          \/ /\ pc[c] \notin {"159", "164"} /\ sem'["sofaq_mutex"] = sem["sofaq_mutex"]
             /\ sem'["cust_num_mutex"] = sem["cust_num_mutex"]
             /\ sem'["chairq_mutex"] = sem["chairq_mutex"] /\ sem'["cashier_mutex"] = sem["cashier_mutex"]
      BY <1>0, <1>1, Zenon DEF HTypes, Semaphores
    <3>2. sem \in [Semaphores -> Nat]
      BY <1>0, Zenon DEF HTypes
    <3>3. CASE pc[c] = "159"
      BY <2>2, <3>1, <3>2, <3>3 DEF Semaphores, One
    <3>4. CASE pc[c] = "164"
      BY <2>2, <3>1, <3>2, <3>4 DEF Semaphores, One
    <3>5. CASE pc[c] \notin {"159", "164"}
      BY <2>2, <3>1, <3>5 DEF One
    <3> QED BY <3>3, <3>4, <3>5
  <2>6. sem'["sofaq_mutex"] + HCnt(Customers, {"163", "164"})' + y = 1
    BY <1>1, <2>3, <2>4, <2>5 DEF One
  <2>7. \A L : (l \in L <=> pc[c] \in L) => HCnt(Customers, L)' = HCnt(Customers, L)
    BY <1>2, HFinite, HCounting DEF One
  <2>8. /\ HCnt(Customers, {"150", "151", "157", "185", "187"})' = HCnt(Customers, {"150", "151", "157", "185", "187"})
        /\ HCnt(Customers, HInShop)' = HCnt(Customers, HInShop)
        /\ HCnt(Customers, {"173", "174"})' = HCnt(Customers, {"173", "174"})
    BY <1>1, <2>7 DEF HInShop, HCustomerLabels
  <2> QED BY <1>0, <1>1, <1>2, <2>2, <2>5, <2>6, <2>8, Zenon DEF HLocks
<1> QED BY <1>3, <1>4, <1>5, <1>6, HPlaceNames DEF HInv

\* A customer that comes to a chair keeps the invariant.
LEMMA HChair ==
  ASSUME Setting, HInv, NEW c \in Customers, Chair(c), customer_num' = customer_num PROVE HInv'
<1>0. HTypes /\ HLocks /\ HPlace("chair") /\ HPlace("sofa")
  BY HPlaceNames, Zenon DEF HInv
<1>1. PICK l \in HCustomerLabels :
        /\ pc' = [pc EXCEPT ![c] = l] /\ e' = e
        /\ \/ /\ pc[c] = "170" /\ l = "173" /\ sem["chairq_mutex"] > 0
              /\ sem' = [sem EXCEPT !["chairq_mutex"] = @ - 1] /\ UNCHANGED <<queue, live, called>>
           \/ /\ pc[c] = "173" /\ l = "174" /\ queue' = [queue EXCEPT !["chair"] = Append(@, c)]
              /\ live' = [live EXCEPT !["chair"] = @ \cup {c}] /\ UNCHANGED <<sem, called>>
           \/ /\ pc[c] = "174" /\ l = "175"
              /\ sem' = [sem EXCEPT !["chairq_mutex"] = @ + 1] /\ UNCHANGED <<queue, live, called>>
           \/ /\ pc[c] = "175" /\ l = "176"
              /\ sem' = [sem EXCEPT !["cust_on_sofa"] = @ + 1] /\ UNCHANGED <<queue, live, called>>
           \/ /\ pc[c] = "176" /\ l = "177" /\ c \in called["chair"]
              /\ called' = [called EXCEPT !["chair"] = @ \ {c}] /\ UNCHANGED <<sem, queue, live>>
           \/ /\ pc[c] = "177" /\ l = "178" /\ live' = [live EXCEPT !["chair"] = @ \ {c}]
              /\ UNCHANGED <<sem, queue, called>>
           \/ /\ pc[c] = "178" /\ l = "181"
              /\ sem' = [sem EXCEPT !["cust_leave_sofa"] = @ + 1] /\ UNCHANGED <<queue, live, called>>
  BY DEF Chair, SemStep, Queue, AwaitCall, free_entry, entries,
         WaitStep, PostStep, LocalStep, Goto, Sem_wait, Sem_post, HCustomerLabels
<1>2. /\ pc'[c] = l /\ (\A d \in Customers : d # c => pc'[d] = pc[d])
      /\ (\A s \in Servers : pc'[s] = pc[s]) /\ (\A q \in Places : HCustomerMoves(q, c))
      /\ \A L : HCnt(Customers, L)' = HCnt(Customers, L) + One(l \in L) - One(pc[c] \in L)
      /\ \A L : HCnt(Ushers, L)' = HCnt(Ushers, L) /\ HCnt(Barbers, L)' = HCnt(Barbers, L)
      /\ pc' \in [Customers \cup Servers -> HCustomerLabels \cup HUsherLabels \cup HBarberLabels]
  BY <1>0, <1>1, HCustomerMove, Zenon
<1>3. HTypes'
  <2>1. sem' \in [Semaphores -> Nat]
    <3>1. \/ sem' = sem
          \/ \E x \in Semaphores : sem[x] > 0 /\ sem' = [sem EXCEPT ![x] = @ - 1]
          \/ \E x \in Semaphores : sem' = [sem EXCEPT ![x] = @ + 1]
      BY <1>1 DEF Semaphores
    <3> QED BY <1>0, <3>1, HSemTypes, Zenon
  <2>2. queue' \in [Places -> Seq(Customers)]
    <3>1. queue \in [Places -> Seq(Customers)] /\ Append(queue["chair"], c) \in Seq(Customers)
      BY <1>0, HPlaceNames DEF HTypes
    <3>2. queue' = queue \/ queue' = [queue EXCEPT !["chair"] = Append(@, c)]
      BY <1>1, Zenon
    <3> QED BY <3>1, <3>2, Zenon
  <2>3. live' \in [Places -> SUBSET Customers] /\ called' \in [Places -> SUBSET Customers]
    <3>1. /\ live' = live \/ live' = [live EXCEPT !["chair"] = @ \cup {c}] \/ live' = [live EXCEPT !["chair"] = @ \ {c}]
          /\ called' = called \/ called' = [called EXCEPT !["chair"] = @ \ {c}]
      BY <1>1
    <3>2. live \in [Places -> SUBSET Customers] /\ called \in [Places -> SUBSET Customers]
      BY <1>0 DEF HTypes
    <3>3. live' \in [Places -> SUBSET Customers]
      BY <3>1, <3>2
    <3>4. called' \in [Places -> SUBSET Customers]
      BY <3>1, <3>2, Zenon
    <3> QED BY <3>3, <3>4
  <2> QED BY <1>0, <1>1, <1>2, <2>1, <2>2, <2>3, Zenon DEF HTypes, Servers
<1>4. HPlace("chair")'
  <2>0. HCustomerMoves("chair", c)
    BY <1>2, HPlaceNames, Zenon
  <2>1. CASE pc[c] \in {"170", "174", "177", "178"}
    <3>1. sem'["cust_on_sofa"] = sem["cust_on_sofa"] /\ sem'["payment"] = sem["payment"]
      BY <1>0, <1>1, <2>1, Zenon DEF HTypes, Semaphores
    <3>2. /\ l \in HAnnouncing("chair") <=> pc[c] \in HAnnouncing("chair")
          /\ l \in HWaiting("chair") <=> pc[c] \in HWaiting("chair")
          /\ l \notin HFreeing("chair") /\ (l \in HSeated("chair") <=> pc[c] \in HSeated("chair"))
          /\ l \notin HWaiting("chair") \cup HFreeing("chair") \/ live' = live
          /\ queue' = queue /\ called' = called
      BY <1>1, <2>1, Zenon DEF HAnnouncing, HWaiting, HFreeing, HSeated
    <3>3. \A d \in live["chair"] : d # c => d \in live'["chair"]
      BY <1>0, <1>1, HPlaceNames DEF HTypes
    <3> QED BY <1>0, <1>1, <1>2, <3>1, <3>2, <3>3, HKeepsBystander, HPlaceNames, Zenon
  <2>2. CASE pc[c] = "173"
    <3>1. /\ pc[c] \notin HWaiting("chair") /\ l \in HAnnouncing("chair")
          /\ pc[c] \in HSeated("chair") <=> l \in HSeated("chair")
          /\ queue'["chair"] = Append(queue["chair"], c) /\ live'["chair"] = live["chair"] \cup {c}
          /\ called' = called /\ sem' = sem
      BY <1>0, <1>1, <2>2, HPlaceNames, Zenon DEF HTypes, HAnnouncing, HWaiting, HSeated
    <3> QED BY <1>0, <1>2, <2>0, <3>1, HKeepsQueue, HPlaceNames, Zenon
  <2>3. CASE pc[c] = "175"
    <3>1. /\ pc[c] \in HWaiting("chair") <=> l \in HWaiting("chair")
          /\ pc[c] \notin HFreeing("chair") /\ l \notin HFreeing("chair") /\ l \notin HAnnouncing("chair")
          /\ queue' = queue /\ live' = live /\ called' = called
          /\ pc[c] \in HAnnouncing("chair") /\ pc[c] \notin HSeated("chair") /\ l \notin HSeated("chair")
      BY <1>1, <2>3, Zenon DEF HAnnouncing, HWaiting, HFreeing, HSeated
    <3>0. sem \in [Semaphores -> Nat] /\ sem' = [sem EXCEPT !["cust_on_sofa"] = @ + 1]
      BY <1>0, <1>1, <2>3, Zenon DEF HTypes
    <3>2. /\ sem'["cust_on_sofa"] = sem["cust_on_sofa"] + One(pc[c] \in HAnnouncing("chair"))
          /\ sem'["payment"] =
               sem["payment"] + One(pc[c] \in HSeated("chair")) - One(pc'[c] \in HSeated("chair"))
      BY <1>2, <3>0, <3>1 DEF Semaphores, One
    <3> QED BY <1>0, <1>2, <2>0, <3>1, <3>2, HKeepsPost, HPlaceNames, Zenon
  <2>4. CASE pc[c] = "176"
    <3>1. /\ pc[c] \in HWaiting("chair") /\ pc[c] \notin HAnnouncing("chair") /\ l \in HFreeing("chair")
          /\ c \in called["chair"] /\ queue' = queue /\ live' = live /\ called'["chair"] = called["chair"] \ {c} /\ sem' = sem
      BY <1>0, <1>1, <2>4, HPlaceNames DEF HTypes, HAnnouncing, HWaiting, HFreeing
    <3> QED BY <1>0, <1>2, <2>0, <3>1, HKeepsSit, HPlaceNames, Zenon
  <2> QED BY <1>1, <2>1, <2>2, <2>3, <2>4, Zenon
<1>5. HPlace("sofa")'
  <2>1. CASE pc[c] = "178"
    <3>1. /\ pc[c] \in HWaiting("sofa") <=> l \in HWaiting("sofa")
          /\ pc[c] \notin HFreeing("sofa") /\ l \notin HFreeing("sofa") /\ l \notin HAnnouncing("sofa")
          /\ queue' = queue /\ live' = live /\ called' = called
          /\ pc[c] \notin HAnnouncing("sofa") /\ pc[c] \in HSeated("sofa") /\ l \notin HSeated("sofa")
      BY <1>1, <2>1, Zenon DEF HAnnouncing, HWaiting, HFreeing, HSeated
    <3>2. /\ sem'["cust_arrive"] = sem["cust_arrive"] + One(pc[c] \in HAnnouncing("sofa"))
          /\ sem'["cust_leave_sofa"] =
               sem["cust_leave_sofa"] + One(pc[c] \in HSeated("sofa")) - One(pc'[c] \in HSeated("sofa"))
      <4>1. /\ sem["cust_arrive"] \in Nat /\ sem["cust_leave_sofa"] \in Nat
            /\ sem'["cust_arrive"] = sem["cust_arrive"] /\ sem'["cust_leave_sofa"] = sem["cust_leave_sofa"] + 1
        BY <1>0, <1>1, <2>1 DEF HTypes, Semaphores
      <4>2. /\ One(pc[c] \in HAnnouncing("sofa")) = 0 /\ One(pc[c] \in HSeated("sofa")) = 1
            /\ One(pc'[c] \in HSeated("sofa")) = 0
        BY <1>2, <3>1, Zenon DEF One
      <4> QED BY ONLY <4>1, <4>2
    <3> QED BY <1>0, <1>2, <3>1, <3>2, HKeepsPost, HPlaceNames, Zenon
  <2>2. CASE pc[c] # "178"
    <3>1. /\ sem'["cust_arrive"] = sem["cust_arrive"] /\ sem'["cust_leave_sofa"] = sem["cust_leave_sofa"]
          /\ queue'["sofa"] = queue["sofa"] /\ called'["sofa"] = called["sofa"] /\ live'["sofa"] = live["sofa"]
      BY <1>0, <1>1, <2>2, Zenon DEF HTypes, Semaphores, Places
    <3>2. /\ l \notin HAnnouncing("sofa") /\ pc[c] \notin HAnnouncing("sofa")
          /\ l \notin HWaiting("sofa") /\ pc[c] \notin HWaiting("sofa")
          /\ l \notin HFreeing("sofa") /\ l \in HSeated("sofa") /\ pc[c] \in HSeated("sofa")
      BY <1>1, <2>2, Zenon DEF HAnnouncing, HWaiting, HFreeing, HSeated
    <3> QED BY <1>0, <1>1, <1>2, <3>1, <3>2, HKeepsBystander, HPlaceNames, Zenon
  <2> QED BY <2>1, <2>2, Zenon
<1>6. HLocks'
  <2>2. PICK m \in Nat, x \in Nat, y \in Nat :
          m = sem["chairq_mutex"] /\ x = HCnt(Customers, {"173", "174"}) /\ y = HCnt(Barbers, {"107", "109"})
    <3>1. sem["chairq_mutex"] \in Nat
      BY <1>0, Zenon DEF HTypes, Semaphores
    <3>2. HCnt(Customers, {"173", "174"}) \in Nat /\ HCnt(Barbers, {"107", "109"}) \in Nat
      BY HFinite, HCounting, Zenon
    <3> QED BY ONLY <3>1, <3>2, Zenon
  <2>3. m + x + y = 1
    BY <1>0, <2>2, Zenon DEF HLocks
  <2>4. HCnt(Customers, {"173", "174"})' = x + One(l \in {"173", "174"}) - One(pc[c] \in {"173", "174"})
    BY <1>2, <2>2, Zenon
  <2>5. /\ sem'["chairq_mutex"] = m + One(pc[c] = "174") - One(pc[c] = "170")
        /\ sem'["cust_num_mutex"] = sem["cust_num_mutex"]
        /\ sem'["sofaq_mutex"] = sem["sofaq_mutex"] /\ sem'["cashier_mutex"] = sem["cashier_mutex"]
    <3>1. \/ pc[c] = "170" /\ sem' = [sem EXCEPT !["chairq_mutex"] = @ - 1]
          \/ pc[c] = "174" /\ sem' = [sem EXCEPT !["chairq_mutex"] = @ + 1]
          \/ /\ pc[c] \notin {"170", "174"} /\ sem'["chairq_mutex"] = sem["chairq_mutex"]
             /\ sem'["cust_num_mutex"] = sem["cust_num_mutex"]
             /\ sem'["sofaq_mutex"] = sem["sofaq_mutex"] /\ sem'["cashier_mutex"] = sem["cashier_mutex"]
      BY <1>0, <1>1, Zenon DEF HTypes, Semaphores
    <3>2. sem \in [Semaphores -> Nat]
      BY <1>0, Zenon DEF HTypes
    <3>3. CASE pc[c] = "170"
      BY <2>2, <3>1, <3>2, <3>3 DEF Semaphores, One
    <3>4. CASE pc[c] = "174"
      BY <2>2, <3>1, <3>2, <3>4 DEF Semaphores, One
    <3>5. CASE pc[c] \notin {"170", "174"}
      BY <2>2, <3>1, <3>5 DEF One
    <3> QED BY <3>3, <3>4, <3>5
  <2>6. sem'["chairq_mutex"] + HCnt(Customers, {"173", "174"})' + y = 1
    <3>1. \/ pc[c] = "170" /\ l = "173"
          \/ pc[c] = "173" /\ l = "174"
          \/ pc[c] = "174" /\ l = "175"
          \/ pc[c] \notin {"170", "173", "174"} /\ l \notin {"173", "174"}
      BY <1>1, Zenon
    <3>2. One(l \in {"173", "174"}) - One(pc[c] \in {"173", "174"}) = One(pc[c] = "170") - One(pc[c] = "174")
      BY ONLY <3>1 DEF One
    <3>3. /\ One(l \in {"173", "174"}) \in Int /\ One(pc[c] \in {"173", "174"}) \in Int
          /\ One(pc[c] = "170") \in Int /\ One(pc[c] = "174") \in Int
      BY ONLY DEF One
    <3>4. m \in Int /\ x \in Int /\ y \in Int
      OBVIOUS
    <3> QED BY ONLY <2>3, <2>4, <2>5, <3>2, <3>3, <3>4
  <2>7. \A L : (l \in L <=> pc[c] \in L) => HCnt(Customers, L)' = HCnt(Customers, L)
    BY <1>2, HFinite, HCounting DEF One
  <2>8. /\ HCnt(Customers, {"150", "151", "157", "185", "187"})' = HCnt(Customers, {"150", "151", "157", "185", "187"})
        /\ HCnt(Customers, HInShop)' = HCnt(Customers, HInShop)
        /\ HCnt(Customers, {"163", "164"})' = HCnt(Customers, {"163", "164"})
    BY <1>1, <2>7 DEF HInShop, HCustomerLabels
  <2> QED BY <1>0, <1>1, <1>2, <2>2, <2>5, <2>6, <2>8, Zenon DEF HLocks
<1> QED BY <1>3, <1>4, <1>5, <1>6, HPlaceNames, Zenon DEF HInv

\* A customer that comes in, pays or leaves keeps the invariant.
LEMMA HShop ==
  ASSUME Setting, HInv, NEW c \in Customers, Enter(c) \/ Pay(c), UNCHANGED <<entries, e>> PROVE HInv'
<1>0. HTypes /\ HLocks /\ HPlace("sofa") /\ HPlace("chair")
  BY HPlaceNames, Zenon DEF HInv
<1>1. PICK l \in HCustomerLabels :
        /\ pc' = [pc EXCEPT ![c] = l] /\ queue' = queue /\ live' = live /\ called' = called /\ e' = e
        /\ \/ /\ pc[c] = "149" /\ l = "150" /\ sem["cust_num_mutex"] > 0 /\ customer_num' = customer_num
              /\ sem' = [sem EXCEPT !["cust_num_mutex"] = @ - 1]
           \/ pc[c] = "150" /\ l = "151" /\ customer_num' = customer_num /\ sem' = sem
           \/ /\ pc[c] = "150" /\ l = "157" /\ customer_num # max_capacity
              /\ customer_num' = customer_num + 1 /\ sem' = sem
           \/ /\ pc[c] \in {"151", "187"} /\ l = "done" /\ customer_num' = customer_num
              /\ sem' = [sem EXCEPT !["cust_num_mutex"] = @ + 1]
           \/ /\ pc[c] = "157" /\ l = "159" /\ customer_num' = customer_num
              /\ sem' = [sem EXCEPT !["cust_num_mutex"] = @ + 1]
           \/ /\ pc[c] = "181" /\ l = "182" /\ customer_num' = customer_num
              /\ sem' = [sem EXCEPT !["payment"] = @ + 1]
           \/ /\ pc[c] = "182" /\ l = "184" /\ sem["receipt"] > 0 /\ customer_num' = customer_num
              /\ sem' = [sem EXCEPT !["receipt"] = @ - 1]
           \/ /\ pc[c] = "184" /\ l = "185" /\ sem["cust_num_mutex"] > 0 /\ customer_num' = customer_num
              /\ sem' = [sem EXCEPT !["cust_num_mutex"] = @ - 1]
           \/ pc[c] = "185" /\ l = "187" /\ customer_num' = customer_num - 1 /\ sem' = sem
  BY DEF Enter, Pay, entries,
         WaitStep, PostStep, LocalStep, Goto, Sem_wait, Sem_post, HCustomerLabels
<1>2. /\ pc'[c] = l /\ (\A d \in Customers : d # c => pc'[d] = pc[d])
      /\ (\A s \in Servers : pc'[s] = pc[s]) /\ (\A q \in Places : HCustomerMoves(q, c))
      /\ \A L : HCnt(Customers, L)' = HCnt(Customers, L) + One(l \in L) - One(pc[c] \in L)
      /\ \A L : HCnt(Ushers, L)' = HCnt(Ushers, L) /\ HCnt(Barbers, L)' = HCnt(Barbers, L)
      /\ pc' \in [Customers \cup Servers -> HCustomerLabels \cup HUsherLabels \cup HBarberLabels]
  BY <1>0, <1>1, HCustomerMove, Zenon
<1>3. HTypes'
  <2>1. sem' \in [Semaphores -> Nat]
    <3>1. \/ sem' = sem
          \/ \E x \in Semaphores : sem[x] > 0 /\ sem' = [sem EXCEPT ![x] = @ - 1]
          \/ \E x \in Semaphores : sem' = [sem EXCEPT ![x] = @ + 1]
      BY <1>1, Zenon DEF Semaphores
    <3> QED BY <1>0, <3>1, HSemTypes
  <2> QED BY <1>0, <1>1, <1>2, <2>1 DEF HTypes, Servers
<1>4. HPlace("sofa")'
  <2>1. sem'["cust_arrive"] = sem["cust_arrive"] /\ sem'["cust_leave_sofa"] = sem["cust_leave_sofa"]
    BY <1>0, <1>1, Zenon DEF HTypes, Semaphores
  <2>2. /\ l \notin HAnnouncing("sofa") /\ pc[c] \notin HAnnouncing("sofa")
        /\ l \notin HWaiting("sofa") /\ pc[c] \notin HWaiting("sofa")
        /\ l \notin HFreeing("sofa") /\ l \notin HSeated("sofa") /\ pc[c] \notin HSeated("sofa")
    BY <1>1 DEF HAnnouncing, HWaiting, HFreeing, HSeated
  <2> QED BY <1>0, <1>1, <1>2, <2>1, <2>2, HKeepsBystander, HPlaceNames, Zenon
<1>5. HPlace("chair")'
  <2>1. CASE pc[c] = "181"
    <3>1. /\ pc[c] \in HWaiting("chair") <=> l \in HWaiting("chair")
          /\ pc[c] \notin HFreeing("chair") /\ l \notin HFreeing("chair") /\ l \notin HAnnouncing("chair")
          /\ pc[c] \notin HAnnouncing("chair") /\ pc[c] \in HSeated("chair") /\ l \notin HSeated("chair")
      BY <1>1, <2>1, Zenon DEF HAnnouncing, HWaiting, HFreeing, HSeated
    <3>0. sem \in [Semaphores -> Nat] /\ sem' = [sem EXCEPT !["payment"] = @ + 1]
      BY <1>0, <1>1, <2>1, Zenon DEF HTypes
    <3>3. pc'[c] = l
      BY <1>2, Zenon
    <3>2. /\ sem'["cust_on_sofa"] = sem["cust_on_sofa"] + One(pc[c] \in HAnnouncing("chair"))
          /\ sem'["payment"] = sem["payment"] + One(pc[c] \in HSeated("chair")) - One(pc'[c] \in HSeated("chair"))
      BY <3>0, <3>1, <3>3 DEF Semaphores, One
    <3> QED BY <1>0, <1>1, <1>2, <3>1, <3>2, HKeepsPost, HPlaceNames, Zenon
  <2>2. CASE pc[c] # "181"
    <3>1. sem'["cust_on_sofa"] = sem["cust_on_sofa"] /\ sem'["payment"] = sem["payment"]
      BY <1>0, <1>1, <2>2, Zenon DEF HTypes, Semaphores
    <3>2. /\ l \notin HAnnouncing("chair") /\ pc[c] \notin HAnnouncing("chair")
          /\ l \notin HWaiting("chair") /\ pc[c] \notin HWaiting("chair")
          /\ l \notin HFreeing("chair") /\ l \notin HSeated("chair") /\ pc[c] \notin HSeated("chair")
      BY <1>1, <2>2, Zenon DEF HAnnouncing, HWaiting, HFreeing, HSeated
    <3> QED BY <1>0, <1>1, <1>2, <3>1, <3>2, HKeepsBystander, HPlaceNames, Zenon
  <2> QED BY <2>1, <2>2, Zenon
<1>6. HLocks'
  <2> DEFINE Holders == {"150", "151", "157", "185", "187"}
  <2>1. PICK m \in Nat, x \in Nat, y \in Nat :
          m = sem["cust_num_mutex"] /\ x = HCnt(Customers, Holders) /\ y = HCnt(Customers, HInShop)
    <3>1. sem["cust_num_mutex"] \in Nat
      BY <1>0, Zenon DEF HTypes, Semaphores
    <3>2. HCnt(Customers, Holders) \in Nat /\ HCnt(Customers, HInShop) \in Nat
      BY HFinite, HCounting, Zenon
    <3> QED BY ONLY <3>1, <3>2, Zenon
  <2>2. m + x = 1 /\ customer_num = y /\ y <= max_capacity
    BY <1>0, <2>1, Zenon DEF HLocks
  <2>3. /\ HCnt(Customers, Holders)' = x + One(l \in Holders) - One(pc[c] \in Holders)
        /\ HCnt(Customers, HInShop)' = y + One(l \in HInShop) - One(pc[c] \in HInShop)
    BY <1>2, <2>1, Zenon
  <2>4. /\ sem'["sofaq_mutex"] = sem["sofaq_mutex"]
        /\ sem'["chairq_mutex"] = sem["chairq_mutex"] /\ sem'["cashier_mutex"] = sem["cashier_mutex"]
    BY <1>0, <1>1, Zenon DEF HTypes, Semaphores
  <2>5. sem'["cust_num_mutex"] + HCnt(Customers, Holders)' = 1
    <3>1. sem'["cust_num_mutex"] = m + One(pc[c] \in {"151", "157", "187"}) - One(pc[c] \in {"149", "184"})
      <4>1. \/ pc[c] \in {"149", "184"} /\ sem' = [sem EXCEPT !["cust_num_mutex"] = @ - 1]
            \/ pc[c] \in {"151", "157", "187"} /\ sem' = [sem EXCEPT !["cust_num_mutex"] = @ + 1]
            \/ /\ pc[c] \notin {"149", "184"} /\ pc[c] \notin {"151", "157", "187"}
               /\ sem'["cust_num_mutex"] = sem["cust_num_mutex"]
        BY <1>0, <1>1, Zenon DEF HTypes, Semaphores
      <4>2. sem \in [Semaphores -> Nat]
        BY <1>0 DEF HTypes
      <4> QED BY <2>1, <4>1, <4>2 DEF Semaphores, One
    <3> QED BY <1>1, <2>2, <2>3, <3>1 DEF One
  <2>6. customer_num' = HCnt(Customers, HInShop)' /\ customer_num' <= max_capacity
    <3>1. customer_num' = y + One(l = "157") - One(pc[c] = "185") /\ (l = "157" => y # max_capacity)
      BY <1>1, <2>2 DEF One
    <3>2. One(l \in HInShop) - One(pc[c] \in HInShop) = One(l = "157") - One(pc[c] = "185")
      BY <1>1 DEF One, HInShop, HCustomerLabels
    <3> QED BY <2>2, <2>3, <3>1, <3>2 DEF Setting, One
  <2>7. \A L : l \notin L /\ pc[c] \notin L => HCnt(Customers, L)' = HCnt(Customers, L)
    BY <1>2, HFinite, HCounting DEF One
  <2>8. /\ HCnt(Customers, {"163", "164"})' = HCnt(Customers, {"163", "164"})
        /\ HCnt(Customers, {"173", "174"})' = HCnt(Customers, {"173", "174"})
    BY <1>1, <2>7
  <2> QED BY <1>0, <1>1, <1>2, <2>4, <2>5, <2>6, <2>8, Zenon DEF HLocks
<1> QED BY <1>3, <1>4, <1>5, <1>6, HPlaceNames DEF HInv

\* A step of Hilzers_barbershop.c keeps the invariant.
LEMMA HStep ==
  ASSUME Setting
  PROVE  HInv /\ [Next]_vars => HInv'
<1> SUFFICES ASSUME HInv, [Next]_vars PROVE HInv'
  OBVIOUS
<1>1. ASSUME NEW c \in Customers, customer(c) PROVE HInv'
  BY <1>1, HShop, HSofa, HChair DEF customer
<1>2. CASE UNCHANGED vars
  <2>1. /\ pc' = pc /\ sem' = sem /\ customer_num' = customer_num /\ queue' = queue /\ e' = e
        /\ live' = live /\ called' = called
    BY <1>2 DEF vars
  <2>2. HTypes' /\ HLocks'
    BY <2>1, Zenon DEF HInv, HTypes, HLocks, HCnt
  <2>3. ASSUME NEW q \in Places PROVE HPlace(q)'
    <3>1. HArrivals(q)' /\ HSeats(q)'
      BY <2>1, Zenon DEF HInv, HPlace, HArrivals, HSeats, HCnt
    <3>2. HQueued(q)' /\ HHeld(q)'
      BY <2>1, Zenon DEF HInv, HPlace, HQueued, HHeld
    <3>3. HCalled(q)' /\ HLive(q)'
      BY <2>1, Zenon DEF HInv, HPlace, HCalled, HLive
    <3> QED BY <3>1, <3>2, <3>3 DEF HPlace
  <2> QED BY <2>2, <2>3 DEF HInv
<1> QED BY <1>1, <1>2, HUsher, HBarber DEF Next

\* What the invariant says.
LEMMA HShows ==
  ASSUME Setting
  PROVE  HInv => PlacesBound /\ QueuesNotEmpty /\ NoUseAfterFree /\ TypeOK
<1> SUFFICES ASSUME HInv PROVE PlacesBound /\ QueuesNotEmpty /\ NoUseAfterFree /\ TypeOK
  OBVIOUS
<1>0. HTypes /\ HLocks /\ HPlace("sofa") /\ HPlace("chair")
  BY HPlaceNames DEF HInv
<1>1. ASSUME NEW q \in Places
      PROVE  HCnt(Customers, HSeated(q)) <= Cardinality(HServersOf(q))
  <2>1. PICK x \in Nat, y \in Nat, z \in Nat, n \in Nat, k \in Nat :
          /\ x = HCnt(Customers, HSeated(q)) /\ y = sem[HLeave(q)] /\ z = HCnt(HServersOf(q), HServing(q))
          /\ n = Cardinality(called[q]) /\ k = Cardinality(HServersOf(q)) /\ z <= k
    <3>1. HSums(q)
      BY <1>0, HNumbers
    <3>2. /\ HCnt(HServersOf(q), HServing(q)) <= Cardinality(HServersOf(q))
          /\ Cardinality(HServersOf(q)) \in Nat
      BY HFinite, HCounting, Zenon
    <3> QED BY <3>1, <3>2, Zenon DEF HSums
  <2>2. n + x + y = z
    BY <2>1, Zenon DEF HInv, HPlace, HSeats
  <2>3. x <= k
    BY <2>1, <2>2
  <2> QED BY <2>1, <2>3, Zenon
<1>2. PlacesBound
  <2>1. OnSofa = {t \in Customers : pc[t] \in HSeated("sofa")} /\ InChair = {t \in Customers : pc[t] \in HSeated("chair")}
    BY DEF OnSofa, InChair, HSeated
  <2>2. /\ Cardinality(OnSofa) = HCnt(Customers, HSeated("sofa"))
        /\ Cardinality(InChair) = HCnt(Customers, HSeated("chair"))
    BY <2>1, Zenon DEF HCnt, Count
  <2> QED BY <1>1, <2>2, HPlaceNames DEF PlacesBound
<1>3. ASSUME NEW q \in Places, NEW s \in HServersOf(q), pc[s] \in HTold(q)
      PROVE  queue[q] # << >>
  <2>1. PICK x \in Nat, y \in Nat, z \in Nat :
          x = HCnt(Customers, HAnnouncing(q)) /\ y = sem[HArrive(q)] /\ z = HCnt(HServersOf(q), HTold(q))
    <3>1. HSums(q)
      BY <1>0, HNumbers, Zenon
    <3> QED BY <3>1 DEF HSums
  <2>2. z # 0
    BY <1>3, <2>1, HFinite, HCounting, Zenon
  <2>3. Len(queue[q]) = x + y + z
    BY <2>1, Zenon DEF HInv, HPlace, HArrivals
  <2> QED BY <2>2, <2>3
<1>4. QueuesNotEmpty
  BY <1>3, HPlaceNames, Zenon DEF QueuesNotEmpty, HTold
<1>5. NoUseAfterFree
  <2>1. ASSUME NEW q \in Places, NEW s \in HServersOf(q), pc[s] \in HHolding(q)
        PROVE  e[s] \in live[q]
    BY <2>1, Zenon DEF HInv, HPlace, HHeld, HLive
  <2> QED BY <2>1, HPlaceNames, Zenon DEF NoUseAfterFree, HHolding
<1>6. TypeOK
  <2>1. \A x \in Mutexes : sem[x] \in 0..1
    <3>1. /\ sem["cust_num_mutex"] \in Nat /\ sem["sofaq_mutex"] \in Nat
          /\ sem["chairq_mutex"] \in Nat /\ sem["cashier_mutex"] \in Nat
      BY <1>0, Zenon DEF HTypes, Semaphores
    <3>2. \A L : HCnt(Customers, L) \in Nat /\ HCnt(Ushers, L) \in Nat /\ HCnt(Barbers, L) \in Nat
      BY HFinite, HCounting
    <3>3. \A m, x, y \in Nat : (m + x = 1 => m \in 0..1) /\ (m + x + y = 1 => m \in 0..1)
      OBVIOUS
    <3>4. sem["cust_num_mutex"] \in 0..1 /\ sem["cashier_mutex"] \in 0..1
      BY <1>0, <3>1, <3>2, <3>3, Zenon DEF HLocks
    <3>5. sem["sofaq_mutex"] \in 0..1 /\ sem["chairq_mutex"] \in 0..1
      BY <1>0, <3>1, <3>2, <3>3, Zenon DEF HLocks
    <3> QED BY <3>4, <3>5, Zenon DEF Mutexes
  <2>2. customer_num \in 0..max_capacity
    BY <1>0, HFinite, HCounting DEF Setting, HLocks
  <2> QED BY <1>0, <2>1, <2>2 DEF HTypes, TypeOK
<1> QED BY <1>2, <1>4, <1>5, <1>6
=============================================================================
