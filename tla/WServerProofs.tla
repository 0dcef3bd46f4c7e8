---------------------------- MODULE WServerProofs ----------------------------
(***************************************************************************)
(* Proofs about the buffer of the web server, for any number of slots,     *)
(* workers, connections and descriptors.                                   *)
(***************************************************************************)
EXTENDS WServer, FiniteSetTheorems, TLAPS

MainLines == {"51", "106", "107", "109", "116", "118", "119", "120", "125", "126"}
WorkerLines == {"15", "16", "18", "39", "44", "49", "50"}

TypeControl ==
  /\ IsFiniteSet(Workers) /\ "main" \notin Workers
  /\ pc \in [Workers \cup {"main"} -> MainLines \cup WorkerLines]
  /\ pc["main"] \in MainLines /\ \A w \in Workers : pc[w] \in WorkerLines
  /\ sem \in [{"full", "empty", "mutex"} -> Nat]

SlotType == [fd : 0..BadFd, size : Sizes \cup {0}, handling : 0..1]

TypeData ==
  /\ buffers \in Nat \ {0}
  /\ buffer \in [Slots -> SlotType]
  /\ use \in Slots /\ fill \in Slots
  /\ conn_fd \in 0..MaxFds /\ useCopy \in [Workers -> Slots]
  /\ owner \in [0..BadFd -> 0..MaxConns] /\ accepted \in 0..MaxConns
  /\ handed \in Seq(0..MaxConns) /\ served \in Seq(0..MaxConns)

Types == TypeControl /\ TypeData

\* The mutex admits one thread at a time to the lines that use the buffer.
HoldsMutex(t) == pc[t] \in {"18", "39", "51", "118", "119", "125"}

MutexInv ==
  /\ sem["mutex"] \in 0..1
  /\ \A t \in Workers \cup {"main"} : HoldsMutex(t) => sem["mutex"] = 0
  /\ \A t, u \in Workers \cup {"main"} : HoldsMutex(t) /\ HoldsMutex(u) => t = u
-----------------------------------------------------------------------------
(***************************************************************************)
(* The slots are used in turn.  The connections of handed are numbered;    *)
(* those up to Taken have been taken out of the buffer, and the others are *)
(* in the slots from use on, one after the other.                          *)
(***************************************************************************)
AWorkerAt(lines) == \E w \in Workers : pc[w] \in lines
One(b) == IF b THEN 1 ELSE 0
Wrap(n) == IF n >= buffers THEN n - buffers ELSE n

Taken == Len(served) + One(AWorkerAt({"39", "44"}))

\* Slot i holds the k-th connection, still open.
Holding(i, k) == buffer[i].fd \in Fds /\ owner[buffer[i].fd] = handed[k]

\* A connection has one descriptor, and one place in handed.
Distinct ==
  /\ \A f, g \in 0..BadFd : owner[f] = owner[g] /\ owner[f] # 0 => f = g
  /\ \A f \in 0..BadFd : owner[f] <= accepted
  /\ \A i, j \in 1..Len(handed) : handed[i] = handed[j] => i = j
  /\ \A k \in 1..Len(handed) : 0 < handed[k] /\ handed[k] <= accepted
  /\ pc["main"] \in {"116", "118"} =>
       /\ conn_fd \in Fds /\ owner[conn_fd] = accepted /\ accepted > 0
       /\ \A k \in 1..Len(handed) : handed[k] < accepted

\* The connections put into the buffer and not answered yet.
Unanswered == sem["full"] + One(pc["main"] \in {"125", "126"}) + One(AWorkerAt({"16", "18", "39", "44"}))

Queue ==
  /\ Len(handed) = Len(served) + Unanswered
  /\ fill = Wrap(use + (Len(handed) - Taken))
  /\ \A k \in 1..Len(handed) :
       k > Taken => Holding(Wrap(use + (k - Taken - 1)), k)

AtWork(w) ==
  /\ pc[w] \in {"39", "44", "49"} => use = Wrap(useCopy[w] + 1)
  /\ pc[w] \in {"39", "44"} => Holding(useCopy[w], Len(served) + 1)
  /\ pc[w] = "49" => Len(served) > 0 /\ Holding(useCopy[w], Len(served))

TurnInv ==
  /\ Distinct /\ Queue
  /\ \A w \in Workers : AtWork(w)
  /\ \A k \in 1..Len(served) : served[k] = handed[k]

IInv == Types /\ MutexInv /\ Accounting /\ (InTurn => TurnInv)
-----------------------------------------------------------------------------
\* The index after a slot: the % of lines 37 and 124.
LEMMA NextSlot ==
  ASSUME buffers \in Nat \ {0}, NEW i \in Slots
  PROVE  (i + 1) % buffers = Wrap(i + 1) /\ Wrap(i + 1) \in Slots
<1>1. CASE i + 1 < buffers
  BY <1>1 DEF Wrap, Slots
<1>2. CASE i + 1 = buffers
  BY <1>2 DEF Wrap, Slots
<1> QED BY <1>1, <1>2 DEF Slots

\* A set of natural numbers has a least element.
LEMMA Least ==
  ASSUME NEW T \in SUBSET Nat, T # {}
  PROVE  \E x \in T : \A y \in T : x <= y
<1> DEFINE R == OpToRel(<, Nat)
<1>1. IsWellFoundedOn(R, Nat)
  BY NatLessThanWellFounded
<1>2. \A a, b \in Nat : a < b => <<a, b>> \in R
  BY DEF OpToRel
<1> HIDE DEF R
<1>3. PICK x \in T : \A y \in T : ~(<<y, x>> \in R)
  BY <1>1, WFMin, ZenonT(30)
<1>4. \A y \in T : ~(y < x)
  BY <1>2, <1>3, ZenonT(30)
<1> QED BY <1>3, <1>4

\* Line 32 chooses a slot of the buffer.
LEMMA SmallestIsSlot ==
  ASSUME Types
  PROVE  Smallest \in Slots
<1>1. CASE Waiting = {}
  BY <1>1 DEF Smallest, Types, TypeData
<1>2. CASE Waiting # {}
  <2> DEFINE L == {i \in Waiting : \A j \in Waiting : buffer[i].size <= buffer[j].size}
             Of(T) == {buffer[i].size : i \in T}
  <2>1. \A i \in Waiting : i \in Slots /\ i \in Nat /\ buffer[i].size \in Nat
    <3> TAKE i \in Waiting
    <3>1. i \in Slots /\ buffers \in Nat
      BY DEF Waiting, Types, TypeData
    <3>2. buffer[i] \in SlotType
      BY <3>1 DEF Types, TypeData
    <3>3. buffer[i].size \in Sizes \cup {0}
      BY <3>2 DEF SlotType
    <3>4. \A z \in Sizes \cup {0} : z \in Nat
      BY WServerConstants
    <3>5. i \in Nat
      BY <3>1 DEF Slots
    <3> QED BY <3>1, <3>3, <3>4, <3>5
  <2>2. PICK m \in Of(Waiting) : \A n \in Of(Waiting) : m <= n
    BY <1>2, <2>1, Least, ZenonT(30)
  <2>3. L # {} /\ L \in SUBSET Nat /\ L \in SUBSET Slots
    BY <2>1, <2>2
  <2>4. \E x \in L : \A y \in L : x <= y
    BY <2>3, Least, ZenonT(30)
  <2>5. Min(L) \in L
    BY <2>4 DEF Min
  <2> QED BY <1>2, <2>3, <2>5, ZenonT(30) DEF Smallest
<1> QED BY <1>1, <1>2

\* The lines of main and of a worker that only wait or post.
MainSems ==
  /\ \/ WaitStep("main", "106", "empty", "107")
     \/ PostStep("main", "109", "empty", "106")
     \/ WaitStep("main", "116", "mutex", "118")
     \/ PostStep("main", "119", "mutex", "120")
     \/ PostStep("main", "120", "empty", "106")
     \/ PostStep("main", "125", "mutex", "126")
     \/ PostStep("main", "126", "full", "106")
  /\ UNCHANGED <<options, slots, conn_fd, useCopy, kernel, handed, served>>

WorkerSems(w) ==
  /\ \/ WaitStep(w, "15", "full", "16")
     \/ WaitStep(w, "16", "mutex", "18")
     \/ PostStep(w, "39", "mutex", "44")
  /\ UNCHANGED <<options, slots, conn_fd, useCopy, kernel, handed, served>>

\* A step is one of these.
LEMMA Steps ==
  ASSUME [Next]_vars
  PROVE  \/ UNCHANGED vars \/ accept \/ pre_handle \/ read_headers_HungUp \/ MainSems
         \/ \E w \in Workers : WorkerSems(w) \/ TakeSlot(w) \/ Serve(w)
BY DEF Next, main, workerThread, MainSems, WorkerSems

\* Nobody changes the options or the pool.
LEMMA OptionsKept ==
  ASSUME [Next]_vars, Types
  PROVE  Workers' = Workers /\ buffers' = buffers /\ schedalg' = schedalg /\ Slots' = Slots
<1>1. /\ buffers' = buffers /\ schedalg' = schedalg
      /\ useCopy' = useCopy \/ \E w \in Workers, i \in Slots : useCopy' = [useCopy EXCEPT ![w] = i]
  BY Steps, SmallestIsSlot DEF accept, pre_handle, read_headers_HungUp, MainSems, WorkerSems, TakeSlot, Serve,
             options, vars, Types, TypeData
<1> QED BY <1>1, Zenon DEF Workers, Slots, Types, TypeData

\* The threads stay at lines of their own, and no semaphore goes below 0.
LEMMA ControlStep ==
  ASSUME Types, [Next]_vars
  PROVE  TypeControl'
<1> DEFINE Sems == {"full", "empty", "mutex"}
           Moves(t, lines) == \E l \in lines : pc' = [pc EXCEPT ![t] = l]
<1>1. \/ UNCHANGED pc
      \/ Moves("main", MainLines)
      \/ \E w \in Workers : Moves(w, WorkerLines)
  BY Steps DEF vars, accept, pre_handle, read_headers_HungUp, MainSems, WorkerSems, TakeSlot, Serve,
               WaitStep, PostStep, LocalStep, Goto, MainLines, WorkerLines
<1>2. UNCHANGED sem \/ \E x \in Sems : Sem_wait(x) \/ Sem_post(x)
  BY Steps DEF vars, accept, pre_handle, read_headers_HungUp, MainSems, WorkerSems, TakeSlot, Serve,
               WaitStep, PostStep, LocalStep
<1>3. sem' \in [Sems -> Nat]
  BY <1>2 DEF Types, TypeControl, Sem_wait, Sem_post
<1> QED BY <1>1, <1>3, OptionsKept, Zenon DEF Types, TypeControl

\* The indices stay within the buffer, and every variable keeps its type.
LEMMA DataStep ==
  ASSUME Types, [Next]_vars
  PROVE  TypeData'
<1> USE DEF options, slots, kernel
<1>0. MaxFds \in Nat /\ MaxConns \in Nat /\ Fds \subseteq 0..MaxFds /\ 0..MaxFds \subseteq 0..BadFd
  BY WServerConstants DEF Fds, BadFd
<1>1. buffer' \in [Slots -> SlotType]
  <2>0. buffer \in [Slots -> SlotType]
    BY DEF Types, TypeData
  <2>1. pre_handle => \/ UNCHANGED buffer
                      \/ \E z \in Sizes : buffer' = [buffer EXCEPT ![fill] = [fd |-> conn_fd, size |-> z, handling |-> 0]]
    BY DEF pre_handle
  <2>2. \A z \in Sizes : [fd |-> conn_fd, size |-> z, handling |-> 0] \in SlotType
    BY <1>0 DEF SlotType, Types, TypeData
  <2>3. \A r \in SlotType : [r EXCEPT !.handling = 1] \in SlotType
    BY DEF SlotType
  <2>4. \A w \in Workers : TakeSlot(w) => \/ UNCHANGED buffer
                                          \/ buffer' = [buffer EXCEPT ![Smallest] = [buffer[Smallest] EXCEPT !.handling = 1]]
    BY <2>0, SmallestIsSlot DEF TakeSlot
  <2> QED BY <2>0, <2>1, <2>2, <2>3, <2>4, Steps, SmallestIsSlot DEF vars, accept, read_headers_HungUp, MainSems, WorkerSems, Serve
<1>2. use' \in Slots /\ fill' \in Slots
  <2>1. /\ use' \in {use, (use + 1) % buffers}
        /\ fill' \in {fill, (fill + 1) % buffers}
    BY Steps DEF vars, accept, pre_handle, read_headers_HungUp, MainSems, WorkerSems, TakeSlot, Serve
  <2> QED BY <2>1, NextSlot, Zenon DEF Types, TypeData
<1>3. useCopy' \in [Workers -> Slots]
  <2>1. useCopy' = useCopy \/ \E w \in Workers, i \in Slots : useCopy' = [useCopy EXCEPT ![w] = i]
    BY Steps, SmallestIsSlot
       DEF vars, accept, pre_handle, read_headers_HungUp, MainSems, WorkerSems, TakeSlot, Serve, Types, TypeData
  <2> QED BY <2>1, Zenon DEF Types, TypeData
<1>4. conn_fd' \in 0..MaxFds /\ owner' \in [0..BadFd -> 0..MaxConns] /\ accepted' \in 0..MaxConns
  <2>1. \/ UNCHANGED <<conn_fd, owner, accepted>>
        \/ /\ accepted < MaxConns /\ accepted' = accepted + 1
           /\ \E f \in Fds : conn_fd' = f /\ owner' = [owner EXCEPT ![f] = accepted + 1]
        \/ /\ UNCHANGED <<conn_fd, accepted>>
           /\ \E f : owner' = [owner EXCEPT ![f] = 0]
    BY Steps DEF vars, accept, pre_handle, read_headers_HungUp, MainSems, WorkerSems, TakeSlot, Serve
  <2> QED BY <1>0, <2>1 DEF Types, TypeData
<1>5. handed' \in Seq(0..MaxConns) /\ served' \in Seq(0..MaxConns)
  <2>1. owner[conn_fd] \in 0..MaxConns
    BY <1>0, Zenon DEF Types, TypeData
  <2>2. ASSUME NEW w \in Workers PROVE owner[buffer[useCopy[w]].fd] \in 0..MaxConns
    <3>1. buffer[useCopy[w]] \in SlotType
      BY DEF Types, TypeData
    <3>2. buffer[useCopy[w]].fd \in 0..BadFd
      BY <3>1 DEF SlotType
    <3> QED BY <3>2 DEF Types, TypeData
  <2>3. /\ handed' = handed \/ handed' = Append(handed, owner[conn_fd])
        /\ served' = served \/ \E w \in Workers : served' = Append(served, owner[buffer[useCopy[w]].fd])
    BY Steps DEF vars, accept, pre_handle, read_headers_HungUp, MainSems, WorkerSems, TakeSlot, Serve
  <2>4. handed \in Seq(0..MaxConns) /\ served \in Seq(0..MaxConns)
    BY DEF Types, TypeData
  <2>5. \A q \in Seq(0..MaxConns), c \in 0..MaxConns : Append(q, c) \in Seq(0..MaxConns)
    OBVIOUS
  <2>6. handed' \in Seq(0..MaxConns)
    BY <2>1, <2>3, <2>4, <2>5, ZenonT(30)
  <2>7. served' \in Seq(0..MaxConns)
    BY <2>2, <2>3, <2>4, <2>5, ZenonT(30)
  <2> QED BY <2>6, <2>7
<1> QED BY <1>1, <1>2, <1>3, <1>4, <1>5, OptionsKept, Zenon DEF TypeData, Types

\* The mutex: a thread that passes Zem_wait(&mutex) is alone until it posts.
LEMMA MutexStep ==
  ASSUME Types, MutexInv, [Next]_vars
  PROVE  MutexInv'
<1> USE DEF WaitStep, PostStep, LocalStep, Goto, Sem_wait, Sem_post, HoldsMutex, MutexInv
<1>0. /\ "main" \notin Workers
      /\ pc \in [Workers \cup {"main"} -> MainLines \cup WorkerLines]
      /\ sem \in [{"full", "empty", "mutex"} -> Nat]
      /\ Workers' = Workers
  BY OptionsKept DEF Types, TypeControl
<1>1. CASE UNCHANGED vars
  BY <1>0, <1>1 DEF vars
<1>2. CASE accept \/ pre_handle \/ read_headers_HungUp
  BY <1>0, <1>2 DEF accept, pre_handle, read_headers_HungUp
<1>3. CASE MainSems
  BY <1>0, <1>3 DEF MainSems
<1>4. ASSUME NEW w \in Workers, WorkerSems(w)
      PROVE  MutexInv'
  BY <1>0, <1>4 DEF WorkerSems
<1>5. ASSUME NEW w \in Workers, TakeSlot(w) \/ Serve(w)
      PROVE  MutexInv'
  BY <1>0, <1>5 DEF TakeSlot, Serve
<1> QED BY <1>1, <1>2, <1>3, <1>4, <1>5, Steps

\* How one worker's move changes the number of busy ones.
LEMMA BusyCount ==
  ASSUME IsFiniteSet(Workers), Workers' = Workers, NEW w \in Workers
  PROVE  /\ Cardinality(Busy) \in Nat
         /\ Busy' = Busy \cup {w} /\ w \notin Busy => Cardinality(Busy)' = Cardinality(Busy) + 1
         /\ Busy' = Busy \ {w} /\ w \in Busy => Cardinality(Busy)' = Cardinality(Busy) - 1
<1>1. IsFiniteSet(Busy)
  BY FS_Subset DEF Busy
<1> QED BY <1>1, FS_CardinalityType, FS_AddElement, FS_RemoveElement

\* Every Zem_wait and Zem_post moves a place of the buffer from one holder to
\* the next; no other line does.
LEMMA AccountingStep ==
  ASSUME Types, Accounting, [Next]_vars
  PROVE  Accounting'
<1> USE DEF WaitStep, PostStep, LocalStep, Goto, Sem_wait, Sem_post, Accounting, MainBusy
<1>0. /\ IsFiniteSet(Workers) /\ "main" \notin Workers
      /\ pc \in [Workers \cup {"main"} -> MainLines \cup WorkerLines]
      /\ sem \in [{"full", "empty", "mutex"} -> Nat]
      /\ Workers' = Workers /\ buffers' = buffers /\ buffers \in Nat
      /\ Cardinality(Busy) \in Nat
  BY OptionsKept, FS_Subset, FS_CardinalityType, Zenon DEF Types, TypeControl, TypeData, Busy
<1>1. CASE UNCHANGED vars
  BY <1>0, <1>1 DEF vars, Busy
<1>2. CASE accept \/ pre_handle \/ read_headers_HungUp
  <2>1. Busy' = Busy
    BY <1>0, <1>2 DEF accept, pre_handle, read_headers_HungUp, Busy
  <2> QED BY <1>0, <1>2, <2>1 DEF accept, pre_handle, read_headers_HungUp
<1>3. CASE MainSems
  <2>1. Busy' = Busy
    BY <1>0, <1>3 DEF MainSems, Busy
  <2> QED BY <1>0, <1>3, <2>1 DEF MainSems
<1>4. ASSUME NEW w \in Workers, WorkerSems(w)
      PROVE  Accounting'
  <2>1. IF pc[w] = "15" THEN Busy' = Busy \cup {w} /\ w \notin Busy ELSE Busy' = Busy
    BY <1>0, <1>4 DEF WorkerSems, Busy
  <2> QED BY <1>0, <1>4, <2>1, BusyCount DEF WorkerSems
<1>5. ASSUME NEW w \in Workers, TakeSlot(w) \/ Serve(w)
      PROVE  Accounting'
  <2>1. IF pc[w] = "50" THEN Busy' = Busy \ {w} /\ w \in Busy ELSE Busy' = Busy
    BY <1>0, <1>5 DEF TakeSlot, Serve, Busy
  <2>2. /\ pc'["main"] = pc["main"]
        /\ IF pc[w] = "50" THEN sem' = [sem EXCEPT !["empty"] = @ + 1] ELSE sem' = sem
    BY <1>0, <1>5 DEF TakeSlot, Serve
  <2> QED BY <1>0, <2>1, <2>2, BusyCount
<1> QED BY <1>1, <1>2, <1>3, <1>4, <1>5, Steps

\* Initially.
LEMMA InitIInv ==
  ASSUME Init
  PROVE  IInv
<1>0. MaxFds \in Nat /\ MaxConns \in Nat /\ MaxBuffers \in Nat \ {0}
  BY WServerConstants
<1>1. PICK pool \in Pools :
        /\ pc = [t \in pool \cup {"main"} |-> IF t = "main" THEN "106" ELSE "15"]
        /\ useCopy = [w \in pool |-> 0]
  BY DEF Init
<1>2. Workers = pool /\ IsFiniteSet(pool) /\ "main" \notin pool
  BY <1>1, WServerConstants DEF Workers
<1>3. TypeControl
  BY <1>0, <1>1, <1>2 DEF Init, TypeControl, MainLines, WorkerLines
<1>4. TypeData
  <2>1. Uninitialised \subseteq SlotType
    BY <1>0, WServerConstants DEF Uninitialised, SlotType, BadFd
  <2>2. buffer \in [Slots -> SlotType]
    BY <2>1 DEF Init
  <2>3. buffers \in Nat \ {0} /\ 0 \in Slots
    BY <1>0 DEF Init, Slots
  <2> QED BY <1>0, <1>1, <1>2, <2>2, <2>3 DEF Init, TypeData, BadFd
<1>5. MutexInv
  BY <1>1, <1>2 DEF Init, MutexInv, HoldsMutex
<1>6. Accounting
  <2>1. Busy = {}
    BY <1>1, <1>2 DEF Busy
  <2> QED BY <1>0, <1>1, <2>1, FS_EmptySet DEF Init, Accounting, MainBusy
<1>7. TurnInv
  <2>1. ~AWorkerAt({"39", "44"}) /\ ~AWorkerAt({"16", "18", "39", "44"})
    BY <1>1, <1>2 DEF AWorkerAt
  <2>2. Distinct
    BY <1>1 DEF Init, Distinct
  <2>3. Queue
    <3>1. /\ Len(handed) = 0 /\ Len(served) = 0 /\ use = 0 /\ fill = 0
          /\ sem["full"] = 0 /\ buffers \in Nat \ {0} /\ pc["main"] = "106"
      BY <1>0, <1>1 DEF Init
    <3>2. Taken = 0
      BY <2>1, <3>1 DEF Taken, One
    <3>3. fill = Wrap(use + (Len(handed) - Taken))
      BY <3>1, <3>2 DEF Wrap
    <3>4. One(pc["main"] \in {"125", "126"}) = 0 /\ One(AWorkerAt({"16", "18", "39", "44"})) = 0
      BY <2>1, <3>1 DEF One
    <3> QED BY <3>1, <3>3, <3>4 DEF Queue, Unanswered
  <2> QED BY <1>1, <1>2, <2>2, <2>3 DEF Init, TurnInv, AtWork
<1> QED BY <1>3, <1>4, <1>5, <1>6, <1>7 DEF IInv, Types

\* When the slots are used in turn one worker at a time is busy: there is one
\* worker, or one place.
OneBusy == \A v, w \in Busy : v = w

\* With every connection in one place, the one the server handles is the only busy one.
LEMMA OneIsBusy == Types /\ Accounting /\ InTurn => OneBusy
<1> SUFFICES ASSUME Types, Accounting, InTurn PROVE OneBusy
  OBVIOUS
<1>1. IsFiniteSet(Busy) /\ IsFiniteSet(Workers) /\ Busy \subseteq Workers
  BY FS_Subset DEF Types, TypeControl, Busy
<1>2. Cardinality(Busy) <= 1
  <2>1. CASE buffers = 1
    BY <2>1, <1>1, FS_CardinalityType DEF Accounting, MainBusy, Types, TypeControl
  <2>2. CASE Cardinality(Workers) = 1
    BY <2>2, <1>1, FS_Subset
  <2> QED BY <2>1, <2>2 DEF InTurn
<1> SUFFICES ASSUME NEW v \in Busy, NEW w \in Busy, v # w PROVE FALSE
  BY DEF OneBusy
<1>3. IsFiniteSet(Busy \ {v}) /\ Cardinality(Busy \ {v}) = Cardinality(Busy) - 1
  BY <1>1, FS_RemoveElement
<1>4. Cardinality(Busy) \in Nat /\ Cardinality(Busy \ {v}) \in Nat /\ Cardinality(Busy \ {v}) # 0
  <2>1. Busy \ {v} # {}
    OBVIOUS
  <2> QED BY <1>1, <1>3, <2>1, FS_EmptySet, FS_CardinalityType
<1> QED BY <1>2, <1>3, <1>4

\* How many connections wait in the buffer: never more than it has slots, and
\* fewer while somebody works on a place.
LEMMA Backlog ==
  ASSUME Types, Accounting, InTurn, TurnInv
  PROVE  /\ Len(handed) \in Nat /\ Len(served) \in Nat /\ Taken \in Nat
         /\ Len(handed) - Taken = sem["full"] + One(pc["main"] \in {"125", "126"})
                                    + One(AWorkerAt({"16", "18"}))
         /\ Len(handed) - Taken + One(AWorkerAt({"39", "44", "49", "50"}))
              + One(pc["main"] \notin {"106", "125", "126"}) <= buffers
         /\ Taken <= Len(handed) /\ Len(handed) - Taken \in 0..buffers
         /\ \A k \in 1..Len(handed) : k > Taken => k - Taken - 1 \in 0..(buffers - 1)
<1>1. /\ Len(handed) \in Nat /\ Len(served) \in Nat
      /\ sem["full"] \in Nat /\ sem["empty"] \in Nat /\ buffers \in Nat
  BY DEF Types, TypeControl, TypeData
<1>2. \A v, w \in Busy : v = w
  BY OneIsBusy DEF OneBusy
<1>3. Cardinality(Busy) \in Nat /\ (Busy # {} => Cardinality(Busy) >= 1)
  BY FS_Subset, FS_CardinalityType, FS_EmptySet DEF Types, TypeControl, Busy
<1> DEFINE coming == One(AWorkerAt({"16", "18"}))
           inHand == One(AWorkerAt({"39", "44"}))
           working == One(AWorkerAt({"39", "44", "49", "50"}))
           adding == One(pc["main"] \in {"125", "126"})
           filling == One(pc["main"] \notin {"106", "125", "126"})
<1>4. One(AWorkerAt({"16", "18", "39", "44"})) = coming + inHand
  BY <1>2 DEF AWorkerAt, One, Busy
<1>5. coming + working <= Cardinality(Busy)
  BY <1>2, <1>3 DEF AWorkerAt, One, Busy
<1>6. adding + filling <= MainBusy
  BY DEF One, MainBusy
<1>7. coming \in 0..1 /\ inHand \in 0..1 /\ working \in 0..1 /\ adding \in 0..1 /\ filling \in 0..1 /\ MainBusy \in 0..1
  BY DEF One, MainBusy
<1>8. Len(handed) = Len(served) + Unanswered /\ Unanswered = sem["full"] + adding + (coming + inHand)
  BY <1>4 DEF TurnInv, Queue, Unanswered
<1>9. Taken = Len(served) + inHand
  BY DEF Taken
<1>10. sem["empty"] + sem["full"] + Cardinality(Busy) + MainBusy = buffers
  BY DEF Accounting
<1> DEFINE H == Len(handed)  S == Len(served)  F == sem["full"]  E == sem["empty"]  B == Cardinality(Busy)
<1>11. /\ H \in Nat /\ S \in Nat /\ F \in Nat /\ E \in Nat /\ B \in Nat
       /\ H = S + Unanswered /\ Unanswered = F + adding + (coming + inHand) /\ Taken = S + inHand
       /\ coming + working <= B /\ E + F + B + MainBusy = buffers
  BY <1>1, <1>3, <1>5, <1>8, <1>9, <1>10
<1> HIDE DEF coming, inHand, working, adding, filling, H, S, F, E, B
<1>12. /\ Taken \in Nat /\ Taken <= H /\ H - Taken = F + adding + coming
       /\ H - Taken + working + filling <= buffers /\ H - Taken \in 0..buffers
       /\ \A k \in 1..H : k > Taken => k - Taken - 1 \in 0..(buffers - 1)
  BY <1>6, <1>7, <1>11
<1> QED BY <1>1, <1>12 DEF coming, working, adding, filling, H, F

\* In turn, line 18 chooses the next slot, whichever algorithm is set.
LEMMA TakesNext ==
  ASSUME Types, InTurn, NEW w \in Workers, TakeSlot(w)
  PROVE  /\ useCopy' = [useCopy EXCEPT ![w] = use] /\ use' = Wrap(use + 1)
         /\ \A i \in Slots : buffer'[i].fd = buffer[i].fd
<1>1. buffers \in Nat \ {0} /\ use \in Slots /\ buffer \in [Slots -> SlotType]
  BY DEF Types, TypeData
<1>2. CASE schedalg = "SFF"
  <2>1. buffers = 1 /\ Slots = {0}
    BY <1>2, <1>1 DEF InTurn, Slots
  <2>2. use = 0 /\ Smallest = 0
    BY <1>1, <2>1, SmallestIsSlot
  <2>3. /\ useCopy' = [useCopy EXCEPT ![w] = Smallest] /\ use' = use
        /\ buffer' = [buffer EXCEPT ![Smallest] = [buffer[Smallest] EXCEPT !.handling = 1]]
    BY <1>1, <1>2, SmallestIsSlot DEF TakeSlot
  <2>4. \A i \in Slots : buffer[i] \in SlotType /\ [buffer[i] EXCEPT !.handling = 1].fd = buffer[i].fd
    BY <1>1 DEF SlotType
  <2> QED BY <1>1, <2>1, <2>2, <2>3, <2>4 DEF Wrap
<1>3. CASE schedalg # "SFF"
  BY <1>1, <1>3, NextSlot DEF TakeSlot
<1> QED BY <1>2, <1>3

\* The slots from i on, around the end of the array.
LEMMA Around ==
  ASSUME buffers \in Nat \ {0}, NEW i \in Slots, NEW j \in 0..buffers
  PROVE  /\ Wrap(i + j) \in Slots
         /\ j < buffers => Wrap(Wrap(i + 1) + j) = Wrap(i + j + 1) /\ Wrap(Wrap(i + j) + 1) = Wrap(i + j + 1)
         /\ \A l \in 0..buffers : Wrap(i + j) = Wrap(i + l) /\ j < l => j = 0 /\ l = buffers
BY DEF Wrap, Slots

\* A connection that waits in a slot has a number, and so has its descriptor.
LEMMA HeldIsOpen ==
  ASSUME Types, Distinct, NEW i \in Slots, NEW k \in 1..Len(handed), Holding(i, k)
  PROVE  buffer[i].fd \in 0..BadFd /\ owner[buffer[i].fd] # 0
<1>1. MaxFds \in Nat
  BY WServerConstants
<1> QED BY <1>1, SMTT(30) DEF Holding, Distinct, Fds, BadFd, Types, TypeData

\* A step that puts no connection into the buffer and takes none out leaves
\* the queue as it is, provided that the connections in it stay open.
LEMMA QueueKept ==
  ASSUME Types, Accounting, InTurn, TurnInv, Workers' = Workers,
         UNCHANGED <<buffers, use, fill, useCopy, handed, served>>,
         Unanswered' = Unanswered, AWorkerAt({"39", "44"})' = AWorkerAt({"39", "44"}),
         \A w \in Workers : /\ pc'[w] \in {"39", "44"} => pc[w] \in {"39", "44"}
                            /\ pc'[w] = "49" => pc[w] = "49",
         \A i \in Slots : \A k \in 1..Len(handed) :
           Holding(i, k) /\ (k > Len(served) \/ AWorkerAt({"49"})') => Holding(i, k)',
         Distinct'
  PROVE  TurnInv'
<1>0. Len(handed) \in Nat /\ Len(served) \in Nat /\ Taken \in Nat /\ Taken <= Len(handed) /\ Taken >= Len(served)
  BY Backlog DEF Taken, One
<1>1. Taken' = Taken
  BY DEF Taken
<1>2. Queue'
  <2>1. (Len(handed) = Len(served) + Unanswered)'
    BY DEF TurnInv, Queue
  <2>2. (fill = Wrap(use + (Len(handed) - Taken)))'
    BY <1>1 DEF TurnInv, Queue, Wrap
  <2>3. ASSUME NEW k \in 1..Len(handed), k > Taken
        PROVE  Holding(Wrap(use + (k - Taken - 1)), k)'
    <3> DEFINE i == Wrap(use + (k - Taken - 1))
    <3>1. i \in Slots
      <4>1. k - Taken - 1 \in 0..(buffers - 1)
        BY <2>3, Backlog, Zenon
      <4>2. buffers \in Nat \ {0} /\ use \in Slots
        BY DEF Types, TypeData
      <4>3. k - Taken - 1 \in 0..buffers
        BY <4>1, <4>2
      <4> QED BY <4>2, <4>3, Around, Zenon
    <3>2. Holding(i, k)
      BY <2>3 DEF TurnInv, Queue
    <3>3. k > Len(served)
      BY <1>0, <2>3
    <3> QED BY <1>1, <3>1, <3>2, <3>3, Zenon DEF Wrap
  <2> QED BY <1>1, <2>1, <2>2, <2>3 DEF Queue
<1>3. ASSUME NEW w \in Workers PROVE AtWork(w)'
  <2>1. useCopy[w] \in Slots /\ AtWork(w)
    BY Zenon DEF TurnInv, Types, TypeData
  <2>2. pc'[w] \in {"39", "44", "49"} => use = Wrap(useCopy[w] + 1)
    BY <2>1 DEF AtWork
  <2>3. ASSUME pc'[w] \in {"39", "44"} PROVE Holding(useCopy[w], Len(served) + 1)'
    <3>1. Holding(useCopy[w], Len(served) + 1)
      BY <2>1, <2>3, Zenon DEF AtWork
    <3>2. Len(served) + 1 \in 1..Len(handed)
      BY <1>0, <2>3 DEF Taken, One, AWorkerAt
    <3> QED BY <1>0, <2>1, <3>1, <3>2
  <2>4. ASSUME pc'[w] = "49" PROVE Len(served) > 0 /\ Holding(useCopy[w], Len(served))'
    <3>1. Len(served) > 0 /\ Holding(useCopy[w], Len(served))
      BY <2>1, <2>4 DEF AtWork
    <3>2. Len(served) \in 1..Len(handed)
      BY <1>0, <3>1
    <3>3. AWorkerAt({"49"})'
      BY <2>4 DEF AWorkerAt
    <3> QED BY <2>1, <3>1, <3>2, <3>3, Zenon
  <2> QED BY <2>2, <2>3, <2>4, Zenon DEF AtWork, Wrap
<1>4. \A k \in 1..Len(served) : served[k] = handed[k]
  BY DEF TurnInv
<1> QED BY <1>2, <1>3, <1>4 DEF TurnInv

\* Line 107: the new connection gets a number and a descriptor of its own.
LEMMA AcceptKeeps ==
  ASSUME Types, Accounting, InTurn, TurnInv, accept
  PROVE  TurnInv'
<1> USE DEF LocalStep, Goto, slots, options, kernel
<1>1. UNCHANGED <<buffers, buffer, use, fill, useCopy, handed, served, sem>>
  BY DEF accept
<1>2. /\ pc["main"] = "107" /\ pc'["main"] \in {"109", "116"}
      /\ Workers' = Workers /\ \A w \in Workers : pc'[w] = pc[w]
  BY DEF accept, Types, TypeControl, Workers
<1>3. /\ Unanswered' = Unanswered
      /\ AWorkerAt({"39", "44"})' = AWorkerAt({"39", "44"})
  <2>1. /\ AWorkerAt({"39", "44"})' = AWorkerAt({"39", "44"})
        /\ AWorkerAt({"16", "18", "39", "44"})' = AWorkerAt({"16", "18", "39", "44"})
    BY <1>2 DEF AWorkerAt
  <2>2. One(pc'["main"] \in {"125", "126"}) = One(pc["main"] \in {"125", "126"})
    BY <1>2 DEF One
  <2> QED BY <1>1, <2>1, <2>2 DEF Unanswered
<1>4. CASE UNCHANGED kernel /\ pc'["main"] = "109"
  <2>1. Distinct'
    BY <1>1, <1>4 DEF TurnInv, Distinct
  <2>2. \A i \in Slots : \A k \in 1..Len(handed) : Holding(i, k) => Holding(i, k)'
    BY <1>1, <1>4 DEF Holding
  <2> QED BY <1>1, <1>2, <1>3, <2>1, <2>2, QueueKept, Zenon
<1>5. ASSUME NEW f \in Fds, owner[f] = 0, conn_fd' = f, owner' = [owner EXCEPT ![f] = accepted + 1],
             accepted' = accepted + 1, pc'["main"] = "116"
      PROVE  TurnInv'
  <2>1. \A i \in Slots : \A k \in 1..Len(handed) : Holding(i, k) => Holding(i, k)'
    BY <1>1, <1>5, HeldIsOpen, Zenon DEF Holding, TurnInv, Types, TypeData
  <2>2. Distinct'
    <3>1. /\ \A k \in 1..Len(handed) : handed[k] \in Nat
          /\ accepted \in Nat /\ owner \in [0..BadFd -> 0..MaxConns] /\ MaxConns \in Nat /\ f \in 0..BadFd
      BY WServerConstants, SMTT(30) DEF Types, TypeData, Fds, BadFd
    <3> QED BY <1>1, <1>5, <3>1 DEF TurnInv, Distinct
  <2> QED BY <1>1, <1>2, <1>3, <2>1, <2>2, QueueKept, Zenon
<1> QED BY <1>2, <1>4, <1>5 DEF accept, Types, TypeControl

\* The lines of main that only wait and post, a rejected request, and a client
\* that hangs up.
LEMMA MainKeeps ==
  ASSUME Types, Accounting, InTurn, TurnInv,
         MainSems \/ read_headers_HungUp \/ (pre_handle /\ pc'["main"] = "119")
  PROVE  TurnInv'
<1> USE DEF WaitStep, PostStep, LocalStep, Goto, Sem_wait, Sem_post, slots, options, kernel
<1>1. UNCHANGED <<buffers, buffer, use, fill, conn_fd, useCopy, owner, accepted, handed, served>>
  BY Zenon DEF MainSems, read_headers_HungUp, pre_handle, Types, TypeControl
<1>2. Workers' = Workers /\ \A w \in Workers : pc'[w] = pc[w]
  BY DEF MainSems, read_headers_HungUp, pre_handle, Types, TypeControl, Workers
<1>3. AWorkerAt({"39", "44"})' = AWorkerAt({"39", "44"})
      /\ AWorkerAt({"16", "18", "39", "44"})' = AWorkerAt({"16", "18", "39", "44"})
  BY <1>2, Zenon DEF AWorkerAt
<1>4. sem'["full"] + One(pc'["main"] \in {"125", "126"}) = sem["full"] + One(pc["main"] \in {"125", "126"})
  BY DEF MainSems, read_headers_HungUp, pre_handle, Types, TypeControl, One
<1>5. Unanswered' = Unanswered
  BY <1>3, <1>4, Zenon DEF Unanswered
<1>6. pc'["main"] \in {"116", "118"} => pc["main"] \in {"116", "118"}
  BY DEF MainSems, read_headers_HungUp, pre_handle, Types, TypeControl
<1>7. Distinct'
  BY <1>1, <1>6, Zenon DEF TurnInv, Distinct
<1>8. \A i \in Slots : \A k \in 1..Len(handed) : Holding(i, k) => Holding(i, k)'
  BY <1>1 DEF Holding
<1> QED BY <1>1, <1>2, <1>3, <1>5, <1>7, <1>8, QueueKept, Zenon

\* The lines of a worker that only wait and post: what leaves full is in the
\* worker's hands.
LEMMA WorkerSemsKeep ==
  ASSUME Types, Accounting, InTurn, TurnInv, OneBusy', NEW w \in Workers,
         WorkerSems(w) \/ (Serve(w) /\ pc[w] = "50")
  PROVE  TurnInv'
<1> USE DEF WaitStep, PostStep, LocalStep, Goto, Sem_wait, Sem_post, slots, options, kernel
<1>1. UNCHANGED <<buffers, buffer, use, fill, conn_fd, useCopy, owner, accepted, handed, served>>
  BY Zenon DEF WorkerSems, Serve
<1>2. /\ w # "main" /\ Workers' = Workers /\ pc'["main"] = pc["main"]
      /\ \A v \in Workers \ {w} : pc'[v] = pc[v]
      /\ pc'[w] = CASE pc[w] = "15" -> "16" [] pc[w] = "16" -> "18" [] pc[w] = "39" -> "44" [] pc[w] = "50" -> "15"
      /\ pc[w] \in {"15", "16", "39", "50"}
  BY DEF WorkerSems, Serve, Types, TypeControl, Workers
<1>3. \A u, v \in Workers :
        /\ pc[u] \in {"16", "18", "39", "44", "49", "50"} /\ pc[v] \in {"16", "18", "39", "44", "49", "50"} => u = v
        /\ pc'[u] \in {"16", "18", "39", "44", "49", "50"} /\ pc'[v] \in {"16", "18", "39", "44", "49", "50"} => u = v
  BY <1>2, OneIsBusy DEF OneBusy, Busy
<1>4. AWorkerAt({"39", "44"})' = AWorkerAt({"39", "44"})
  BY <1>2 DEF AWorkerAt
<1>5. Unanswered' = Unanswered
  <2> DEFINE F == sem["full"]
             A == One(AWorkerAt({"16", "18", "39", "44"}))
             B == One(pc["main"] \in {"125", "126"})
  <2>1. F \in Nat /\ A \in Nat /\ B \in Nat /\ B' = B
    BY <1>2, Zenon DEF Types, TypeControl, One
  <2>2. IF pc[w] = "15" THEN F' = F - 1 /\ A = 0 /\ A' = 1 ELSE F' = F /\ A' = A
    BY <1>2, <1>3 DEF WorkerSems, Serve, Types, TypeControl, AWorkerAt, One
  <2>3. Unanswered = F + B + A /\ Unanswered' = F' + B' + A'
    BY DEF Unanswered
  <2> HIDE DEF A, B, F
  <2>4. CASE pc[w] = "15"
    <3>1. Unanswered = F + B /\ Unanswered' = (F - 1) + B + 1
      BY <2>1, <2>2, <2>3, <2>4
    <3> QED BY <2>1, <3>1
  <2>5. CASE pc[w] # "15"
    BY <2>1, <2>2, <2>3, <2>5
  <2> QED BY <2>4, <2>5
<1>7. Distinct'
  BY <1>1, <1>2, Zenon DEF TurnInv, Distinct
<1>8. \A i \in Slots : \A k \in 1..Len(handed) : Holding(i, k) => Holding(i, k)'
  BY <1>1, Zenon DEF Holding
<1> QED BY <1>1, <1>2, <1>4, <1>5, <1>7, <1>8, QueueKept, SMTT(30)

\* Line 49: the connection that is closed is the one that was answered last,
\* and no other, although descriptors are used again.
LEMMA CloseKeeps ==
  ASSUME Types, Accounting, InTurn, TurnInv, NEW w \in Workers, Serve(w), pc[w] = "49"
  PROVE  TurnInv'
<1> USE DEF PostStep, LocalStep, Goto, slots, options
<1> DEFINE f == buffer[useCopy[w]].fd
           last == Len(served)
<1>1. /\ UNCHANGED <<buffers, buffer, use, fill, conn_fd, useCopy, accepted, handed, served, sem>>
      /\ owner' = [owner EXCEPT ![f] = 0] /\ pc' = [pc EXCEPT ![w] = "50"]
  BY Zenon DEF Serve
<1>2. /\ w # "main" /\ Workers' = Workers /\ pc'["main"] = pc["main"]
      /\ \A v \in Workers \ {w} : pc'[v] = pc[v] /\ pc[v] = "15"
      /\ pc'[w] = "50"
  <2>1. w # "main" /\ pc \in [Workers \cup {"main"} -> MainLines \cup WorkerLines]
    BY DEF Types, TypeControl
  <2>2. \A v \in Workers : pc[v] # "15" => v = w
    BY OneIsBusy, Zenon DEF OneBusy, Busy, Types, TypeControl, WorkerLines
  <2> QED BY <1>1, <2>1, <2>2 DEF Workers
<1>3. /\ Unanswered' = Unanswered
      /\ AWorkerAt({"39", "44"})' = AWorkerAt({"39", "44"}) /\ ~AWorkerAt({"49"})'
  <2>1. /\ AWorkerAt({"39", "44"})' = AWorkerAt({"39", "44"}) /\ ~AWorkerAt({"49"})'
        /\ AWorkerAt({"16", "18", "39", "44"})' = AWorkerAt({"16", "18", "39", "44"})
    BY <1>2, Zenon DEF AWorkerAt
  <2> QED BY <1>1, <1>2, <2>1 DEF Unanswered
<1>4. /\ last \in 1..Len(handed) /\ owner[f] = handed[last] /\ f \in 0..BadFd /\ owner[f] # 0
  <2>1. last > 0 /\ Holding(useCopy[w], last) /\ useCopy[w] \in Slots
    BY Zenon DEF TurnInv, AtWork, Types, TypeData
  <2>2. last \in 1..Len(handed)
    <3>1. last \in Nat /\ Len(handed) \in Nat /\ Taken <= Len(handed) /\ Taken \in {last, last + 1}
      BY Backlog DEF Taken, One
    <3> HIDE DEF last
    <3> QED BY <2>1, <3>1
  <2> QED BY <2>1, <2>2, HeldIsOpen, Zenon DEF Holding, TurnInv
<1>5. ASSUME NEW i \in Slots, NEW k \in 1..Len(handed), Holding(i, k), k > last
      PROVE  Holding(i, k)'
  <2>0. PICK l \in 1..Len(handed) : l = last /\ k # l
    <3> HIDE DEF last
    <3> QED BY <1>4, <1>5
  <2>1. handed[k] # handed[last]
    BY <2>0, Zenon DEF TurnInv, Distinct
  <2>2. buffer[i].fd # f /\ buffer[i].fd \in 0..BadFd
    BY <1>4, <1>5, <2>1, HeldIsOpen, Zenon DEF Holding, TurnInv
  <2> QED BY <1>1, <1>5, <2>2, SMTT(30) DEF Holding, Types, TypeData
<1>6. Distinct'
  <2>1. \A g \in 0..BadFd : owner'[g] = IF g = f THEN 0 ELSE owner[g]
    BY <1>1, <1>4, Zenon DEF Types, TypeData
  <2>2. pc["main"] \in {"116", "118"} => conn_fd # f /\ conn_fd \in 0..BadFd
    BY <1>4, WServerConstants DEF TurnInv, Distinct, Fds, BadFd, Types, TypeData
  <2>3. accepted \in Nat
    BY WServerConstants DEF Types, TypeData
  <2> QED BY <1>1, <1>2, <2>1, <2>2, <2>3 DEF TurnInv, Distinct
<1> QED BY <1>1, <1>2, <1>3, <1>5, <1>6, QueueKept, SMTT(30)

\* Two facts about sequences of connections.
LEMMA Elements ==
  ASSUME NEW T, NEW q \in Seq(T)
  PROVE  \A k \in 1..Len(q) : q[k] \in T
OBVIOUS

\* What Append does to each position.
LEMMA Appended ==
  ASSUME NEW q \in Seq(0..MaxConns), NEW c \in 0..MaxConns
  PROVE  /\ Len(q) \in Nat /\ Len(Append(q, c)) = Len(q) + 1
         /\ \A k \in 1..Len(q) : Append(q, c)[k] = q[k]
         /\ Append(q, c)[Len(q) + 1] = c
OBVIOUS

\* What only the busy worker does to the lines of the workers.
LEMMA Alone ==
  ASSUME Types, Accounting, InTurn, NEW w \in Workers, pc[w] # "15", NEW l \in WorkerLines \ {"15"},
         Workers' = Workers, pc' = [pc EXCEPT ![w] = l]
  PROVE  /\ pc'["main"] = pc["main"]
         /\ \A v \in Workers : v # w => pc[v] = "15" /\ pc'[v] = "15"
         /\ pc'[w] = l
         /\ \A lines \in SUBSET (WorkerLines \ {"15"}) :
              /\ AWorkerAt(lines) <=> pc[w] \in lines
              /\ AWorkerAt(lines)' <=> l \in lines
<1>1. /\ "main" \notin Workers /\ pc \in [Workers \cup {"main"} -> MainLines \cup WorkerLines]
      /\ \A v \in Workers : pc[v] \in WorkerLines
  BY DEF Types, TypeControl
<1>2. \A v \in Workers : pc[v] # "15" => v = w
  BY <1>1, OneIsBusy DEF OneBusy, Busy, WorkerLines
<1>3. /\ pc'["main"] = pc["main"] /\ pc'[w] = l
      /\ \A v \in Workers : v # w => pc[v] = "15" /\ pc'[v] = "15"
  BY <1>1, <1>2
<1>4. ASSUME NEW lines \in SUBSET (WorkerLines \ {"15"})
      PROVE  (AWorkerAt(lines) <=> pc[w] \in lines) /\ (AWorkerAt(lines)' <=> l \in lines)
  BY <1>3, Zenon DEF AWorkerAt
<1> QED BY <1>3, <1>4

\* Line 18: the worker takes the first connection in the buffer.
LEMMA TakeKeeps ==
  ASSUME Types, Accounting, InTurn, TurnInv, NEW w \in Workers, TakeSlot(w)
  PROVE  TurnInv'
<1> USE DEF LocalStep, Goto, options, kernel
<1> DEFINE H == Len(handed)  S == Len(served)
<1>1. /\ UNCHANGED <<buffers, schedalg, fill, conn_fd, owner, accepted, handed, served, sem>>
      /\ pc[w] = "18" /\ pc' = [pc EXCEPT ![w] = "39"]
  BY DEF TakeSlot
<1>2. /\ useCopy' = [useCopy EXCEPT ![w] = use] /\ use' = Wrap(use + 1) /\ useCopy'[w] = use
      /\ \A i \in Slots : buffer'[i].fd = buffer[i].fd
      /\ Workers' = Workers
      /\ buffers \in Nat \ {0} /\ use \in Slots /\ H \in Nat /\ S \in Nat
  BY TakesNext DEF Types, TypeData, Workers
<1>3. /\ pc'["main"] = pc["main"] /\ pc'[w] = "39"
      /\ \A v \in Workers : v # w => pc'[v] = "15"
      /\ ~AWorkerAt({"39", "44"}) /\ AWorkerAt({"39", "44"})'
      /\ AWorkerAt({"16", "18", "39", "44"}) /\ AWorkerAt({"16", "18", "39", "44"})' /\ AWorkerAt({"16", "18"})
  <2>1. /\ "39" \in WorkerLines \ {"15"} /\ pc[w] # "15"
        /\ {"39", "44"} \in SUBSET (WorkerLines \ {"15"}) /\ {"16", "18"} \in SUBSET (WorkerLines \ {"15"})
        /\ {"16", "18", "39", "44"} \in SUBSET (WorkerLines \ {"15"})
    BY <1>1 DEF WorkerLines
  <2>2. /\ pc'["main"] = pc["main"] /\ pc'[w] = "39"
        /\ \A v \in Workers : v # w => pc'[v] = "15"
        /\ \A lines \in SUBSET (WorkerLines \ {"15"}) :
              /\ AWorkerAt(lines) <=> pc[w] \in lines
              /\ AWorkerAt(lines)' <=> "39" \in lines
    BY <1>1, <1>2, <2>1, Alone, ZenonT(30)
  <2> QED BY <1>1, <2>1, <2>2
<1>4. /\ Taken = S /\ Taken' = S + 1 /\ Unanswered' = Unanswered
      /\ S < H /\ H - S - 1 \in 0..(buffers - 1)
  <2>1. Taken = S /\ Taken' = S + 1
    BY <1>1, <1>2, <1>3 DEF Taken, One
  <2>2. H - Taken = sem["full"] + One(pc["main"] \in {"125", "126"}) + 1 /\ H - Taken \in 0..buffers
    BY <1>3, Backlog DEF One
  <2>3. sem["full"] \in Nat /\ One(pc["main"] \in {"125", "126"}) \in Nat
    BY DEF Types, TypeControl, One
  <2>4. Unanswered' = Unanswered
    BY <1>1, <1>3, ZenonT(30) DEF Unanswered
  <2> DEFINE F == sem["full"]  A == One(pc["main"] \in {"125", "126"})
  <2> HIDE DEF H, S, F, A
  <2> QED BY <1>2, <2>1, <2>2, <2>3, <2>4 DEF F, A
<1>5. ASSUME NEW k \in 1..H, k > S
      PROVE  \E i \in Slots : /\ i = Wrap(use + (k - S - 1))
                              /\ k > S + 1 => i = Wrap(use' + (k - (S + 1) - 1))
                              /\ Holding(i, k)'
  <2>1. Holding(Wrap(use + (k - S - 1)), k)
    BY <1>4, <1>5 DEF TurnInv, Queue
  <2>2. k - S - 1 \in 0..(buffers - 1)
    BY <1>4, <1>5, Backlog
  <2>3. PICK i \in Slots : /\ i = Wrap(use + (k - S - 1))
                           /\ k > S + 1 => i = Wrap(use' + (k - (S + 1) - 1))
    <3> DEFINE i == Wrap(use + (k - S - 1))
    <3>1. i \in Slots /\ (k > S + 1 => i = Wrap(use' + (k - (S + 1) - 1)))
      <4> HIDE DEF S, H
      <4> QED BY <1>2, <1>5, <2>2 DEF Wrap, Slots
    <3> QED BY <3>1, Zenon
  <2>4. Holding(i, k)'
    BY <1>1, <1>2, <2>1, <2>3, Zenon DEF Holding
  <2> QED BY <2>3, <2>4, Zenon
<1>6. Queue'
  <2>1. (Len(handed) = Len(served) + Unanswered)'
    BY <1>1, <1>4, Zenon DEF TurnInv, Queue
  <2>2. fill = Wrap(use' + (H - (S + 1)))
    <3>1. fill = Wrap(use + (H - S))
      BY <1>4 DEF TurnInv, Queue
    <3> HIDE DEF S, H
    <3> QED BY <1>2, <1>4, <3>1 DEF Wrap, Slots
  <2>3. ASSUME NEW k \in 1..H, k > S + 1
        PROVE  \E i \in Slots : i = Wrap(use' + (k - (S + 1) - 1)) /\ Holding(i, k)'
    <3>1. k > S
      BY <1>2, <2>3
    <3> QED BY <1>5, <2>3, <3>1, Zenon
  <2>4. (fill = Wrap(use + (Len(handed) - Taken)))'
    BY <1>1, <1>4, <2>2 DEF Wrap
  <2>5. (\A k \in 1..Len(handed) : k > Taken => Holding(Wrap(use + (k - Taken - 1)), k))'
    BY <1>1, <1>4, <2>3, ZenonT(30) DEF Wrap, Holding
  <2> QED BY <2>1, <2>4, <2>5, SMTT(30) DEF Queue
<1>7. AtWork(w)'
  <2>1. S + 1 \in 1..H /\ Wrap(use + ((S + 1) - S - 1)) = use
    <3> HIDE DEF S, H
    <3> QED BY <1>2, <1>4 DEF Wrap, Slots
  <2>2. PICK k \in 1..H : k = S + 1 /\ k > S
    BY <1>2, <2>1
  <2>3. PICK i \in Slots : i = use /\ Holding(i, k)'
    BY <1>5, <2>1, <2>2, Zenon
  <2>4. Holding(useCopy[w], Len(served) + 1)'
    BY <1>1, <1>2, <2>2, <2>3, Zenon DEF Holding
  <2> QED BY <1>1, <1>2, <1>3, <2>4, Zenon DEF AtWork, Wrap
<1>8. Distinct'
  BY <1>1, <1>3, Zenon DEF TurnInv, Distinct
<1>9. \A v \in Workers : AtWork(v)'
  BY <1>3, <1>7, Zenon DEF AtWork
<1> QED BY <1>1, <1>2, <1>6, <1>8, <1>9 DEF TurnInv

\* Line 44: the answer goes to the connection whose turn it is.
LEMMA AnswerKeeps ==
  ASSUME Types, Accounting, InTurn, TurnInv, NEW w \in Workers, Serve(w), pc[w] = "44"
  PROVE  TurnInv'
<1> USE DEF PostStep, LocalStep, Goto, options, slots
<1> DEFINE H == Len(handed)  S == Len(served)  c == owner[buffer[useCopy[w]].fd]
<1>1. /\ UNCHANGED <<buffers, buffer, use, fill, conn_fd, useCopy, owner, accepted, handed, sem>>
      /\ pc' = [pc EXCEPT ![w] = "49"] /\ served' = Append(served, c)
  BY DEF Serve
<1>2. /\ Workers' = Workers /\ buffers \in Nat \ {0} /\ use \in Slots /\ H \in Nat /\ S \in Nat
      /\ handed \in Seq(0..MaxConns) /\ served \in Seq(0..MaxConns)
  BY <1>1 DEF Types, TypeData, Workers
<1>3. /\ pc'["main"] = pc["main"] /\ pc'[w] = "49"
      /\ \A v \in Workers : v # w => pc'[v] = "15"
      /\ AWorkerAt({"39", "44"}) /\ ~AWorkerAt({"39", "44"})'
      /\ AWorkerAt({"16", "18", "39", "44"}) /\ ~AWorkerAt({"16", "18", "39", "44"})'
  <2>1. /\ "49" \in WorkerLines \ {"15"} /\ pc[w] # "15"
        /\ {"39", "44"} \in SUBSET (WorkerLines \ {"15"})
        /\ {"16", "18", "39", "44"} \in SUBSET (WorkerLines \ {"15"})
    BY DEF WorkerLines
  <2>2. /\ pc'["main"] = pc["main"] /\ pc'[w] = "49"
        /\ \A v \in Workers : v # w => pc'[v] = "15"
        /\ \A lines \in SUBSET (WorkerLines \ {"15"}) :
              /\ AWorkerAt(lines) <=> pc[w] \in lines
              /\ AWorkerAt(lines)' <=> "49" \in lines
    BY <1>1, <1>2, <2>1, Alone, ZenonT(30)
  <2> QED BY <2>1, <2>2
<1>4. /\ Taken = S + 1 /\ S + 1 \in 1..H /\ Unanswered = Unanswered' + 1 /\ Unanswered' \in Nat
  <2>1. Taken = S + 1 /\ Taken <= H
    BY <1>3, Backlog, Zenon DEF Taken, One
  <2>2. Unanswered = sem["full"] + One(pc["main"] \in {"125", "126"}) + 1
        /\ Unanswered' = sem["full"] + One(pc["main"] \in {"125", "126"}) + 0
    BY <1>1, <1>3 DEF Unanswered, One
  <2>3. sem["full"] \in Nat /\ One(pc["main"] \in {"125", "126"}) \in Nat
    BY DEF Types, TypeControl, One
  <2>4. S + 1 \in 1..H
    <3> HIDE DEF H, S
    <3> QED BY <1>2, <2>1
  <2> QED BY <2>1, <2>2, <2>3, <2>4
<1>5. /\ c = handed[S + 1] /\ c \in 0..MaxConns /\ Holding(useCopy[w], S + 1)
      /\ use = Wrap(useCopy[w] + 1)
  <2>1. Holding(useCopy[w], S + 1) /\ use = Wrap(useCopy[w] + 1)
    BY DEF TurnInv, AtWork
  <2>2. handed[S + 1] \in 0..MaxConns
    <3>1. \A k \in 1..H : handed[k] \in 0..MaxConns
      BY <1>2, Elements, ZenonT(30)
    <3> QED BY <1>4, <3>1
  <2> QED BY <2>1, <2>2, Zenon DEF Holding
<1>6. /\ Len(served') = S + 1 /\ \A k \in 1..S : served'[k] = served[k]
      /\ served'[S + 1] = c
  BY <1>1, <1>2, <1>5, Appended
<1>7. Taken' = Taken
  BY <1>3, <1>4, <1>6 DEF Taken, One
<1>8. Queue'
  <2>1. (Len(handed) = Len(served) + Unanswered)'
    <3>1. H = S + Unanswered
      BY DEF TurnInv, Queue
    <3>2. H = (S + 1) + Unanswered'
      <4> HIDE DEF H, S
      <4> QED BY <1>2, <1>4, <3>1
    <3> QED BY <1>1, <1>6, <3>2, Zenon
  <2>2. (fill = Wrap(use + (Len(handed) - Taken)))'
    BY <1>1, <1>7, SMTT(30) DEF TurnInv, Queue, Wrap
  <2>3. (\A k \in 1..Len(handed) : k > Taken => Holding(Wrap(use + (k - Taken - 1)), k))'
    BY <1>1, <1>7, Zenon DEF TurnInv, Queue, Wrap, Holding
  <2> QED BY <2>1, <2>2, <2>3, Zenon DEF Queue
<1>9. Distinct'
  BY <1>1, <1>3, Zenon DEF TurnInv, Distinct
<1>10. \A v \in Workers : AtWork(v)'
  <2>1. AtWork(w)'
    BY <1>1, <1>2, <1>3, <1>5, <1>6, SMTT(30) DEF AtWork, Holding, Wrap
  <2> QED BY <1>3, <2>1, SMTT(30) DEF AtWork
<1>11. \A k \in 1..Len(served') : served'[k] = handed'[k]
  <2> TAKE k \in 1..Len(served')
  <2>1. k \in 1..S \/ k = S + 1
    <3> HIDE DEF S
    <3> QED BY <1>2, <1>6
  <2> QED BY <1>1, <1>5, <1>6, <2>1, ZenonT(30) DEF TurnInv
<1> QED BY <1>2, <1>8, <1>9, <1>10, <1>11, Zenon DEF TurnInv

\* Main writes to a slot that no worker is at work on.
LEMMA FillIsFree ==
  ASSUME Types, Accounting, InTurn, TurnInv, pc["main"] = "118"
  PROVE  /\ fill = Wrap(use + (Len(handed) - Taken)) /\ Len(handed) - Taken \in 0..(buffers - 1)
         /\ \A w \in Workers : pc[w] \in {"39", "44", "49"} => useCopy[w] # fill
<1> DEFINE n == Len(handed) - Taken
<1>1. buffers \in Nat \ {0} /\ use \in Slots /\ fill = Wrap(use + n)
  BY DEF TurnInv, Queue, Types, TypeData
<1>2. n + One(AWorkerAt({"39", "44", "49", "50"})) + 1 <= buffers /\ n \in 0..buffers
  BY Backlog DEF One
<1>3. n \in 0..(buffers - 1) /\ (AWorkerAt({"39", "44", "49", "50"}) => n < buffers - 1)
  <2> HIDE DEF n
  <2>1. CASE AWorkerAt({"39", "44", "49", "50"})
    BY <1>1, <1>2, <2>1 DEF One
  <2>2. CASE ~AWorkerAt({"39", "44", "49", "50"})
    BY <1>1, <1>2, <2>2 DEF One
  <2> QED BY <2>1, <2>2
<1>4. ASSUME NEW w \in Workers, pc[w] \in {"39", "44", "49"} PROVE useCopy[w] # fill
  <2>1. AWorkerAt({"39", "44", "49", "50"}) /\ use = Wrap(useCopy[w] + 1) /\ useCopy[w] \in Slots
    BY <1>4 DEF AWorkerAt, AtWork, TurnInv, Types, TypeData
  <2> HIDE DEF n
  <2> QED BY <1>1, <1>3, <2>1 DEF Wrap, Slots
<1> QED BY <1>1, <1>3, <1>4, Zenon

\* Lines 118-124: the connection goes into a slot that nobody uses.
LEMMA HandKeeps ==
  ASSUME Types, Accounting, InTurn, TurnInv, pre_handle, pc'["main"] = "125"
  PROVE  TurnInv'
<1> USE DEF LocalStep, Goto, options, kernel
<1> DEFINE H == Len(handed)  S == Len(served)  n == H - Taken
<1>1. /\ UNCHANGED <<buffers, use, conn_fd, useCopy, owner, accepted, served, sem>>
      /\ pc["main"] = "118" /\ pc' = [pc EXCEPT !["main"] = "125"]
      /\ \E z \in Sizes : buffer' = [buffer EXCEPT ![fill] = [fd |-> conn_fd, size |-> z, handling |-> 0]]
      /\ fill' = (fill + 1) % buffers /\ handed' = Append(handed, owner[conn_fd])
  BY Zenon DEF pre_handle, Types, TypeControl
<1>2. /\ Workers' = Workers /\ buffers \in Nat \ {0} /\ use \in Slots /\ fill \in Slots
      /\ H \in Nat /\ S \in Nat /\ Taken \in Nat
      /\ handed \in Seq(0..MaxConns) /\ owner[conn_fd] \in 0..MaxConns /\ conn_fd \in Fds
      /\ owner[conn_fd] = accepted
  BY <1>1, Backlog, Zenon DEF Types, TypeControl, TypeData, Workers, TurnInv, Distinct
<1>3. /\ \A w \in Workers : pc'[w] = pc[w]
      /\ \A lines : AWorkerAt(lines)' <=> AWorkerAt(lines)
  <2>1. \A w \in Workers : pc'[w] = pc[w]
    BY <1>1, Zenon DEF Types, TypeControl
  <2> QED BY <1>2, <2>1 DEF AWorkerAt
<1>4. /\ buffer'[fill].fd = conn_fd
      /\ \A i \in Slots : i # fill => buffer'[i] = buffer[i]
  BY <1>1, <1>2 DEF Types, TypeData
<1>5. /\ Len(handed') = H + 1 /\ \A k \in 1..H : handed'[k] = handed[k]
      /\ handed'[H + 1] = accepted
  BY <1>1, <1>2, Appended
<1>6. Taken' = Taken
  BY <1>1, <1>3, Zenon DEF Taken, One
<1>7. fill = Wrap(use + n) /\ n \in 0..(buffers - 1)
  BY <1>1, FillIsFree, Zenon
<1>8. \A i \in Slots : \A k \in 1..H : i # fill /\ Holding(i, k) => Holding(i, k)'
  BY <1>1, <1>4, <1>5, Zenon DEF Holding
<1>9. Queue'
  <2>1. (Len(handed) = Len(served) + Unanswered)'
    <3>1. H = S + Unanswered
      BY Zenon DEF TurnInv, Queue
    <3>2. Unanswered = sem["full"] + 0 + One(AWorkerAt({"16", "18", "39", "44"}))
          /\ Unanswered' = sem["full"] + 1 + One(AWorkerAt({"16", "18", "39", "44"}))
      BY <1>1, <1>3, Zenon DEF Unanswered, One, Types, TypeControl
    <3>3. sem["full"] \in Nat /\ One(AWorkerAt({"16", "18", "39", "44"})) \in Nat
      BY DEF Types, TypeControl, One
    <3>4. Unanswered' = Unanswered + 1 /\ Unanswered \in Nat
      BY <3>2, <3>3
    <3>5. H + 1 = S + Unanswered'
      <4> HIDE DEF H, S
      <4> QED BY <1>2, <3>1, <3>4
    <3> QED BY <1>1, <1>5, <3>5, Zenon
  <2>2. fill' = Wrap(use + (H + 1 - Taken))
    <3>1. fill' = Wrap(fill + 1)
      BY <1>1, <1>2, NextSlot
    <3>2. n + 1 = H + 1 - Taken
      <4> HIDE DEF H
      <4> QED BY <1>2
    <3>3. Wrap(fill + 1) = Wrap(use + (n + 1))
      <4> HIDE DEF n
      <4> QED BY <1>2, <1>7 DEF Wrap, Slots
    <3> QED BY <3>1, <3>2, <3>3, Zenon
  <2>3. ASSUME NEW k \in 1..(H + 1), k > Taken
        PROVE  \E i \in Slots : i = Wrap(use + (k - Taken - 1)) /\ Holding(i, k)'
    <3>1. CASE k = H + 1
      <4>1. fill = Wrap(use + (k - Taken - 1))
        <5>1. k - Taken - 1 = n
          <6> HIDE DEF H
          <6> QED BY <1>2, <3>1
        <5> QED BY <1>7, <5>1
      <4>2. PICK i \in Slots : i = fill
        BY <1>2, Zenon
      <4>3. Holding(i, k)'
        BY <1>1, <1>2, <1>4, <1>5, <3>1, <4>2, Zenon DEF Holding
      <4> QED BY <4>1, <4>2, <4>3
    <3>2. CASE k \in 1..H
      <4>1. k - Taken - 1 \in 0..(n - 1)
        <5> HIDE DEF H
        <5> QED BY <1>2, <2>3, <3>2
      <4>2. PICK i \in Slots : i = Wrap(use + (k - Taken - 1)) /\ i # fill
        <5> DEFINE j == k - Taken - 1
        <5>1. Wrap(use + j) \in Slots /\ Wrap(use + j) # fill
          <6>1. buffers \in Nat \ {0} /\ use \in Slots
            BY <1>2
          <6> HIDE DEF n, j
          <6>2. j \in 0..buffers /\ n \in 0..buffers /\ j < n /\ n # buffers
            BY <1>7, <4>1, <6>1 DEF j
          <6> QED BY <1>7, <6>1, <6>2, Around, Zenon
        <5> QED BY <5>1, Zenon
      <4>3. Holding(i, k)
        BY <2>3, <3>2, <4>2 DEF TurnInv, Queue
      <4> QED BY <1>8, <3>2, <4>2, <4>3, Zenon
    <3>3. k = H + 1 \/ k \in 1..H
      <4> HIDE DEF H
      <4> QED BY <1>2
    <3> QED BY <3>1, <3>2, <3>3
  <2>4. (fill = Wrap(use + (Len(handed) - Taken)))'
    <3>1. PICK h \in Nat : h = H + 1
      <4> HIDE DEF H
      <4> QED BY <1>2
    <3>2. PICK t \in Nat : t = Taken
      BY <1>2, Zenon
    <3>3. Len(handed') = h /\ Taken' = t /\ use' = use /\ buffers' = buffers
      BY <1>1, <1>5, <1>6, <3>1, <3>2, Zenon
    <3>4. fill' = Wrap(use + (h - t))
      BY <2>2, <3>1, <3>2, SMTT(30)
    <3> QED BY <3>3, <3>4 DEF Wrap
  <2>5. (\A k \in 1..Len(handed) : k > Taken => Holding(Wrap(use + (k - Taken - 1)), k))'
    BY <1>1, <1>5, <1>6, <2>3, SMTT(30) DEF Wrap, Holding
  <2> QED BY <2>1, <2>4, <2>5, Zenon DEF Queue
<1>10. ASSUME NEW w \in Workers PROVE AtWork(w)'
  <2>0. /\ S + 1 \in 1..(H + 1) /\ (AWorkerAt({"39", "44"}) => S + 1 \in 1..H) /\ (S > 0 => S \in 1..H)
    <3>1. Taken <= H /\ Taken = S + One(AWorkerAt({"39", "44"}))
      BY Backlog, Zenon DEF Taken
    <3> HIDE DEF H, S
    <3> QED BY <1>2, <3>1 DEF One
  <2>1. useCopy[w] \in Slots /\ AtWork(w) /\ pc'[w] = pc[w]
    BY <1>3, Zenon DEF TurnInv, Types, TypeData
  <2>2. pc[w] \in {"39", "44", "49"} => useCopy[w] # fill
    BY <1>1, FillIsFree, SMTT(30)
  <2>3. ASSUME pc[w] \in {"39", "44"} PROVE Holding(useCopy[w], Len(served) + 1)'
    <3>1. PICK k \in 1..H, i \in Slots : k = S + 1 /\ i = useCopy[w] /\ i # fill /\ Holding(i, k)
      BY <2>0, <2>1, <2>2, <2>3, Zenon DEF AtWork, AWorkerAt
    <3>2. Holding(i, k)'
      BY <1>8, <3>1, SMTT(30)
    <3> QED BY <1>1, <3>1, <3>2, Zenon DEF Holding
  <2>4. ASSUME pc[w] = "49" PROVE Len(served') > 0 /\ Holding(useCopy[w], Len(served))'
    <3>1. PICK k \in 1..H, i \in Slots : k = S /\ k > 0 /\ i = useCopy[w] /\ i # fill /\ Holding(i, k)
      BY <2>0, <2>1, <2>2, <2>4, Zenon DEF AtWork
    <3>2. Holding(i, k)'
      BY <1>8, <3>1
    <3> QED BY <1>1, <3>1, <3>2, Zenon DEF Holding
  <2>5. pc[w] \in {"39", "44", "49"} => use = Wrap(useCopy[w] + 1)
    BY <2>1, Zenon DEF AtWork
  <2> QED BY <1>1, <2>1, <2>3, <2>4, <2>5, Zenon DEF AtWork, Wrap
<1>11. Distinct'
  <2>1. /\ \A k \in 1..H : handed[k] < accepted /\ handed[k] \in Nat /\ 0 < handed[k]
        /\ accepted \in Nat /\ accepted > 0
    BY <1>1, <1>2, Elements, WServerConstants DEF TurnInv, Distinct, Types, TypeData
  <2>2. \A k \in 1..(H + 1) : k \in 1..H \/ k = H + 1
    <3> HIDE DEF H
    <3> QED BY <1>2
  <2>3. \A i, j \in 1..(H + 1) : handed'[i] = handed'[j] => i = j
    BY <1>5, <2>1, <2>2 DEF TurnInv, Distinct
  <2>4. \A k \in 1..(H + 1) : 0 < handed'[k] /\ handed'[k] <= accepted
    BY <1>5, <2>1, <2>2
  <2> QED BY <1>1, <1>5, <2>3, <2>4, SMTT(30) DEF TurnInv, Distinct
<1>12. \A k \in 1..S : served'[k] = handed'[k]
  <2>1. \A k \in 1..S : k \in 1..H
    <3>1. Taken <= H /\ Taken \in {S, S + 1}
      BY Backlog DEF Taken, One
    <3> HIDE DEF H, S
    <3> QED BY <1>2, <3>1
  <2> QED BY <1>1, <1>5, <2>1, Zenon DEF TurnInv
<1> QED BY <1>1, <1>2, <1>9, <1>10, <1>11, <1>12, ZenonT(30) DEF TurnInv
-----------------------------------------------------------------------------
\* IInv is an invariant of the program.
LEMMA Invariance == Spec => []IInv
<1>1. Init => IInv
  BY InitIInv
<1>2. (Types /\ Accounting /\ InTurn => OneBusy)'
  BY OneIsBusy, PTL
<1>3. IInv /\ [Next]_vars => IInv'
  <2> SUFFICES ASSUME IInv, [Next]_vars PROVE IInv'
    OBVIOUS
  <2>1. Types /\ MutexInv /\ Accounting /\ (InTurn => TurnInv)
    BY DEF IInv
  <2>2. Types' /\ MutexInv' /\ Accounting' /\ (InTurn' <=> InTurn)
    BY <2>1, ControlStep, DataStep, MutexStep, AccountingStep, OptionsKept, Zenon DEF Types, InTurn
  <2>3. ASSUME InTurn PROVE TurnInv'
    <3>1. OneBusy'
      BY <1>2, <2>2, <2>3, SMTT(30)
    <3>2. CASE UNCHANGED vars
      BY <2>1, <2>3, <3>2, ZenonT(30)
         DEF vars, options, slots, kernel, TurnInv, Distinct, Queue, Unanswered, AtWork, Taken, Holding, Wrap, One, AWorkerAt, Workers
    <3>3. pre_handle => pc'["main"] \in {"119", "125"}
      BY <2>1, ZenonT(30) DEF pre_handle, LocalStep, Goto, Types, TypeControl
    <3>4. \A w \in Workers : Serve(w) => pc[w] \in {"44", "49", "50"}
      BY ZenonT(30) DEF Serve, LocalStep, PostStep, Goto
    <3> QED BY <2>1, <2>3, <3>1, <3>2, <3>3, <3>4, Steps, AcceptKeeps, MainKeeps, HandKeeps,
               WorkerSemsKeep, TakeKeeps, AnswerKeeps, CloseKeeps, Zenon
  <2> QED BY <2>2, <2>3 DEF IInv
<1> QED BY <1>1, <1>3, PTL DEF Spec

\* The threads are at lines of their own, the indices within the buffer and the
\* semaphores within their bounds.
THEOREM TypeCorrect == Spec => []TypeOK
<1>1. IInv => TypeOK
  <2> SUFFICES ASSUME IInv PROVE TypeOK
    OBVIOUS
  <2>1. Types /\ MutexInv /\ Accounting
    BY DEF IInv
  <2>2. sem["full"] \in Nat /\ sem["empty"] \in Nat /\ buffers \in Nat /\ Cardinality(Busy) \in Nat /\ MainBusy \in Nat
    BY <2>1, FS_Subset, FS_CardinalityType DEF Types, TypeControl, TypeData, Busy, MainBusy
  <2>3. sem["full"] \in 0..buffers /\ sem["empty"] \in 0..buffers
    BY <2>1, <2>2 DEF Accounting
  <2> QED BY <2>1, <2>3, Zenon DEF Types, TypeControl, TypeData, MutexInv, TypeOK, SlotType, MainLines, WorkerLines
<1> QED BY <1>1, Invariance, PTL

\* The places of the buffer add up, whatever the options and whatever main
\* accepts, rejects or fails to accept, and one thread at a time is at the lines
\* between Zem_wait(&mutex) and Zem_post(&mutex).
THEOREM PlacesAddUp == Spec => [](Accounting /\ MutexInv)
BY Invariance, PTL DEF IInv

\* With one slot, or one worker in FIFO order, the requests are answered in the
\* order in which main put them into the buffer, each on its own connection.
THEOREM AnsweredInOrder == Spec => []InOrder
<1>1. IInv => InOrder
  <2> SUFFICES ASSUME IInv, InTurn
               PROVE  Len(served) <= Len(handed) /\ \A k \in 1..Len(served) : served[k] = handed[k]
    BY DEF InOrder
  <2>1. Types /\ Accounting /\ TurnInv
    BY DEF IInv
  <2>2. \A k \in 1..Len(served) : served[k] = handed[k]
    BY <2>1 DEF TurnInv
  <2>3. Len(served) <= Len(handed)
    <3> DEFINE H == Len(handed)  S == Len(served)
    <3>1. H \in Nat /\ S \in Nat /\ Taken \in {S, S + 1} /\ Taken <= H
      BY <2>1, Backlog DEF Taken, One
    <3>2. S <= H
      <4> HIDE DEF H, S
      <4> QED BY <3>1
    <3> QED BY <3>2, Zenon
  <2> QED BY <2>2, <2>3
<1> QED BY <1>1, Invariance, PTL

\* Whatever the options, the buffer is kept in order by main and the workers.
THEOREM BufferIsRight == Spec => []BufferRight
BY TypeCorrect, PlacesAddUp, AnsweredInOrder, PTL DEF BufferRight

\* With one slot, or one worker in FIFO order, nobody writes the slot that a
\* worker is serving: then, and as the run wserver_overwrite shows only then,
\* the note at lines 112-115 is true.
THEOREM SynchronisedInTurn == Spec => [][InTurn => \A w \in Workers : KeepsSlot(w)]_vars
<1>1. IInv /\ [Next]_vars => [InTurn => \A w \in Workers : KeepsSlot(w)]_vars
  <2> SUFFICES ASSUME IInv, [Next]_vars, InTurn, NEW w \in Workers, pc[w] \in {"39", "44", "49"}
               PROVE  buffer'[useCopy[w]] = buffer[useCopy[w]]
    BY DEF KeepsSlot
  <2>1. Types /\ Accounting /\ TurnInv
    BY Zenon DEF IInv
  <2>2. CASE UNCHANGED buffer
    BY <2>2, Zenon
  <2>3. CASE pre_handle
    <3>1. pc["main"] = "118"
      BY <2>3, ZenonT(30) DEF pre_handle, LocalStep, Goto
    <3>2. useCopy[w] # fill
      BY <2>1, <3>1, FillIsFree
    <3> QED BY <2>1, <2>3, <3>2, SMTT(30) DEF pre_handle, Types, TypeData
  <2>4. ASSUME NEW v \in Workers, TakeSlot(v) PROVE FALSE
    <3>1. pc[v] = "18"
      BY <2>4 DEF TakeSlot, LocalStep, Goto
    <3> QED BY <2>1, <3>1, OneIsBusy DEF OneBusy, Busy
  <2> QED BY <2>2, <2>3, <2>4, Steps, ZenonT(30)
          DEF vars, slots, accept, read_headers_HungUp, MainSems, WorkerSems, Serve
<1> QED BY <1>1, Invariance, PTL DEF Spec
=============================================================================
