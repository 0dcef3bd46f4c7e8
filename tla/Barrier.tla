------------------------------- MODULE Barrier -------------------------------
(***************************************************************************)
(* 31/barrier.c: the reusable barrier of two turnstiles, its children, and *)
(* the main thread that opens the semaphores, creates and joins them.      *)
(* Labels are line numbers of barrier.c.                                   *)
(***************************************************************************)
EXTENDS NamedSem, ThreadCount, FiniteSetTheorems, TLAPS

CONSTANTS Threads,     \* the children
          Rounds,      \* times each child calls barrier()
          MaxKills     \* bound on how often the process is killed and rerun

VARIABLES num_arrived,  \* barrier_t.num_arrived
          i,            \* i[t]: the loop variable of thread t
          round,        \* round[t]: which call of barrier() thread t is at
          kills,
          stale         \* some name of this run was left behind by an earlier one

vars == <<pc, sem, shm, boot, num_arrived, i, round, kills, stale>>
mainVars == <<shm, boot, kills, stale>>

num_threads == Cardinality(Threads)

Names == <<"mutex", "turnstile1", "turnstile2">>

\* barrier_init asks for a free mutex and two closed turnstiles.
InitialValue == [mutex |-> 1, turnstile1 |-> 0, turnstile2 |-> 0]

NoChildren == pc' = [t \in Threads |-> "none"]

Init ==
  /\ SemInit(Names)
  /\ pc = [t \in Threads |-> "none"]
  /\ num_arrived = 0
  /\ i = [t \in Threads |-> 0]
  /\ round = [t \in Threads |-> 1]
  /\ kills = 0
  /\ stale = FALSE
-----------------------------------------------------------------------------
(* barrier() *)

\* One turn of the loop that posts a turnstile num_threads times.
PostLoop(t, at, turnstile, next) ==
  IF i[t] < num_threads
  THEN PostStep(t, at, turnstile, at) /\ i' = [i EXCEPT ![t] = @ + 1]
  ELSE LocalStep(t, at, next) /\ i' = [i EXCEPT ![t] = 0]

\* Lines 55-74: arrive; the last one opens turnstile 1 for everybody.
Arrive(t) ==
  \/ WaitStep(t, "55", "mutex", "56") /\ UNCHANGED <<num_arrived, i>>
  \/ /\ LocalStep(t, "56", IF num_arrived + 1 = num_threads THEN "59" ELSE "74")
     /\ num_arrived' = num_arrived + 1
     /\ UNCHANGED i
  \/ PostLoop(t, "59", "turnstile1", "74") /\ UNCHANGED num_arrived
  \/ PostStep(t, "74", "mutex", "78") /\ UNCHANGED <<num_arrived, i>>

\* Lines 78-103: pass turnstile 1; the last one through opens turnstile 2.
Pass(t) ==
  \/ WaitStep(t, "78", "turnstile1", "85") /\ UNCHANGED <<num_arrived, i>>
  \/ WaitStep(t, "85", "mutex", "86") /\ UNCHANGED <<num_arrived, i>>
  \/ /\ LocalStep(t, "86", IF num_arrived - 1 = 0 THEN "98" ELSE "103")
     /\ num_arrived' = num_arrived - 1
     /\ UNCHANGED i
  \/ PostLoop(t, "98", "turnstile2", "103") /\ UNCHANGED num_arrived
  \/ PostStep(t, "103", "mutex", "107") /\ UNCHANGED <<num_arrived, i>>

\* Line 107: leave through turnstile 2.
Leave(t) == WaitStep(t, "107", "turnstile2", "after") /\ UNCHANGED <<num_arrived, i>>

\* child(): "before" and "after" are the points at which it prints them.
Child(t) ==
  /\ \/ Arrive(t) /\ UNCHANGED round
     \/ Pass(t) /\ UNCHANGED round
     \/ Leave(t) /\ UNCHANGED round
     \/ LocalStep(t, "before", "55") /\ UNCHANGED <<num_arrived, i, round>>
     \/ /\ LocalStep(t, "after", IF round[t] < Rounds THEN "before" ELSE "done")
        /\ round' = [round EXCEPT ![t] = IF @ < Rounds THEN @ + 1 ELSE @]
        /\ UNCHANGED <<num_arrived, i>>
  /\ UNCHANGED mainVars
-----------------------------------------------------------------------------
(* main() *)

\* barrier_init: the three Sem_opens; num_arrived is already 0.
OpenAll ==
  /\ Sem_open(Names, InitialValue)
  /\ stale' = (stale \/ boot'.at = "reopen")
  /\ UNCHANGED <<pc, num_arrived, i, round, kills>>

CreateChildren ==
  /\ boot.at = "create"
  /\ boot' = MainAt("join", 1)
  /\ pc' = [t \in Threads |-> "before"]
  /\ UNCHANGED <<sem, shm, num_arrived, i, round, kills, stale>>

JoinChildren ==
  /\ boot.at = "join"
  /\ \A t \in Threads : pc[t] = "done"
  /\ boot' = MainAt("unlink", 1)
  /\ UNCHANGED <<pc, sem, shm, num_arrived, i, round, kills, stale>>

UnlinkAll ==
  /\ Sem_unlink(Names)
  /\ UNCHANGED <<pc, num_arrived, i, round, kills, stale>>

Main == OpenAll \/ CreateChildren \/ JoinChildren \/ UnlinkAll

\* The user kills the program and runs it again.
KillAndRerun ==
  /\ kills < MaxKills
  /\ kills' = kills + 1
  /\ Kill
  /\ NoChildren
  /\ num_arrived' = 0
  /\ i' = [t \in Threads |-> 0]
  /\ round' = [t \in Threads |-> 1]
  /\ stale' = FALSE

Terminated == boot.at = "end" /\ UNCHANGED vars

Next == Main \/ KillAndRerun \/ Terminated \/ \E t \in Threads : Child(t)

Spec == Init /\ [][Next]_vars
-----------------------------------------------------------------------------
TypeOK ==
  /\ pc \in [Threads -> {"none", "before", "55", "56", "59", "74", "78", "85",
                         "86", "98", "103", "107", "after", "done"}]
  /\ sem.mutex \in 0..1
  /\ ~stale => sem.turnstile1 \in 0..num_threads /\ sem.turnstile2 \in 0..num_threads
  /\ num_arrived \in 0..num_threads
  /\ shm \subseteq {"mutex", "turnstile1", "turnstile2"}
  /\ stale \in BOOLEAN

\* barrier.c:6-8, "each child should print their "before" message before
\* either prints their "after" message", for every call of barrier(), in a
\* run that did not find a name left behind by a killed one.
BeforeAfter ==
  ~stale => \A t, u \in Threads :
    pc[t] = "after" =>
      \/ round[u] > round[t]
      \/ round[u] = round[t] /\ pc[u] \notin {"none", "before"}
      \/ pc[u] = "done"

\* A fast child that is already back at the barrier cannot use up a token
\* meant for a slow one: outside the posting loops a turnstile is closed, or
\* holds exactly one token for each child that still has to pass it.
TokensBelong ==
  ~stale /\ (\A t \in Threads : pc[t] \notin {"59", "98"}) =>
    /\ sem.turnstile1 \in {0, Cardinality({t \in Threads : pc[t] \in {"74", "78"}})}
    /\ sem.turnstile2 \in {0, Cardinality({t \in Threads : pc[t] \in {"103", "107"}})}

\* One child at a time updates num_arrived and runs a posting loop, also in a
\* run that starts from the names a killed run left behind: the semaphore
\* mutex is the one whose intended value is the 1 that Sem_open falls back to.
CounterExclusive ==
  LET inside == {"56", "59", "74", "86", "98", "103"}
  IN  \A t, u \in Threads : pc[t] \in inside /\ pc[u] \in inside => t = u

\* main has ended and left no semaphore in /dev/shm.
Clean == boot.at = "end" /\ shm = {}
-----------------------------------------------------------------------------
(***************************************************************************)
(* The inductive invariant of the barrier, and the proof that it implies   *)
(* the properties above.                                                   *)
(***************************************************************************)
\* barrier.c:131, assert(num_threads > 0).
Setting == IsFiniteSet(Threads) /\ Threads # {} /\ Rounds \in Nat \ {0}

BLabels == {"none", "before", "55", "56", "59", "74", "78", "85", "86", "98", "103", "107", "after", "done"}
BSems == {"mutex", "turnstile1", "turnstile2"}
BBefore == {"none", "before", "55", "56"}
BArrived == {"59", "74", "78", "85", "86"}
BLeaving == {"98", "103", "107"}
BInside == {"56", "59", "74", "86", "98", "103"}

BBoots == [at : {"open", "reopen", "create", "join", "unlink", "end"}, k : 1..3]

BTypes ==
  /\ pc \in [Threads -> BLabels] /\ sem \in [BSems -> Nat]
  /\ boot \in BBoots
  /\ shm \subseteq BSems /\ stale \in BOOLEAN
  /\ num_arrived \in Nat /\ i \in [Threads -> Nat] /\ round \in [Threads -> Nat]

\* The children at one of the statements L, and their number.
BAt(L) == {t \in Threads : pc[t] \in L}
BCnt(L) == Cardinality(BAt(L))

\* The semaphore mutex is binary and its holder is alone.
BMutex ==
  /\ sem["mutex"] \in 0..1
  /\ \A t, u \in Threads : pc[t] \in BInside /\ pc[u] \in BInside => t = u
  /\ sem["mutex"] = 1 => \A t \in Threads : pc[t] \notin BInside

\* num_arrived counts the children between lines 56 and 86, and a posting loop
\* posts at most num_threads times.
BCounts ==
  /\ num_arrived = BCnt(BArrived)
  /\ \A t \in Threads : i[t] <= num_threads /\ (pc[t] \notin {"59", "98"} => i[t] = 0)

\* Until main has created the children nothing has happened.
BBoot ==
  boot.at \in {"open", "reopen", "create"} =>
    /\ \A t \in Threads : pc[t] = "none" /\ round[t] = 1
    /\ ~stale => sem["turnstile1"] = 0 /\ sem["turnstile2"] = 0 /\ boot.at # "reopen"

\* How often child t has arrived.
BArrivals(t) == round[t] - One(pc[t] \in BBefore)

\* The four phases of a round of the barrier.  The children gather before
\* turnstile 1, while the tokens of turnstile 2 are for those that still have
\* to leave the last round;
BGather ==
  /\ \A t \in Threads : pc[t] \notin {"59", "85", "86", "98"}
  /\ \E t \in Threads : pc[t] \notin BArrived
  /\ sem["turnstile1"] = 0 /\ sem["turnstile2"] = BCnt({"103", "107"})
  /\ \A t, u \in Threads : BArrivals(t) - One(pc[t] \in BArrived) = BArrivals(u) - One(pc[u] \in BArrived)

\* the last one to arrive posts turnstile 1;
BPost1 ==
  \E p \in Threads :
    /\ pc[p] = "59" /\ \A t \in Threads : t # p => pc[t] \in {"78", "85"}
    /\ sem["turnstile1"] + BCnt({"85"}) = i[p] /\ sem["turnstile2"] = 0
    /\ \A t, u \in Threads : BArrivals(t) = BArrivals(u)

\* every child has its token for turnstile 1;
BDrain ==
  /\ \A t \in Threads : pc[t] \in {"74", "78", "85", "86", "103", "107"}
  /\ \E t \in Threads : pc[t] \in BArrived
  /\ sem["turnstile1"] = BCnt({"74", "78"}) /\ sem["turnstile2"] = 0
  /\ \A t, u \in Threads : BArrivals(t) = BArrivals(u)

\* the last one to pass it posts turnstile 2.
BPost2 ==
  \E p \in Threads :
    /\ pc[p] = "98" /\ \A t \in Threads : t # p => pc[t] \notin BArrived \cup {"98", "103"}
    /\ sem["turnstile1"] = 0 /\ sem["turnstile2"] + (num_threads - BCnt(BLeaving)) = i[p]
    /\ \A t, u \in Threads : BArrivals(t) = BArrivals(u)

BPhases == ~stale => BGather \/ BPost1 \/ BDrain \/ BPost2

BInv == BTypes /\ BMutex /\ BCounts /\ BBoot /\ BPhases

\* Counting the children at some statements.
BCountFacts ==
  \A L : /\ BCnt(L) \in 0..num_threads
         /\ BCnt(L) = 0 <=> \A t \in Threads : pc[t] \notin L
         /\ BCnt(L) = num_threads <=> \A t \in Threads : pc[t] \in L

\* They hold in every state.
LEMMA BCounting ==
  ASSUME Setting PROVE num_threads \in Nat /\ BCountFacts
<1>1. num_threads \in Nat
  BY FS_CardinalityType DEF Setting, num_threads
<1>2. ASSUME NEW L
      PROVE  /\ BCnt(L) \in 0..num_threads
             /\ BCnt(L) = 0 <=> \A t \in Threads : pc[t] \notin L
             /\ BCnt(L) = num_threads <=> \A t \in Threads : pc[t] \in L
  <2>1. BAt(L) \subseteq Threads /\ IsFiniteSet(BAt(L)) /\ BCnt(L) \in Nat
    BY FS_Subset, FS_CardinalityType DEF Setting, BAt, BCnt
  <2>2. BCnt(L) <= num_threads /\ (BCnt(L) = num_threads => BAt(L) = Threads)
    BY <2>1, FS_Subset DEF Setting, num_threads, BCnt
  <2>3. BCnt(L) = 0 <=> BAt(L) = {}
    BY <2>1, FS_EmptySet DEF BCnt
  <2>4. BAt(L) = Threads => BCnt(L) = num_threads
    BY DEF num_threads, BCnt
  <2>5. BAt(L) = {} <=> \A t \in Threads : pc[t] \notin L
    BY DEF BAt
  <2>6. BAt(L) = Threads <=> \A t \in Threads : pc[t] \in L
    BY DEF BAt
  <2> QED BY <1>1, <2>1, <2>2, <2>3, <2>4, <2>5, <2>6
<1>3. BCountFacts
  BY <1>2 DEF BCountFacts
<1> QED BY <1>1, <1>3

\* And in the next one.
LEMMA BCountingNext ==
  ASSUME Setting PROVE BCountFacts'
<1>1. BCountFacts
  BY BCounting
<1> QED BY <1>1, PTL

\* Adding an element to a finite set, and taking one out.
LEMMA AddOne ==
  ASSUME NEW S, IsFiniteSet(S), NEW x
  PROVE  /\ Cardinality(S) \in Nat
         /\ x \notin S => Cardinality(S \cup {x}) = Cardinality(S) + 1
         /\ x \in S => Cardinality(S \ {x}) = Cardinality(S) - 1
BY FS_CardinalityType, FS_AddElement, FS_RemoveElement, Zenon

\* The count when one child moves.
LEMMA BMove ==
  ASSUME Setting, BTypes, NEW t \in Threads, NEW l, pc' = [pc EXCEPT ![t] = l]
  PROVE  \A L : BCnt(L)' = BCnt(L) + One(l \in L) - One(pc[t] \in L)
<1> SUFFICES ASSUME NEW L PROVE BCnt(L)' = BCnt(L) + One(l \in L) - One(pc[t] \in L)
  OBVIOUS
<1> DEFINE S == BAt(L)
<1>1. IsFiniteSet(S) /\ (t \in S <=> pc[t] \in L)
  BY FS_Subset DEF Setting, BAt
<1>2. S' = IF l \in L THEN S \cup {t} ELSE S \ {t}
  BY DEF BAt, BTypes
<1>3. BCnt(L) = Cardinality(S) /\ BCnt(L)' = Cardinality(S')
  BY DEF BCnt
<1> HIDE DEF S
<1>4. PICK c \in Nat : c = Cardinality(S)
  BY <1>1, AddOne, Zenon
<1>5. CASE l \in L /\ t \notin S
  <2>1. BCnt(L)' = c + 1
    BY <1>1, <1>2, <1>3, <1>4, <1>5, AddOne, Zenon
  <2> QED BY <1>1, <1>3, <1>4, <1>5, <2>1 DEF One
<1>6. CASE l \notin L /\ t \in S
  <2>1. BCnt(L)' = c - 1
    BY <1>1, <1>2, <1>3, <1>4, <1>6, AddOne, Zenon
  <2> QED BY <1>1, <1>3, <1>4, <1>6, <2>1 DEF One
<1>7. CASE l \in L <=> t \in S
  <2>1. BCnt(L)' = c
    <3>1. S' = S
      BY <1>2, <1>7
    <3> QED BY <1>3, <1>4, <3>1, Zenon
  <2> QED BY <1>1, <1>3, <1>4, <1>7, <2>1 DEF One
<1> QED BY <1>5, <1>6, <1>7

\* Two groups that make up all the children.
BSplitFact ==
  \A L, K : L \cap K = {} /\ (\A t \in Threads : pc[t] \in L \cup K) => BCnt(L) = num_threads - BCnt(K)

\* What is not in one group is in the other.
LEMMA BSplit ==
  ASSUME Setting PROVE BSplitFact
<1> SUFFICES ASSUME NEW L, NEW K, L \cap K = {}, \A t \in Threads : pc[t] \in L \cup K
             PROVE  BCnt(L) = num_threads - BCnt(K)
  BY DEF BSplitFact
<1>1. BAt(L) = Threads \ BAt(K) /\ BAt(K) \subseteq Threads
  BY DEF BAt
<1>2. Cardinality(Threads \ BAt(K)) = Cardinality(Threads) - Cardinality(Threads \cap BAt(K))
  BY <1>1, FS_Difference, Zenon DEF Setting
<1>3. Threads \cap BAt(K) = BAt(K)
  BY <1>1
<1> QED BY <1>1, <1>2, <1>3, Zenon DEF num_threads, BCnt

\* The same of the next state.
LEMMA BSplitNext ==
  ASSUME Setting PROVE \A L, K : L \cap K = {} /\ (\A t \in Threads : pc'[t] \in L \cup K) => BCnt(L)' = num_threads - BCnt(K)'
<1>1. BSplitFact'
  BY BSplit, PTL
<1> QED BY <1>1 DEF BSplitFact, num_threads

\* What the other children, and the arrivals, are when one child moves.
LEMMA BGo ==
  ASSUME Setting, BTypes, NEW t \in Threads, NEW l, pc' = [pc EXCEPT ![t] = l], round' = round
  PROVE  /\ pc'[t] = l /\ \A u \in Threads : u # t => pc'[u] = pc[u]
         /\ BArrivals(t)' = round[t] - One(l \in BBefore)
         /\ \A u \in Threads : u # t => BArrivals(u)' = BArrivals(u)
<1>1. pc'[t] = l /\ \A u \in Threads : u # t => pc'[u] = pc[u]
  BY DEF BTypes
<1> QED BY <1>1 DEF BArrivals

\* The barrier before anything happened.
LEMMA BStart ==
  ASSUME Setting, \A t \in Threads : pc[t] = "none" /\ round[t] = 1,
         sem["turnstile1"] = 0, sem["turnstile2"] = 0
  PROVE  BGather
<1>1. BCnt({"103", "107"}) = 0
  BY BCounting DEF BCountFacts
<1>2. \A t \in Threads : BArrivals(t) = 0
  BY DEF BArrivals, One, BBefore
<1> QED BY <1>1, <1>2 DEF Setting, BGather, BArrived, One

\* barrier.c starts in a state of the invariant.
LEMMA BInit ==
  ASSUME Setting PROVE Init => BInv
<1> SUFFICES ASSUME Init PROVE BInv
  OBVIOUS
<1>1. /\ \A t \in Threads : pc[t] = "none" /\ round[t] = 1 /\ i[t] = 0
      /\ sem = [x \in BSems |-> 0] /\ num_arrived = 0 /\ stale = FALSE
      /\ boot = [at |-> "open", k |-> 1] /\ shm = {}
  <2>1. {Names[k] : k \in 1..Len(Names)} = BSems
    <3>1. Len(Names) = 3 /\ Names[1] = "mutex" /\ Names[2] = "turnstile1" /\ Names[3] = "turnstile2"
      BY DEF Names
    <3>2. 1..3 = {1, 2, 3}
      OBVIOUS
    <3>3. {Names[k] : k \in {1, 2, 3}} = {Names[1], Names[2], Names[3]}
      OBVIOUS
    <3> QED BY <3>1, <3>2, <3>3 DEF BSems
  <2> QED BY <2>1 DEF Init, SemInit, MainAt
<1>2. BTypes
  <2>1. boot \in BBoots
    BY <1>1 DEF BBoots
  <2>2. pc \in [Threads -> BLabels] /\ i \in [Threads -> Nat] /\ round \in [Threads -> Nat]
    BY DEF Init, BLabels
  <2> QED BY <1>1, <2>1, <2>2, Zenon DEF BTypes
<1>3. BCounts
  BY <1>1, BCounting DEF BCounts, BArrived, BCountFacts
<1>4. BMutex /\ BBoot
  BY <1>1 DEF BMutex, BBoot, BInside, BSems
<1>5. BPhases
  BY <1>1, BStart DEF BPhases, BSems
<1> QED BY <1>2, <1>3, <1>4, <1>5 DEF BInv

\* A step of a child keeps the types, the exclusion and the counts.
LEMMA BChildSimple ==
  ASSUME Setting, BInv, NEW t \in Threads, Child(t)
  PROVE  BTypes' /\ BMutex' /\ BCounts' /\ BBoot'
<1> USE DEF WaitStep, PostStep, LocalStep, Goto, Sem_wait, Sem_post, mainVars
<1>1. PICK l \in BLabels :
        /\ pc' = [pc EXCEPT ![t] = l] /\ pc[t] \notin {"none", "done"} /\ l # "none"
        /\ \/ pc[t] = "56" /\ l \in {"59", "74"} /\ num_arrived' = num_arrived + 1
           \/ pc[t] = "86" /\ l \in {"98", "103"} /\ num_arrived' = num_arrived - 1
           \/ /\ pc[t] \notin {"56", "86"} /\ num_arrived' = num_arrived
              /\ pc[t] \in BArrived <=> l \in BArrived
        /\ \/ i' = i /\ pc[t] \notin {"59", "98"} /\ (l \in {"59", "98"} => i[t] = 0)
           \/ /\ pc[t] \in {"59", "98"} /\ l = pc[t] /\ i[t] < num_threads
              /\ i' = [i EXCEPT ![t] = @ + 1]
           \/ pc[t] \in {"59", "98"} /\ l \notin {"59", "98"} /\ i' = [i EXCEPT ![t] = 0]
        /\ \/ pc[t] \in {"55", "85"} /\ l \in {"56", "86"} /\ sem["mutex"] > 0 /\ sem'["mutex"] = sem["mutex"] - 1
           \/ pc[t] \in {"74", "103"} /\ l \in {"78", "107"} /\ sem'["mutex"] = sem["mutex"] + 1
           \/ /\ pc[t] \notin {"55", "85", "74", "103"} /\ sem'["mutex"] = sem["mutex"]
              /\ pc[t] \in BInside <=> l \in BInside
  BY Zenon DEF Child, Arrive, Pass, Leave, PostLoop, BInv, BTypes, BCounts, BLabels, BArrived, BInside, BSems
<1>2. sem' \in [BSems -> Nat] /\ round' \in [Threads -> Nat] /\ UNCHANGED <<shm, boot, stale>>
  BY DEF Setting, Child, Arrive, Pass, Leave, PostLoop, BInv, BTypes, BSems
<1>3. \A u \in Threads : pc'[u] = IF u = t THEN l ELSE pc[u]
  BY <1>1 DEF BInv, BTypes
<1>4. BCounts'
  <2>1. num_arrived' = BCnt(BArrived)'
    <3>0. BTypes /\ pc' = [pc EXCEPT ![t] = l]
      BY <1>1 DEF BInv
    <3>1. BCnt(BArrived)' = BCnt(BArrived) + One(l \in BArrived) - One(pc[t] \in BArrived)
      BY <3>0, BMove, Zenon
    <3>2. num_arrived \in Nat /\ num_arrived = BCnt(BArrived)
      BY DEF BInv, BCounts, BTypes
    <3>3. BCnt(BArrived)' = num_arrived + One(l \in BArrived) - One(pc[t] \in BArrived)
      BY <3>1, <3>2, Zenon
    <3> QED BY <1>1, <3>2, <3>3 DEF One, BArrived
  <2>2. \A u \in Threads : i'[u] <= num_threads /\ (pc'[u] \notin {"59", "98"} => i'[u] = 0)
    BY <1>1, <1>3, BCounting DEF BInv, BCounts, BTypes, BCountFacts
  <2> QED BY <2>1, <2>2 DEF BCounts, num_threads
<1>5. BTypes'
  <2>1. num_arrived' \in Nat
    <3>1. pc[t] = "86" => num_arrived # 0
      BY BCounting DEF BInv, BCounts, BArrived, BCountFacts
    <3> QED BY <1>1, <3>1 DEF BInv, BTypes
  <2>2. pc' \in [Threads -> BLabels] /\ i' \in [Threads -> Nat]
    BY <1>1 DEF BInv, BTypes
  <2> QED BY <1>2, <2>1, <2>2 DEF BInv, BTypes
<1>6. BMutex'
  BY <1>1, <1>3 DEF BInv, BMutex, BTypes, BInside, BSems
<1>7. BBoot'
  BY <1>1, <1>2 DEF BInv, BBoot
<1> QED BY <1>4, <1>5, <1>6, <1>7, Zenon

\* The phases are kept by a child that takes or gives back mutex, or prints
\* "before": it stays on its side of both turnstiles.
LEMMA BQuiet ==
  ASSUME Setting, BInv, ~stale, NEW t \in Threads, NEW l, pc' = [pc EXCEPT ![t] = l],
         round' = round, i' = i, sem'["turnstile1"] = sem["turnstile1"], sem'["turnstile2"] = sem["turnstile2"],
         \/ pc[t] = "before" /\ l = "55"
         \/ pc[t] = "55" /\ l = "56" /\ sem["mutex"] > 0
         \/ pc[t] = "74" /\ l = "78"
         \/ pc[t] = "85" /\ l = "86" /\ sem["mutex"] > 0
         \/ pc[t] = "103" /\ l = "107"
  PROVE  (BGather \/ BPost1 \/ BDrain \/ BPost2)'
<1>1. BTypes /\ BMutex /\ (BGather \/ BPost1 \/ BDrain \/ BPost2)
  BY DEF BInv, BPhases
<1>2. /\ pc'[t] = l /\ \A u \in Threads : u # t => pc'[u] = pc[u]
      /\ BArrivals(t)' = round[t] - One(l \in BBefore)
      /\ \A u \in Threads : u # t => BArrivals(u)' = BArrivals(u)
  BY <1>1, BGo, Zenon
<1>3. \A u \in Threads : BArrivals(u)' = BArrivals(u)
  BY <1>2 DEF BArrivals, BBefore
<1>4. /\ BCnt({"103", "107"})' = BCnt({"103", "107"}) /\ BCnt({"74", "78"})' = BCnt({"74", "78"})
      /\ BCnt(BLeaving)' = BCnt(BLeaving)
  <2>1. \A L : BCnt(L)' = BCnt(L) + One(l \in L) - One(pc[t] \in L)
    BY <1>1, BMove, Zenon
  <2>2. \A L : BCnt(L) \in Nat
    BY BCounting DEF BCountFacts
  <2> QED BY <2>1, <2>2 DEF One, BLeaving
<1>5. sem["mutex"] > 0 => \A u \in Threads : pc[u] \notin BInside
  BY <1>1 DEF BMutex, BTypes, BSems
<1>6. CASE BGather
  <2>1. BGather'
    BY <1>2, <1>3, <1>4, <1>6 DEF BGather, BArrived, One
  <2> QED BY <2>1
<1>7. CASE BPost1
  BY <1>2, <1>5, <1>7 DEF BPost1, BInside
<1>8. CASE BDrain
  <2>1. BDrain'
    BY <1>2, <1>3, <1>4, <1>8 DEF BDrain, BArrived
  <2> QED BY <2>1
<1>9. CASE BPost2
  <2>1. BPost2'
    BY <1>2, <1>3, <1>4, <1>5, <1>9 DEF BPost2, BArrived, BInside, num_threads
  <2> QED BY <2>1
<1> QED BY <1>1, <1>6, <1>7, <1>8, <1>9

\* A child passes turnstile 1: it does so only when all have arrived.
LEMMA BPass1 ==
  ASSUME Setting, BInv, ~stale, NEW t \in Threads, pc[t] = "78", pc' = [pc EXCEPT ![t] = "85"],
         round' = round, i' = i, sem["turnstile1"] > 0,
         sem'["turnstile1"] = sem["turnstile1"] - 1, sem'["turnstile2"] = sem["turnstile2"]
  PROVE  (BPost1 \/ BDrain)'
<1>1. BTypes /\ BMutex /\ (BGather \/ BPost1 \/ BDrain \/ BPost2)
  BY DEF BInv, BPhases
<1>2. /\ pc'[t] = "85" /\ \A u \in Threads : u # t => pc'[u] = pc[u]
      /\ BArrivals(t)' = round[t] - One("85" \in BBefore)
      /\ \A u \in Threads : u # t => BArrivals(u)' = BArrivals(u)
  BY <1>1, BGo, Zenon
<1>3. \A u \in Threads : BArrivals(u)' = BArrivals(u)
  BY <1>2 DEF BArrivals, BBefore
<1>4. BCnt({"85"})' = BCnt({"85"}) + 1 /\ BCnt({"74", "78"})' = BCnt({"74", "78"}) - 1
  <2>1. \A L : BCnt(L)' = BCnt(L) + One("85" \in L) - One("78" \in L)
    BY <1>1, BMove, Zenon
  <2>2. \A L : BCnt(L) \in Nat
    BY BCounting DEF BCountFacts
  <2> QED BY <2>1, <2>2 DEF One
<1>5. sem["turnstile1"] \in Nat /\ BCnt({"85"}) \in Nat
  BY <1>1, BCounting DEF BTypes, BSems, BCountFacts
<1>6. ~BGather /\ ~BPost2
  BY DEF BGather, BPost2
<1>7. CASE BPost1
  <2>1. BPost1'
    BY <1>2, <1>3, <1>4, <1>5, <1>7 DEF BPost1
  <2> QED BY <2>1
<1>8. CASE BDrain
  <2>1. BDrain'
    BY <1>2, <1>3, <1>4, <1>8 DEF BDrain, BArrived
  <2> QED BY <2>1
<1> QED BY <1>1, <1>6, <1>7, <1>8

\* A child leaves through turnstile 2.
LEMMA BPass2 ==
  ASSUME Setting, BInv, ~stale, NEW t \in Threads, pc[t] = "107", pc' = [pc EXCEPT ![t] = "after"],
         round' = round, i' = i, sem["turnstile2"] > 0,
         sem'["turnstile2"] = sem["turnstile2"] - 1, sem'["turnstile1"] = sem["turnstile1"]
  PROVE  (BGather \/ BPost2)'
<1>1. BTypes /\ BMutex /\ (BGather \/ BPost1 \/ BDrain \/ BPost2)
  BY DEF BInv, BPhases
<1>2. /\ pc'[t] = "after" /\ \A u \in Threads : u # t => pc'[u] = pc[u]
      /\ BArrivals(t)' = round[t] - One("after" \in BBefore)
      /\ \A u \in Threads : u # t => BArrivals(u)' = BArrivals(u)
  BY <1>1, BGo, Zenon
<1>3. \A u \in Threads : BArrivals(u)' = BArrivals(u)
  BY <1>2 DEF BArrivals, BBefore
<1>4. BCnt(BLeaving)' = BCnt(BLeaving) - 1 /\ BCnt({"103", "107"})' = BCnt({"103", "107"}) - 1
  <2>1. \A L : BCnt(L)' = BCnt(L) + One("after" \in L) - One("107" \in L)
    BY <1>1, BMove, Zenon
  <2>2. \A L : BCnt(L) \in Nat
    BY BCounting DEF BCountFacts
  <2> QED BY <2>1, <2>2 DEF One, BLeaving
<1>5. sem["turnstile2"] \in Nat /\ BCnt(BLeaving) \in Nat /\ num_threads \in Nat
  BY <1>1, BCounting DEF BTypes, BSems, BCountFacts
<1>6. ~BPost1 /\ ~BDrain
  BY DEF BPost1, BDrain
<1>7. CASE BGather
  <2>1. BGather'
    BY <1>2, <1>3, <1>4, <1>7 DEF BGather, BArrived, One
  <2> QED BY <2>1
<1>8. CASE BPost2
  <2>1. PICK p \in Threads :
          /\ pc[p] = "98" /\ \A u \in Threads : u # p => pc[u] \notin BArrived \cup {"98", "103"}
          /\ sem["turnstile1"] = 0 /\ sem["turnstile2"] + (num_threads - BCnt(BLeaving)) = i[p]
          /\ \A u, v \in Threads : BArrivals(u) = BArrivals(v)
    BY <1>8 DEF BPost2
  <2>2. sem'["turnstile2"] + (num_threads - BCnt(BLeaving)') = i'[p]
    BY <1>4, <1>5, <2>1
  <2>3. pc'[p] = "98" /\ \A u \in Threads : u # p => pc'[u] \notin BArrived \cup {"98", "103"}
    BY <1>2, <2>1, Zenon DEF BArrived
  <2>4. BPost2'
    BY <1>3, <2>1, <2>2, <2>3, Zenon DEF BPost2, num_threads
  <2> QED BY <2>4
<1> QED BY <1>1, <1>6, <1>7, <1>8

\* A child begins its next round, or ends.
LEMMA BAgain ==
  ASSUME Setting, BInv, ~stale, NEW t \in Threads, pc[t] = "after",
         \/ pc' = [pc EXCEPT ![t] = "before"] /\ round' = [round EXCEPT ![t] = round[t] + 1]
         \/ pc' = [pc EXCEPT ![t] = "done"] /\ round' = round,
         i' = i, sem' = sem
  PROVE  (BGather \/ BPost2)'
<1>1. BTypes /\ (BGather \/ BPost1 \/ BDrain \/ BPost2)
  BY DEF BInv, BPhases
<1>2. pc'[t] \in {"before", "done"} /\ \A u \in Threads : u # t => pc'[u] = pc[u]
  BY <1>1 DEF BTypes
<1>3. \A u \in Threads : BArrivals(u)' = BArrivals(u)
  BY <1>1 DEF BTypes, BArrivals, BBefore, One
<1>4. BCnt(BLeaving)' = BCnt(BLeaving) /\ BCnt({"103", "107"})' = BCnt({"103", "107"})
  BY <1>2 DEF BCnt, BAt, BLeaving
<1>5. ~BPost1 /\ ~BDrain
  BY DEF BPost1, BDrain
<1>6. CASE BGather
  <2>1. BGather'
    BY <1>2, <1>3, <1>4, <1>6 DEF BGather, BArrived, One
  <2> QED BY <2>1
<1>7. CASE BPost2
  <2>1. BPost2'
    BY <1>2, <1>3, <1>4, <1>7 DEF BPost2, BArrived, num_threads
  <2> QED BY <2>1
<1> QED BY <1>1, <1>5, <1>6, <1>7

\* A child arrives: the last one finds everybody before turnstile 1.
LEMMA BArrive ==
  ASSUME Setting, BInv, ~stale, NEW t \in Threads, pc[t] = "56",
         pc' = [pc EXCEPT ![t] = IF num_arrived + 1 = num_threads THEN "59" ELSE "74"],
         round' = round, i' = i, sem' = sem
  PROVE  (BGather \/ BPost1)'
<1> DEFINE l == IF num_arrived + 1 = num_threads THEN "59" ELSE "74"
<1>1. BTypes /\ BMutex /\ (BGather \/ BPost1 \/ BDrain \/ BPost2) /\ num_arrived = BCnt(BArrived)
  BY DEF BInv, BPhases, BCounts
<1>2. /\ pc'[t] = l /\ (\A u \in Threads : u # t => pc'[u] = pc[u])
      /\ BArrivals(t)' = round[t] - One(l \in BBefore)
      /\ \A u \in Threads : u # t => BArrivals(u)' = BArrivals(u)
  BY <1>1, BGo, Zenon
<1>3. \A u \in Threads : u # t => pc[u] \notin BInside
  BY <1>1 DEF BMutex, BInside
<1>4. BGather
  BY <1>1, <1>3 DEF BPost1, BDrain, BPost2, BInside
<1>5. \A u \in Threads : BArrivals(u)' - One(pc'[u] \in BArrived) = BArrivals(u) - One(pc[u] \in BArrived)
  <2>1. BArrivals(t) = round[t] - 1 /\ BArrivals(t)' = round[t] - 0 /\ round[t] \in Nat
    BY <1>1, <1>2 DEF BArrivals, BBefore, One, BTypes
  <2>2. BArrivals(t)' - One(pc'[t] \in BArrived) = BArrivals(t) - One(pc[t] \in BArrived)
    BY <1>2, <2>1 DEF One, BArrived
  <2> QED BY <1>2, <2>2
<1>6. \A L : BCnt(L)' = BCnt(L) + One(l \in L) - One(pc[t] \in L)
  BY <1>1, BMove, Zenon
<1>7. BCnt(BArrived)' = num_arrived + 1
  <2>1. BCnt(BArrived)' = num_arrived + One(l \in BArrived) - One(pc[t] \in BArrived)
    BY <1>1, <1>6, Zenon
  <2> QED BY <1>1, <2>1 DEF One, BArrived, BTypes
<1>8. /\ BCnt(BArrived)' = num_threads <=> \A u \in Threads : pc'[u] \in BArrived
      /\ BCnt({"85"})' = 0 <=> \A u \in Threads : pc'[u] \notin {"85"}
  BY BCountingNext DEF BCountFacts, num_threads
<1>9. CASE num_arrived + 1 = num_threads
  <2>1. \A u \in Threads : pc'[u] \in BArrived
    BY <1>7, <1>8, <1>9, Zenon
  <2>2. \A u \in Threads : u # t => pc[u] \in {"74", "78"}
    BY <1>2, <1>4, <2>1 DEF BGather, BArrived
  <2>3. \A u \in Threads : u # t => pc'[u] \in {"78", "85"}
    BY <1>2, <1>3, <2>2 DEF BInside
  <2>4. BCnt({"85"})' = 0 /\ BCnt({"103", "107"}) = 0
    <3>1. \A u \in Threads : pc'[u] \notin {"85"}
      BY <1>2, <1>9, <2>2
    <3>2. \A u \in Threads : pc[u] \notin {"103", "107"}
      BY <2>2
    <3> QED BY <1>8, <3>1, <3>2, BCounting, Zenon DEF BCountFacts
  <2>5. i'[t] = 0 /\ sem'["turnstile1"] = 0 /\ sem'["turnstile2"] = 0
    BY <1>4, <2>4 DEF BGather, BInv, BCounts
  <2>6. \A u, v \in Threads : BArrivals(u)' = BArrivals(v)'
    <3>1. \A u \in Threads : BArrivals(u)' \in Int
      BY <1>1, <1>2 DEF BArrivals, BTypes, One
    <3>2. \A u, v \in Threads : BArrivals(u)' - 1 = BArrivals(v)' - 1
      BY <1>4, <1>5, <2>1 DEF BGather, One
    <3> QED BY <3>1, <3>2
  <2>7. BPost1'
    BY <1>2, <1>9, <2>3, <2>4, <2>5, <2>6 DEF BPost1
  <2> QED BY <2>7
<1>10. CASE num_arrived + 1 # num_threads
  <2>1. \E u \in Threads : pc'[u] \notin BArrived
    BY <1>7, <1>8, <1>10, Zenon
  <2>2. BCnt({"103", "107"})' = BCnt({"103", "107"})
    BY <1>2, <1>10 DEF BCnt, BAt
  <2>3. BGather'
    BY <1>2, <1>4, <1>5, <1>10, <2>1, <2>2 DEF BGather
  <2> QED BY <2>3
<1> QED BY <1>9, <1>10

\* A child has passed turnstile 1: the last one finds everybody before turnstile 2.
LEMMA BWithdraw ==
  ASSUME Setting, BInv, ~stale, NEW t \in Threads, pc[t] = "86",
         pc' = [pc EXCEPT ![t] = IF num_arrived - 1 = 0 THEN "98" ELSE "103"],
         round' = round, i' = i, sem' = sem
  PROVE  (BDrain \/ BPost2)'
<1> DEFINE l == IF num_arrived - 1 = 0 THEN "98" ELSE "103"
<1>1. BTypes /\ BMutex /\ (BGather \/ BPost1 \/ BDrain \/ BPost2) /\ num_arrived = BCnt(BArrived)
  BY DEF BInv, BPhases, BCounts
<1>2. /\ pc'[t] = l /\ (\A u \in Threads : u # t => pc'[u] = pc[u])
      /\ BArrivals(t)' = round[t] - One(l \in BBefore)
      /\ \A u \in Threads : u # t => BArrivals(u)' = BArrivals(u)
  BY <1>1, BGo, Zenon
<1>3. \A u \in Threads : u # t => pc[u] \notin BInside
  BY <1>1 DEF BMutex, BInside
<1>4. BDrain
  BY <1>1, <1>3 DEF BGather, BPost1, BPost2, BInside
<1>5. \A u \in Threads : BArrivals(u)' = BArrivals(u)
  BY <1>2 DEF BArrivals, BBefore
<1>6. \A L : BCnt(L)' = BCnt(L) + One(l \in L) - One(pc[t] \in L)
  BY <1>1, BMove, Zenon
<1>7. BCnt(BArrived)' = num_arrived - 1
  <2>1. BCnt(BArrived)' = num_arrived + One(l \in BArrived) - One(pc[t] \in BArrived)
    BY <1>1, <1>6, Zenon
  <2> QED BY <1>1, <2>1 DEF One, BArrived, BTypes
<1>8. /\ BCnt(BArrived)' = 0 <=> \A u \in Threads : pc'[u] \notin BArrived
      /\ BCnt(BLeaving)' = num_threads <=> \A u \in Threads : pc'[u] \in BLeaving
  BY BCountingNext DEF BCountFacts, num_threads
<1>9. CASE num_arrived - 1 = 0
  <2>1. \A u \in Threads : u # t => pc[u] = "107" /\ pc'[u] = "107"
    BY <1>2, <1>3, <1>4, <1>7, <1>8, <1>9 DEF BDrain, BArrived, BInside
  <2>2. BCnt(BLeaving)' = num_threads /\ BCnt({"74", "78"}) = 0
    <3>1. \A u \in Threads : pc'[u] \in BLeaving
      BY <1>2, <1>9, <2>1 DEF BLeaving
    <3>2. \A u \in Threads : pc[u] \notin {"74", "78"}
      BY <2>1
    <3> QED BY <1>8, <3>1, <3>2, BCounting, Zenon DEF BCountFacts
  <2>3. i'[t] = 0 /\ sem'["turnstile1"] = 0 /\ sem'["turnstile2"] = 0
    BY <1>4, <2>2 DEF BDrain, BInv, BCounts
  <2>4. sem'["turnstile2"] + (num_threads - BCnt(BLeaving)') = i'[t]
    BY <2>2, <2>3, BCounting
  <2>5. BPost2'
    BY <1>2, <1>4, <1>5, <1>9, <2>1, <2>3, <2>4 DEF BPost2, BDrain, BArrived, num_threads
  <2> QED BY <2>5
<1>10. CASE num_arrived - 1 # 0
  <2>1. \E u \in Threads : pc'[u] \in BArrived
    BY <1>7, <1>8, <1>10, Zenon
  <2>2. BCnt({"74", "78"})' = BCnt({"74", "78"})
    BY <1>2, <1>10 DEF BCnt, BAt
  <2>3. BDrain'
    BY <1>2, <1>4, <1>5, <1>10, <2>1, <2>2, Zenon DEF BDrain
  <2> QED BY <2>3
<1> QED BY <1>9, <1>10

\* The loop that posts turnstile 1, and its end.
LEMMA BLoop1 ==
  ASSUME Setting, BInv, ~stale, NEW t \in Threads, pc[t] = "59", round' = round,
         sem'["turnstile2"] = sem["turnstile2"],
         \/ /\ i[t] < num_threads /\ pc' = [pc EXCEPT ![t] = "59"] /\ i' = [i EXCEPT ![t] = i[t] + 1]
            /\ sem'["turnstile1"] = sem["turnstile1"] + 1
         \/ /\ ~(i[t] < num_threads) /\ pc' = [pc EXCEPT ![t] = "74"] /\ i' = [i EXCEPT ![t] = 0]
            /\ sem'["turnstile1"] = sem["turnstile1"]
  PROVE  (BPost1 \/ BDrain)'
<1>1. /\ BTypes /\ BMutex /\ (BGather \/ BPost1 \/ BDrain \/ BPost2)
      /\ i[t] \in Nat /\ i[t] <= num_threads /\ num_threads \in Nat /\ sem["turnstile1"] \in Nat
  BY BCounting, Zenon DEF BInv, BPhases, BCounts, BTypes, BSems
<1>2. \A u \in Threads : u # t => pc[u] \in {"78", "85"} /\ pc'[u] = pc[u]
  BY <1>1, Zenon DEF BGather, BPost1, BDrain, BPost2, BArrived, BTypes
<1>3. /\ sem["turnstile1"] + BCnt({"85"}) = i[t] /\ sem["turnstile2"] = 0
      /\ \A u, v \in Threads : BArrivals(u) = BArrivals(v)
  BY <1>1 DEF BGather, BPost1, BDrain, BPost2, BArrived
<1>4. pc'[t] \in {"59", "74"}
  BY <1>1 DEF BTypes
<1>5. \A u \in Threads : BArrivals(u)' = BArrivals(u)
  BY <1>2, <1>4 DEF BArrivals, BBefore
<1>6. BCnt({"85"})' = BCnt({"85"}) /\ BCnt({"85"}) \in Nat
  <2>1. BCnt({"85"})' = BCnt({"85"})
    BY <1>2, <1>4, Zenon DEF BCnt, BAt
  <2> QED BY <2>1, BCounting DEF BCountFacts
<1>7. CASE i[t] < num_threads
  <2>1. sem'["turnstile1"] + BCnt({"85"})' = i'[t] /\ pc'[t] = "59"
    BY <1>1, <1>3, <1>6, <1>7 DEF BTypes
  <2>2. BPost1'
    BY <1>2, <1>3, <1>5, <2>1 DEF BPost1
  <2> QED BY <2>2
<1>8. CASE ~(i[t] < num_threads)
  <2>1. pc'[t] = "74" /\ sem'["turnstile1"] = sem["turnstile1"]
    BY <1>1, <1>8 DEF BTypes
  <2>2. BCnt({"74", "78"})' = num_threads - BCnt({"85"})'
    <3>1. \A u \in Threads : pc'[u] \in {"74", "78"} \cup {"85"}
      BY <1>2, <2>1, Zenon
    <3> QED BY <3>1, BSplitNext
  <2>3. sem'["turnstile1"] = BCnt({"74", "78"})'
    BY <1>1, <1>3, <1>6, <1>8, <2>1, <2>2
  <2>4. BDrain'
    BY <1>2, <1>3, <1>5, <2>1, <2>3 DEF BDrain, BArrived
  <2> QED BY <2>4
<1> QED BY <1>7, <1>8

\* The loop that posts turnstile 2, and its end.
LEMMA BLoop2 ==
  ASSUME Setting, BInv, ~stale, NEW t \in Threads, pc[t] = "98", round' = round,
         sem'["turnstile1"] = sem["turnstile1"],
         \/ /\ i[t] < num_threads /\ pc' = [pc EXCEPT ![t] = "98"] /\ i' = [i EXCEPT ![t] = i[t] + 1]
            /\ sem'["turnstile2"] = sem["turnstile2"] + 1
         \/ /\ ~(i[t] < num_threads) /\ pc' = [pc EXCEPT ![t] = "103"] /\ i' = [i EXCEPT ![t] = 0]
            /\ sem'["turnstile2"] = sem["turnstile2"]
  PROVE  (BPost2 \/ BGather)'
<1>1. /\ BTypes /\ BMutex /\ (BGather \/ BPost1 \/ BDrain \/ BPost2)
      /\ i[t] \in Nat /\ i[t] <= num_threads /\ num_threads \in Nat /\ sem["turnstile2"] \in Nat
  BY BCounting DEF BInv, BPhases, BCounts, BTypes, BSems
<1>2. \A u \in Threads : u # t => pc[u] \notin BArrived \cup {"98", "103"} /\ pc'[u] = pc[u]
  BY <1>1 DEF BGather, BPost1, BDrain, BPost2, BTypes
<1>3. /\ sem["turnstile2"] + (num_threads - BCnt(BLeaving)) = i[t] /\ sem["turnstile1"] = 0
      /\ \A u, v \in Threads : BArrivals(u) = BArrivals(v)
  BY <1>1 DEF BGather, BPost1, BDrain, BPost2
<1>4. pc'[t] \in {"98", "103"}
  BY <1>1 DEF BTypes
<1>5. \A u \in Threads : BArrivals(u)' = BArrivals(u)
  BY <1>2, <1>4 DEF BArrivals, BBefore
<1>6. BCnt(BLeaving)' = BCnt(BLeaving) /\ BCnt(BLeaving) \in Nat
  <2>1. BCnt(BLeaving)' = BCnt(BLeaving)
    BY <1>2, <1>4 DEF BCnt, BAt, BLeaving
  <2> QED BY <2>1, BCounting DEF BCountFacts
<1>7. CASE i[t] < num_threads
  <2>1. sem'["turnstile2"] + (num_threads - BCnt(BLeaving)') = i'[t] /\ pc'[t] = "98"
    BY <1>1, <1>3, <1>6, <1>7 DEF BTypes
  <2>2. BPost2'
    BY <1>2, <1>3, <1>5, <2>1 DEF BPost2, num_threads
  <2> QED BY <2>2
<1>8. CASE ~(i[t] < num_threads)
  <2>1. pc'[t] = "103" /\ sem'["turnstile2"] = sem["turnstile2"]
    BY <1>1, <1>8 DEF BTypes
  <2>2. BCnt({"103", "107"})' = BCnt(BLeaving)'
    BY <1>2, <2>1, Zenon DEF BCnt, BAt, BLeaving
  <2>3. sem'["turnstile2"] = BCnt({"103", "107"})'
    BY <1>1, <1>3, <1>6, <1>8, <2>1, <2>2
  <2>4. \A u \in Threads : pc'[u] \notin BArrived \cup {"98"}
    BY <1>2, <2>1, Zenon DEF BArrived
  <2>5. BGather'
    BY <1>3, <1>5, <2>3, <2>4 DEF BGather, BArrived, One
  <2> QED BY <2>5
<1> QED BY <1>7, <1>8

\* A step of a child goes on with the round.
LEMMA BChildPhase ==
  ASSUME Setting, BInv, NEW t \in Threads, Child(t)
  PROVE  BPhases'
<1> USE DEF WaitStep, PostStep, LocalStep, Goto, Sem_wait, Sem_post
<1> SUFFICES ASSUME ~stale PROVE (BGather \/ BPost1 \/ BDrain \/ BPost2)'
  BY DEF BPhases, Child, mainVars
<1>0. BTypes
  BY DEF BInv
<1>1. CASE Arrive(t) /\ UNCHANGED round
  <2>1. CASE pc[t] = "55"
    <3>1. /\ pc' = [pc EXCEPT ![t] = "56"] /\ round' = round /\ i' = i /\ sem["mutex"] > 0
          /\ sem'["turnstile1"] = sem["turnstile1"] /\ sem'["turnstile2"] = sem["turnstile2"]
      BY <1>0, <1>1, <2>1 DEF Arrive, PostLoop, BTypes, BSems
    <3> QED BY <2>1, <3>1, BQuiet, Zenon
  <2>2. CASE pc[t] = "56"
    <3>1. /\ pc' = [pc EXCEPT ![t] = IF num_arrived + 1 = num_threads THEN "59" ELSE "74"]
          /\ round' = round /\ i' = i /\ sem' = sem
      BY <1>1, <2>2, Zenon DEF Arrive, PostLoop
    <3> QED BY <2>2, <3>1, BArrive, Zenon
  <2>3. CASE pc[t] = "59"
    <3>1. PostLoop(t, "59", "turnstile1", "74") /\ round' = round
      BY <1>1, <2>3 DEF Arrive
    <3>2. /\ sem'["turnstile2"] = sem["turnstile2"]
          /\ \/ /\ i[t] < num_threads /\ pc' = [pc EXCEPT ![t] = "59"] /\ i' = [i EXCEPT ![t] = i[t] + 1]
                /\ sem'["turnstile1"] = sem["turnstile1"] + 1
             \/ /\ ~(i[t] < num_threads) /\ pc' = [pc EXCEPT ![t] = "74"] /\ i' = [i EXCEPT ![t] = 0]
                /\ sem'["turnstile1"] = sem["turnstile1"]
      BY <1>0, <3>1 DEF PostLoop, BTypes, BSems
    <3> QED BY <2>3, <3>1, <3>2, BLoop1, Zenon
  <2>4. CASE pc[t] = "74"
    <3>1. /\ pc' = [pc EXCEPT ![t] = "78"] /\ round' = round /\ i' = i
          /\ sem'["turnstile1"] = sem["turnstile1"] /\ sem'["turnstile2"] = sem["turnstile2"]
      BY <1>0, <1>1, <2>4, Zenon DEF Arrive, PostLoop, BTypes, BSems
    <3> QED BY <2>4, <3>1, BQuiet, Zenon
  <2> QED BY <1>1, <2>1, <2>2, <2>3, <2>4, Zenon DEF Arrive, PostLoop
<1>2. CASE Pass(t) /\ UNCHANGED round
  <2>1. CASE pc[t] = "78"
    <3>1. /\ pc' = [pc EXCEPT ![t] = "85"] /\ round' = round /\ i' = i /\ sem["turnstile1"] > 0
          /\ sem'["turnstile1"] = sem["turnstile1"] - 1 /\ sem'["turnstile2"] = sem["turnstile2"]
      BY <1>0, <1>2, <2>1 DEF Pass, PostLoop, BTypes, BSems
    <3> QED BY <2>1, <3>1, BPass1, Zenon
  <2>2. CASE pc[t] = "85"
    <3>1. /\ pc' = [pc EXCEPT ![t] = "86"] /\ round' = round /\ i' = i /\ sem["mutex"] > 0
          /\ sem'["turnstile1"] = sem["turnstile1"] /\ sem'["turnstile2"] = sem["turnstile2"]
      BY <1>0, <1>2, <2>2 DEF Pass, PostLoop, BTypes, BSems
    <3> QED BY <2>2, <3>1, BQuiet, Zenon
  <2>3. CASE pc[t] = "86"
    <3>1. /\ pc' = [pc EXCEPT ![t] = IF num_arrived - 1 = 0 THEN "98" ELSE "103"]
          /\ round' = round /\ i' = i /\ sem' = sem
      BY <1>2, <2>3, Zenon DEF Pass, PostLoop
    <3> QED BY <2>3, <3>1, BWithdraw, Zenon
  <2>4. CASE pc[t] = "98"
    <3>1. PostLoop(t, "98", "turnstile2", "103") /\ round' = round
      BY <1>2, <2>4, Zenon DEF Pass
    <3>2. /\ sem'["turnstile1"] = sem["turnstile1"]
          /\ \/ /\ i[t] < num_threads /\ pc' = [pc EXCEPT ![t] = "98"] /\ i' = [i EXCEPT ![t] = i[t] + 1]
                /\ sem'["turnstile2"] = sem["turnstile2"] + 1
             \/ /\ ~(i[t] < num_threads) /\ pc' = [pc EXCEPT ![t] = "103"] /\ i' = [i EXCEPT ![t] = 0]
                /\ sem'["turnstile2"] = sem["turnstile2"]
      BY <1>0, <3>1 DEF PostLoop, BTypes, BSems
    <3> QED BY <2>4, <3>1, <3>2, BLoop2, Zenon
  <2>5. CASE pc[t] = "103"
    <3>1. /\ pc' = [pc EXCEPT ![t] = "107"] /\ round' = round /\ i' = i
          /\ sem'["turnstile1"] = sem["turnstile1"] /\ sem'["turnstile2"] = sem["turnstile2"]
      BY <1>0, <1>2, <2>5 DEF Pass, PostLoop, BTypes, BSems
    <3> QED BY <2>5, <3>1, BQuiet, Zenon
  <2> QED BY <1>2, <2>1, <2>2, <2>3, <2>4, <2>5, Zenon DEF Pass, PostLoop
<1>3. CASE Leave(t) /\ UNCHANGED round
  <2>1. /\ pc[t] = "107" /\ pc' = [pc EXCEPT ![t] = "after"] /\ round' = round /\ i' = i
        /\ sem["turnstile2"] > 0
        /\ sem'["turnstile2"] = sem["turnstile2"] - 1 /\ sem'["turnstile1"] = sem["turnstile1"]
    BY <1>0, <1>3 DEF Leave, BTypes, BSems
  <2> QED BY <2>1, BPass2, Zenon
<1>4. CASE LocalStep(t, "before", "55") /\ UNCHANGED <<num_arrived, i, round>>
  BY <1>4, BQuiet, Zenon
<1>5. CASE /\ LocalStep(t, "after", IF round[t] < Rounds THEN "before" ELSE "done")
           /\ round' = [round EXCEPT ![t] = IF @ < Rounds THEN @ + 1 ELSE @]
           /\ UNCHANGED <<num_arrived, i>>
  <2>1. \/ pc' = [pc EXCEPT ![t] = "before"] /\ round' = [round EXCEPT ![t] = round[t] + 1]
        \/ pc' = [pc EXCEPT ![t] = "done"] /\ round' = round
    BY <1>0, <1>5, Zenon DEF BTypes
  <2> QED BY <1>5, <2>1, BAgain, Zenon
<1> QED BY <1>1, <1>2, <1>3, <1>4, <1>5, Zenon DEF Child

\* The steps of main: nothing moves but main and the semaphores it opens.
LEMMA BMain == ASSUME Setting, BInv, Main PROVE BInv'
<1>0. BTypes /\ BMutex /\ BCounts /\ BBoot /\ BPhases
  BY DEF BInv
<1>1. /\ Len(Names) = 3 /\ \A k \in 1..3 : Names[k] \in BSems
      /\ Names[1] = "mutex" /\ Names[2] = "turnstile1" /\ Names[3] = "turnstile2"
  BY DEF Names, BSems
<1>2. CASE CreateChildren
  <2>1. /\ boot.at = "create" /\ boot'.at = "join" /\ boot' \in BBoots
        /\ \A t \in Threads : pc[t] = "none" /\ pc'[t] = "before" /\ round[t] = 1
    BY <1>0, <1>2 DEF CreateChildren, MainAt, BBoots, BBoot
  <2>2. pc' \in [Threads -> BLabels]
    BY <1>2, Zenon DEF CreateChildren, BLabels
  <2>3. BTypes' /\ BMutex' /\ BBoot'
    BY <1>0, <1>2, <2>1, <2>2, Zenon DEF CreateChildren, BTypes, BMutex, BBoot, BInside
  <2>4. BCnt(BArrived)' = BCnt(BArrived) /\ BCnt({"103", "107"})' = 0
    BY <2>1, BCountingNext DEF BCnt, BAt, BArrived, BCountFacts
  <2>5. BCounts'
    BY <1>0, <1>2, <2>1, <2>4, Zenon DEF CreateChildren, BCounts, num_threads
  <2>6. BPhases'
    <3>1. \A t \in Threads : BArrivals(t)' = 0
      BY <1>2, <2>1 DEF CreateChildren, BArrivals, One, BBefore
    <3> QED BY <1>0, <1>2, <2>1, <2>4, <3>1 DEF Setting, CreateChildren, BPhases, BGather, BBoot, BArrived, One
  <2> QED BY <2>3, <2>5, <2>6, Zenon DEF BInv
<1>3. CASE OpenAll
  <2>1. /\ boot.at \in {"open", "reopen"} /\ boot.k \in 1..3 /\ UNCHANGED <<pc, num_arrived, i, round>>
        /\ \A t \in Threads : pc[t] = "none" /\ pc'[t] = "none" /\ round'[t] = 1
    BY <1>0, <1>3 DEF OpenAll, Sem_open, BTypes, BBoots, BBoot
  <2>2. Names[boot.k] \in BSems
    BY <1>1, <2>1
  <2>3. /\ boot'.at \in {"open", "reopen", "create"} /\ boot' \in BBoots
    <3>1. boot.k = 1 \/ boot.k = 2 \/ boot.k = 3
      BY <2>1
    <3>2. \/ boot' = MainPast("open", boot.k, 3, "create") \/ boot' = MainAt("reopen", boot.k)
      BY <1>1, <1>3 DEF OpenAll, Sem_open
    <3>3. \E k \in 1..3 : boot' \in {[at |-> "create", k |-> 1], [at |-> "open", k |-> k], [at |-> "reopen", k |-> k]}
      BY <3>1, <3>2 DEF MainPast, MainAt
    <3> QED BY <3>3 DEF BBoots
  <2>0. /\ sem \in [BSems -> Nat] /\ sem["mutex"] \in 0..1 /\ shm \subseteq BSems /\ stale' \in BOOLEAN
        /\ "mutex" \in BSems
    BY <1>0, <1>3, Zenon DEF BTypes, BMutex, OpenAll, BSems
  <2>4. sem' \in [BSems -> Nat] /\ sem'["mutex"] \in 0..1 /\ shm' \subseteq BSems /\ stale' \in BOOLEAN
    <3>1. CASE boot.at = "open" /\ Names[boot.k] \notin shm
      <4>1. InitialValue[Names[boot.k]] \in 0..1
        <5>1. \A x \in BSems : InitialValue[x] \in 0..1
          BY DEF InitialValue, BSems
        <5> QED BY <2>2, <5>1
      <4>2. sem' = [sem EXCEPT ![Names[boot.k]] = InitialValue[Names[boot.k]]] /\ shm' = shm \cup {Names[boot.k]}
        BY <1>3, <3>1 DEF OpenAll, Sem_open
      <4> QED BY <2>2, <2>0, <4>1, <4>2
    <3>2. CASE boot.at = "open" /\ Names[boot.k] \in shm
      <4>1. sem' = sem /\ shm' = shm \ {Names[boot.k]}
        BY <1>3, <3>2 DEF OpenAll, Sem_open
      <4> QED BY <2>0, <4>1, Zenon
    <3>3. CASE boot.at = "reopen"
      <4>1. sem' = [sem EXCEPT ![Names[boot.k]] = 1] /\ shm' = shm \cup {Names[boot.k]}
        BY <1>3, <3>3, Zenon DEF OpenAll, Sem_open
      <4> QED BY <2>2, <2>0, <4>1
    <3> QED BY <2>1, <3>1, <3>2, <3>3, Zenon
  <2>5. ~stale' => /\ ~stale /\ boot.at = "open" /\ boot'.at # "reopen"
                   /\ sem'["turnstile1"] = 0 /\ sem'["turnstile2"] = 0
    <3> SUFFICES ASSUME ~stale'
                 PROVE  /\ ~stale /\ boot.at = "open" /\ boot'.at # "reopen"
                        /\ sem'["turnstile1"] = 0 /\ sem'["turnstile2"] = 0
      OBVIOUS
    <3>1. ~stale /\ boot'.at # "reopen"
      BY <1>3, Zenon DEF OpenAll
    <3>2. boot.at = "open" /\ sem["turnstile1"] = 0 /\ sem["turnstile2"] = 0
      BY <1>0, <2>1, <3>1, Zenon DEF BBoot
    <3>3. sem' = [sem EXCEPT ![Names[boot.k]] = InitialValue[Names[boot.k]]]
      BY <1>3, <3>1, <3>2 DEF OpenAll, Sem_open, MainAt
    <3>4. /\ Names[boot.k] = "turnstile1" => InitialValue[Names[boot.k]] = 0
          /\ Names[boot.k] = "turnstile2" => InitialValue[Names[boot.k]] = 0
      BY DEF InitialValue
    <3> QED BY <1>0, <2>2, <3>1, <3>2, <3>3, <3>4, Zenon DEF BTypes, BSems
  <2>6. BTypes' /\ BMutex' /\ BBoot'
    BY <1>0, <2>1, <2>3, <2>4, <2>5, Zenon DEF BTypes, BMutex, BBoot, BInside
  <2>7. BCounts'
    BY <1>0, <2>1, Zenon DEF BCounts, BCnt, BAt, num_threads
  <2>8. BPhases'
    <3>1. BCnt({"103", "107"})' = 0
      BY <2>1, BCountingNext DEF BCountFacts
    <3>2. \A t \in Threads : BArrivals(t)' = 0
      BY <2>1 DEF BArrivals, One, BBefore
    <3> QED BY <2>1, <2>5, <3>1, <3>2, Zenon DEF Setting, BPhases, BGather, BArrived, One
  <2> QED BY <2>6, <2>7, <2>8 DEF BInv
<1>4. CASE JoinChildren \/ UnlinkAll
  <2>1. /\ UNCHANGED <<pc, sem, num_arrived, i, round, stale>>
        /\ boot'.at \in {"unlink", "end"} /\ boot' \in BBoots /\ shm' \subseteq BSems
    <3>1. CASE JoinChildren
      BY <1>0, <3>1 DEF JoinChildren, MainAt, BBoots, BTypes
    <3>2. CASE UnlinkAll
      BY <1>0, <1>1, <3>2 DEF UnlinkAll, Sem_unlink, MainAt, MainPast, BBoots, BTypes
    <3> QED BY <1>4, <3>1, <3>2, Zenon
  <2>2. BTypes' /\ BMutex' /\ BBoot'
    <3>1. BTypes' /\ BMutex'
      BY <1>0, <2>1 DEF BTypes, BMutex
    <3>2. BBoot'
      BY <2>1 DEF BBoot
    <3> QED BY <3>1, <3>2, Zenon
  <2>3. BCounts' /\ BPhases'
    BY <1>0, <2>1, ZenonT(30)
    DEF BCounts, BPhases, BGather, BPost1, BDrain, BPost2, BCnt, BAt, BArrivals, num_threads
  <2> QED BY <2>2, <2>3 DEF BInv
<1> QED BY <1>2, <1>3, <1>4 DEF Main

\* A run that is killed leaves names behind, never a thread or a token.
LEMMA BKill == ASSUME Setting, BInv, KillAndRerun PROVE BInv'
<1>0. BTypes
  BY DEF BInv
<1>1. /\ boot' = [at |-> "open", k |-> 1] /\ shm' = shm /\ num_arrived' = 0 /\ stale' = FALSE
      /\ sem' = [x \in BSems |-> 0] /\ pc' = [t \in Threads |-> "none"]
      /\ i' = [t \in Threads |-> 0] /\ round' = [t \in Threads |-> 1]
  BY <1>0 DEF KillAndRerun, Kill, NoChildren, MainAt, BTypes
<1>2. BTypes'
  <2>1. boot' \in BBoots
    BY <1>1 DEF BBoots
  <2>2. pc' \in [Threads -> BLabels] /\ i' \in [Threads -> Nat] /\ round' \in [Threads -> Nat]
    BY <1>1 DEF BLabels
  <2>3. sem' \in [BSems -> Nat] /\ shm' \subseteq BSems
    BY <1>0, <1>1 DEF BTypes
  <2> QED BY <1>1, <2>1, <2>2, <2>3, Zenon DEF BTypes
<1>3. \A L : (\A t \in Threads : pc'[t] \notin L) => BCnt(L)' = 0
  BY BCountingNext DEF BCountFacts
<1>4. BCounts'
  BY <1>1, <1>3, BCounting DEF BCounts, BArrived, num_threads
<1>5. BMutex' /\ BBoot'
  BY <1>1 DEF BMutex, BBoot, BInside, BSems
<1>6. BPhases'
  <2>1. \A t \in Threads : BArrivals(t)' = 0
    BY <1>1 DEF BArrivals, One, BBefore
  <2> QED BY <1>1, <1>3, <2>1, Zenon DEF Setting, BPhases, BGather, BArrived, BSems, One
<1> QED BY <1>2, <1>4, <1>5, <1>6 DEF BInv

\* A step of barrier.c keeps the invariant.
LEMMA BStep ==
  ASSUME Setting PROVE BInv /\ [Next]_vars => BInv'
<1> SUFFICES ASSUME BInv, [Next]_vars PROVE BInv'
  OBVIOUS
<1>1. ASSUME NEW t \in Threads, Child(t) PROVE BInv'
  BY <1>1, BChildSimple, BChildPhase, Zenon DEF BInv
<1>2. CASE UNCHANGED vars
  BY <1>2, Zenon DEF vars, BInv, BTypes, BMutex, BBoot, BCounts, BPhases, BGather, BPost1, BDrain, BPost2, BCnt, BAt,
              BArrivals, num_threads
<1> QED BY <1>1, <1>2, BMain, BKill DEF Next, Terminated, vars

\* What the invariant says.
LEMMA BShows ==
  ASSUME Setting PROVE BInv => BeforeAfter /\ TokensBelong /\ CounterExclusive /\ TypeOK
<1> SUFFICES ASSUME BInv PROVE BeforeAfter /\ TokensBelong /\ CounterExclusive /\ TypeOK
  OBVIOUS
<1>0. BTypes /\ BMutex /\ BCounts /\ BPhases
  BY DEF BInv
<1>1. CounterExclusive
  BY <1>0, Zenon DEF BMutex, BInside, CounterExclusive
<1>2. BeforeAfter
  <2> SUFFICES ASSUME ~stale, NEW t \in Threads, NEW u \in Threads, pc[t] = "after"
               PROVE  \/ round[u] > round[t]
                      \/ round[u] = round[t] /\ pc[u] \notin {"none", "before"}
    BY DEF BeforeAfter
  <2>1. BGather \/ BPost2
    BY <1>0 DEF BPhases, BPost1, BDrain
  <2>2. /\ round[t] \in Nat /\ round[u] \in Nat /\ BArrivals(t) = round[t]
        /\ BArrivals(u) = round[u] - One(pc[u] \in BBefore)
    BY <1>0 DEF BTypes, BArrivals, BBefore, One
  <2>3. BArrivals(u) = round[t] + One(pc[u] \in BArrived) \/ BArrivals(u) = round[t]
    BY <2>1, <2>2 DEF BGather, BPost2, BArrived, One
  <2> QED BY <2>2, <2>3 DEF One, BBefore, BArrived
<1>3. TokensBelong
  <2> SUFFICES ASSUME ~stale, \A t \in Threads : pc[t] \notin {"59", "98"}
               PROVE  /\ sem["turnstile1"] \in {0, BCnt({"74", "78"})}
                      /\ sem["turnstile2"] \in {0, BCnt({"103", "107"})}
    BY Zenon DEF num_threads, TokensBelong, BCnt, BAt
  <2> QED BY <1>0 DEF BPhases, BGather, BPost1, BDrain, BPost2
<1>4. TypeOK
  <2>1. /\ num_threads \in Nat /\ sem["turnstile1"] \in Nat /\ sem["turnstile2"] \in Nat
        /\ \A L : BCnt(L) \in Nat /\ BCnt(L) <= num_threads
    BY <1>0, BCounting DEF BCountFacts, BTypes, BSems
  <2>2. ~stale => sem["turnstile1"] \in 0..num_threads /\ sem["turnstile2"] \in 0..num_threads
    <3> SUFFICES ASSUME ~stale PROVE sem["turnstile1"] <= num_threads /\ sem["turnstile2"] <= num_threads
      BY <2>1
    <3>1. CASE BGather \/ BDrain
      BY <2>1, <3>1 DEF BGather, BDrain
    <3>2. CASE BPost1
      BY <1>0, <2>1, <3>2 DEF BPost1, BCounts
    <3>3. CASE BPost2
      BY <1>0, <2>1, <3>3 DEF BPost2, BCounts
    <3> QED BY <1>0, <3>1, <3>2, <3>3, Zenon DEF BPhases
  <2>3. num_arrived \in 0..num_threads
    BY <1>0, <2>1 DEF BCounts, BTypes
  <2> QED BY <1>0, <2>2, <2>3, Zenon DEF TypeOK, BTypes, BMutex, BLabels, BSems
<1> QED BY <1>1, <1>2, <1>3, <1>4
=============================================================================
