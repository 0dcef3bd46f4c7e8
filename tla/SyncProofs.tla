----------------------------- MODULE SyncProofs -----------------------------
(***************************************************************************)
(* Proofs about the locks: the no-starve mutex and the reader-writer lock  *)
(* of chapter 31, the ticket lock of the xv6 threads, and the semaphore    *)
(* Zem_t of the web server, for any finite sets of threads.  The first two *)
(* have the names pc and sem in common; a theorem is about one of them.    *)
(***************************************************************************)
EXTENDS Locks, NoStarveMutex, Zem, FiniteSetTheorems, TLAPS

\* The threads that hold a token, and those that hold the semaphore mutex.
TokenHolders == Cardinality(At(TokenLabels))
MutexHolders == Cardinality(At(MutexLabels))

\* The room counters are exact; with clean names a thread between its load and
\* its store of room2 has loaded the value that is still there.
RoomsInv ==
  /\ RoomsExact
  /\ ~stale => \A t \in Workers : pc[t] \in {"38s", "51s"} => reg[t] = room2

\* The inductive invariant: the tokens given out bound the semaphores and the
\* threads at the statements between them, and so the counters stay exact.
IInv == MutexTypeOK /\ TokenInv /\ RoomsInv

\* The semaphores S together hold one token, or exactly one thread is at the
\* statements L that are executed with it.
OneToken(S, L) ==
  /\ \A s \in S : sem[s] \in 0..1
  /\ \A r, s \in S : sem[r] = 1 /\ sem[s] = 1 => r = s
  /\ \A s \in S : \A t \in Workers : ~(sem[s] = 1 /\ pc[t] \in L)
  /\ \A t, u \in Workers : pc[t] \in L /\ pc[u] \in L => t = u
  /\ (\E s \in S : sem[s] = 1) \/ (\E t \in Workers : pc[t] \in L)

CleanToken == ~stale => OneToken({"t1", "t2"}, TokenLabels)

\* How one thread's move changes the occupancy of a room.
LEMMA Occupancy ==
  ASSUME NEW t \in Workers, NEW S \in SUBSET Workers
  PROVE  /\ Cardinality(S) \in Nat
         /\ t \notin S => Cardinality(S \cup {t}) = Cardinality(S) + 1
         /\ t \in S => /\ Cardinality(S) > 0
                       /\ Cardinality(S \ {t}) = Cardinality(S) - 1
<1>1. IsFiniteSet(S)
  BY WorkersFinite, FS_Subset
<1>2. Cardinality(S) \in Nat
  BY <1>1, FS_CardinalityType
<1>3. t \notin S => Cardinality(S \cup {t}) = Cardinality(S) + 1
  BY <1>1, FS_AddElement
<1>4. t \in S => Cardinality(S \ {t}) = Cardinality(S) - 1
  BY <1>1, FS_RemoveElement
<1>5. t \in S => Cardinality(S) > 0
  BY <1>1, <1>2, FS_EmptySet
<1> QED BY <1>2, <1>3, <1>4, <1>5

\* The same for the threads at the statements L, when t goes on to l.
LEMMA Moves ==
  ASSUME pc \in [Workers -> Labels], NEW t \in Workers, NEW l \in Labels,
         pc' = [pc EXCEPT ![t] = l], NEW L
  PROVE  /\ Cardinality(At(L)) \in Nat /\ Cardinality(At(L)') \in Nat
         /\ pc[t] \notin L /\ l \in L => Cardinality(At(L)') = Cardinality(At(L)) + 1
         /\ pc[t] \in L /\ l \notin L => Cardinality(At(L)') = Cardinality(At(L)) - 1
         /\ (pc[t] \in L <=> l \in L) => Cardinality(At(L)') = Cardinality(At(L))
<1> DEFINE A == {u \in Workers : pc[u] \in L}
           B == {u \in Workers : pc'[u] \in L}
<1>1. A \in SUBSET Workers /\ B \in SUBSET Workers
  BY Zenon
<1>2. pc[t] \notin L /\ l \in L => t \notin A /\ B = A \cup {t}
  BY Zenon
<1>3. pc[t] \in L /\ l \notin L => t \in A /\ B = A \ {t}
  BY Zenon
<1>4. (pc[t] \in L <=> l \in L) => B = A
  BY Zenon
<1> HIDE DEF A, B
<1>5. /\ Cardinality(A) \in Nat /\ Cardinality(B) \in Nat
      /\ t \notin A => Cardinality(A \cup {t}) = Cardinality(A) + 1
      /\ t \in A => Cardinality(A \ {t}) = Cardinality(A) - 1
  BY <1>1, Occupancy, Zenon
<1>6. /\ Cardinality(A) \in Nat /\ Cardinality(B) \in Nat
      /\ pc[t] \notin L /\ l \in L => Cardinality(B) = Cardinality(A) + 1
      /\ pc[t] \in L /\ l \notin L => Cardinality(B) = Cardinality(A) - 1
      /\ (pc[t] \in L <=> l \in L) => Cardinality(B) = Cardinality(A)
  BY ONLY <1>2, <1>3, <1>4, <1>5, Zenon
<1> QED BY <1>6, Zenon DEF A, B, At

\* The first run starts with its token in t1 and its rooms empty.
LEMMA InitIInv == MutexInit => IInv
<1> SUFFICES ASSUME MutexInit PROVE IInv
  OBVIOUS
<1>1. MutexTypeOK
  <2>1. pc \in [Workers -> Labels]
    BY Zenon DEF MutexInit, Labels
  <2>5. reg \in [Workers -> Int]
    BY DEF MutexInit
  <2>2. sem \in [MutexSemaphores -> Nat]
    BY DEF MutexInit, MutexSemaphores
  <2>3. room1 \in Nat /\ room2 \in Int
    BY DEF MutexInit
  <2>4. stale \in BOOLEAN
    BY Zenon DEF MutexInit
  <2> QED BY <2>1, <2>2, <2>3, <2>4, <2>5, Zenon DEF MutexTypeOK
<1>2. /\ At(TokenLabels) = {} /\ At(MutexLabels) = {}
      /\ InRoom1 = {} /\ InRoom2 = {}
  BY DEF MutexInit, At, TokenLabels, MutexLabels, InRoom1, InRoom2
<1>3. Cardinality({}) = 0
  BY FS_EmptySet
<1>4. TokenInv
  BY <1>2, <1>3 DEF MutexInit, TokenInv, Tokens, MutexSemaphores
<1>5. RoomsInv
  BY <1>2, <1>3 DEF MutexInit, RoomsInv, RoomsExact
<1> QED BY <1>1, <1>4, <1>5 DEF IInv

\* A run after a kill starts with one token in each turnstile.
LEMMA KillIInv == Kill => IInv'
<1> SUFFICES ASSUME Kill PROVE IInv'
  OBVIOUS
<1>1. MutexTypeOK'
  BY DEF Kill, MutexTypeOK, MutexSemaphores, Labels
<1>2. /\ At(TokenLabels)' = {} /\ At(MutexLabels)' = {}
      /\ InRoom1' = {} /\ InRoom2' = {}
  BY DEF Kill, At, TokenLabels, MutexLabels, InRoom1, InRoom2
<1>3. Cardinality({}) = 0
  BY FS_EmptySet
<1>4. TokenInv'
  BY <1>2, <1>3 DEF Kill, TokenInv, Tokens, MutexSemaphores
<1>5. RoomsInv'
  BY <1>2, <1>3 DEF Kill, RoomsInv, RoomsExact
<1> QED BY <1>1, <1>4, <1>5 DEF IInv

\* What the number of tokens says of the semaphores and the threads: the
\* semaphore mutex has one holder, and with clean names so has the token.
LEMMA TokenFacts ==
  ASSUME MutexTypeOK, TokenInv
  PROVE  OneToken({"mutex"}, MutexLabels) /\ CleanToken
<1>1. /\ sem["t1"] \in Nat /\ sem["t2"] \in Nat /\ sem["mutex"] \in Nat
  BY DEF MutexTypeOK, MutexSemaphores
<1>2. ASSUME NEW L, NEW n \in Nat, n + Cardinality(At(L)) = 1
      PROVE  /\ n \in 0..1
             /\ n = 1 => \A t \in Workers : pc[t] \notin L
             /\ n = 0 => \E t \in Workers : pc[t] \in L
             /\ \A t, u \in Workers : pc[t] \in L /\ pc[u] \in L => t = u
  <2> DEFINE A == At(L)
  <2>1. A \in SUBSET Workers /\ IsFiniteSet(A) /\ IsFiniteSet({})
    BY WorkersFinite, FS_Subset, FS_EmptySet DEF At
  <2>2. \A t \in Workers : (t \in A) <=> (pc[t] \in L)
    BY Zenon DEF At
  <2> HIDE DEF A
  <2>3. Cardinality(A) \in Nat /\ n + Cardinality(A) = 1
    BY <1>2, <2>1, FS_CardinalityType DEF A
  <2>4. Cardinality(A) = 0 <=> A = {}
    BY <2>1, FS_EmptySet
  <2>5. n \in 0..1 /\ (n = 1 => A = {}) /\ (n = 0 => A # {})
    BY ONLY <1>2, <2>3, <2>4
  <2>6. ASSUME NEW t \in A, NEW u \in A, t # u PROVE FALSE
    <3>1. /\ Cardinality(A \ {t}) = Cardinality(A) - 1
          /\ Cardinality(A \ {t}) > 0
      <4>1. t \in Workers /\ u \in Workers /\ A \ {t} \in SUBSET Workers /\ u \in A \ {t}
        BY <2>1, <2>6
      <4> QED BY <2>1, <2>6, <4>1, Occupancy, ZenonT(30)
    <3> QED BY ONLY <1>2, <2>3, <3>1
  <2> QED BY ONLY <2>1, <2>2, <2>5, <2>6, Zenon
<1>3. OneToken({"mutex"}, MutexLabels)
  BY <1>1, <1>2 DEF TokenInv, OneToken
<1>4. ASSUME ~stale PROVE OneToken({"t1", "t2"}, TokenLabels)
  <2> DEFINE n == sem["t1"] + sem["t2"]
  <2>1. n \in Nat /\ n + Cardinality(At(TokenLabels)) = 1
    BY <1>1, <1>4 DEF TokenInv, Tokens
  <2>2. /\ n \in 0..1
        /\ n = 1 => \A t \in Workers : pc[t] \notin TokenLabels
        /\ n = 0 => \E t \in Workers : pc[t] \in TokenLabels
        /\ \A t, u \in Workers : pc[t] \in TokenLabels /\ pc[u] \in TokenLabels => t = u
    BY <1>2, <2>1
  <2> QED BY <1>1, <2>2 DEF OneToken
<1> QED BY <1>3, <1>4 DEF CleanToken

\* What a statement of worker t does to the tokens: it takes one or gives one
\* back, of the turnstiles or of the semaphore mutex, or it does neither.
LEMMA TokenCases ==
  ASSUME NEW t \in Workers, Step(t)
  PROVE  \E l \in Labels :
           /\ pc' = [pc EXCEPT ![t] = l]
           /\ \/ /\ Sem_wait("mutex") /\ pc[t] \notin MutexLabels /\ l \in MutexLabels
                 /\ pc[t] \in TokenLabels <=> l \in TokenLabels
              \/ /\ Sem_post("mutex") /\ pc[t] \in MutexLabels /\ l \notin MutexLabels
                 /\ pc[t] \in TokenLabels <=> l \in TokenLabels
              \/ /\ \E s \in {"t1", "t2"} : Sem_wait(s)
                 /\ pc[t] \notin TokenLabels /\ l \in TokenLabels
                 /\ pc[t] \in MutexLabels <=> l \in MutexLabels
              \/ /\ \E s \in {"t1", "t2"} : Sem_post(s)
                 /\ pc[t] \in TokenLabels /\ l \notin TokenLabels
                 /\ pc[t] \in MutexLabels <=> l \in MutexLabels
              \/ /\ sem' = sem
                 /\ pc[t] \in TokenLabels <=> l \in TokenLabels
                 /\ pc[t] \in MutexLabels <=> l \in MutexLabels
<1> USE DEF WaitStep, PostStep, LocalStep, Goto, Labels, TokenLabels, MutexLabels
<1>1. CASE EnterRoom1(t)
  BY <1>1, SMTT(30) DEF EnterRoom1
<1>2. CASE EnterRoom2(t)
  BY <1>2, SMTT(30) DEF EnterRoom2, LoadRoom2, StoreRoom2
<1>3. CASE LeaveRoom1(t)
  BY <1>3, SMTT(30) DEF LeaveRoom1
<1>4. CASE PassToken(t)
  BY <1>4, SMTT(30) DEF PassToken
<1>5. CASE LeaveRoom2(t)
  BY <1>5, SMTT(30) DEF LeaveRoom2, LoadRoom2, StoreRoom2
<1>6. CASE Release(t)
  BY <1>6, SMTT(30) DEF Release
<1> QED BY <1>1, <1>2, <1>3, <1>4, <1>5, <1>6, ZenonT(30) DEF Step

\* No statement of any worker loses or makes a token.
LEMMA TokenStep ==
  ASSUME MutexTypeOK, TokenInv, NEW t \in Workers, Step(t)
  PROVE  /\ TokenInv'
         /\ pc' \in [Workers -> Labels]
         /\ sem' \in [MutexSemaphores -> Nat]
<1>1. /\ pc \in [Workers -> Labels] /\ sem \in [MutexSemaphores -> Nat]
      /\ sem["t1"] + sem["t2"] + TokenHolders = Tokens
      /\ sem["mutex"] + MutexHolders = 1
      /\ Tokens' = Tokens /\ Tokens \in Nat
  BY DEF MutexTypeOK, TokenInv, TokenHolders, MutexHolders, Step, Tokens
<1>2. SUFFICES /\ pc' \in [Workers -> Labels] /\ sem' \in [MutexSemaphores -> Nat]
               /\ sem'["t1"] + sem'["t2"] + TokenHolders' = Tokens
               /\ sem'["mutex"] + MutexHolders' = 1
  BY <1>1 DEF TokenInv, TokenHolders, MutexHolders
<1>3. PICK l \in Labels :
        /\ pc' = [pc EXCEPT ![t] = l]
        /\ \/ /\ Sem_wait("mutex") /\ pc[t] \notin MutexLabels /\ l \in MutexLabels
              /\ pc[t] \in TokenLabels <=> l \in TokenLabels
           \/ /\ Sem_post("mutex") /\ pc[t] \in MutexLabels /\ l \notin MutexLabels
              /\ pc[t] \in TokenLabels <=> l \in TokenLabels
           \/ /\ \E s \in {"t1", "t2"} : Sem_wait(s)
              /\ pc[t] \notin TokenLabels /\ l \in TokenLabels
              /\ pc[t] \in MutexLabels <=> l \in MutexLabels
           \/ /\ \E s \in {"t1", "t2"} : Sem_post(s)
              /\ pc[t] \in TokenLabels /\ l \notin TokenLabels
              /\ pc[t] \in MutexLabels <=> l \in MutexLabels
           \/ /\ sem' = sem
              /\ pc[t] \in TokenLabels <=> l \in TokenLabels
              /\ pc[t] \in MutexLabels <=> l \in MutexLabels
  BY TokenCases, Zenon
<1>5. /\ TokenHolders \in Nat /\ TokenHolders' \in Nat
      /\ pc[t] \notin TokenLabels /\ l \in TokenLabels => TokenHolders' = TokenHolders + 1
      /\ pc[t] \in TokenLabels /\ l \notin TokenLabels => TokenHolders' = TokenHolders - 1
      /\ (pc[t] \in TokenLabels <=> l \in TokenLabels) => TokenHolders' = TokenHolders
  BY <1>1, <1>3, Moves, Zenon DEF TokenHolders
<1>6. /\ MutexHolders \in Nat /\ MutexHolders' \in Nat
      /\ pc[t] \notin MutexLabels /\ l \in MutexLabels => MutexHolders' = MutexHolders + 1
      /\ pc[t] \in MutexLabels /\ l \notin MutexLabels => MutexHolders' = MutexHolders - 1
      /\ (pc[t] \in MutexLabels <=> l \in MutexLabels) => MutexHolders' = MutexHolders
  BY <1>1, <1>3, Moves, Zenon DEF MutexHolders
<1> HIDE DEF TokenHolders, MutexHolders, Tokens
<1>7. pc' \in [Workers -> Labels]
  BY <1>1, <1>3, Zenon
<1>8. /\ sem' \in [MutexSemaphores -> Nat]
      /\ sem'["t1"] + sem'["t2"] + TokenHolders' = Tokens
      /\ sem'["mutex"] + MutexHolders' = 1
  BY ONLY <1>1, <1>3, <1>5, <1>6 DEF Sem_wait, Sem_post, MutexSemaphores
<1> QED BY <1>7, <1>8

\* What a statement of worker t does to the rooms: it counts t in or out of one
\* of them, it loads room2, or it does neither.
LEMMA RoomsCases ==
  ASSUME NEW t \in Workers, Step(t)
  PROVE  \/ pc[t] = "34" /\ pc' = [pc EXCEPT ![t] = "35"]
            /\ room1' = room1 + 1 /\ UNCHANGED <<room2, reg>>
         \/ /\ pc[t] = "40" /\ \E l \in {"43", "46"} : pc' = [pc EXCEPT ![t] = l]
            /\ room1' = room1 - 1 /\ UNCHANGED <<room2, reg>>
         \/ \E p \in {<<"38", "38s">>, <<"51", "51s">>} :
              /\ pc[t] = p[1] /\ pc' = [pc EXCEPT ![t] = p[2]]
              /\ UNCHANGED <<room1, room2>> /\ reg' = [reg EXCEPT ![t] = room2]
         \/ /\ pc[t] = "38s" /\ pc' = [pc EXCEPT ![t] = "39"]
            /\ UNCHANGED room1 /\ room2' = reg[t] + 1 /\ reg' = [reg EXCEPT ![t] = 0]
         \/ /\ pc[t] = "51s" /\ pc' = [pc EXCEPT ![t] = "cs"]
            /\ UNCHANGED room1 /\ room2' = reg[t] + (-1) /\ reg' = [reg EXCEPT ![t] = 0]
         \/ /\ UNCHANGED rooms
            /\ \E l \in Labels \ {"38s", "51s"} :
                 /\ pc' = [pc EXCEPT ![t] = l]
                 /\ pc[t] \in {"35", "37", "38", "38s", "39", "40"}
                      <=> l \in {"35", "37", "38", "38s", "39", "40"}
                 /\ pc[t] \in {"39", "40", "43", "44", "46", "47", "50", "51", "51s"}
                      <=> l \in {"39", "40", "43", "44", "46", "47", "50", "51", "51s"}
<1> USE DEF WaitStep, PostStep, LocalStep, Goto, rooms, Labels
<1>1. CASE EnterRoom1(t)
  BY <1>1 DEF EnterRoom1
<1>2. CASE EnterRoom2(t)
  BY <1>2 DEF EnterRoom2, LoadRoom2, StoreRoom2
<1>3. CASE LeaveRoom1(t)
  BY <1>3 DEF LeaveRoom1
<1>4. CASE PassToken(t)
  BY <1>4 DEF PassToken
<1>5. CASE LeaveRoom2(t)
  BY <1>5 DEF LeaveRoom2, LoadRoom2, StoreRoom2
<1>6. CASE Release(t)
  BY <1>6 DEF Release
<1> QED BY <1>1, <1>2, <1>3, <1>4, <1>5, <1>6, Zenon DEF Step

\* No statement of any worker makes a counter wrong.
LEMMA RoomsStep ==
  ASSUME MutexTypeOK, TokenInv, RoomsInv, NEW t \in Workers, Step(t)
  PROVE  /\ RoomsInv'
         /\ room1' \in Nat /\ room2' \in Int /\ reg' \in [Workers -> Int]
<1>1. /\ pc \in [Workers -> Labels] /\ room1 \in Nat /\ room2 \in Int
      /\ reg \in [Workers -> Int] /\ stale' = stale
      /\ room1 = Cardinality(InRoom1)
      /\ ~stale => room2 = Cardinality(InRoom2)
      /\ ~stale => \A u \in Workers : pc[u] \in {"38s", "51s"} => reg[u] = room2
  BY DEF MutexTypeOK, RoomsInv, RoomsExact, Step
<1>2. ~stale => \A u \in Workers : pc[u] \in TokenLabels /\ pc[t] \in TokenLabels => u = t
  BY TokenFacts, Zenon DEF OneToken, CleanToken
<1>3. InRoom1 \in SUBSET Workers /\ InRoom2 \in SUBSET Workers
  BY DEF InRoom1, InRoom2, At
<1>4. SUFFICES /\ room1' \in Nat /\ room2' \in Int /\ reg' \in [Workers -> Int]
               /\ room1' = Cardinality(InRoom1')
               /\ ~stale => room2' = Cardinality(InRoom2')
               /\ ~stale => \A u \in Workers : pc'[u] \in {"38s", "51s"} => reg'[u] = room2'
  BY <1>1 DEF RoomsInv, RoomsExact
<1>5. CASE pc[t] = "34" /\ pc' = [pc EXCEPT ![t] = "35"]
           /\ room1' = room1 + 1 /\ UNCHANGED <<room2, reg>>
  <2>1. InRoom1' = InRoom1 \cup {t} /\ t \notin InRoom1 /\ InRoom2' = InRoom2
    BY <1>1, <1>5 DEF InRoom1, InRoom2, At
  <2> QED BY <1>1, <1>3, <1>5, <2>1, Occupancy
<1>6. CASE /\ pc[t] = "40" /\ \E l \in {"43", "46"} : pc' = [pc EXCEPT ![t] = l]
           /\ room1' = room1 - 1 /\ UNCHANGED <<room2, reg>>
  <2>1. InRoom1' = InRoom1 \ {t} /\ t \in InRoom1 /\ InRoom2' = InRoom2
    BY <1>1, <1>6 DEF InRoom1, InRoom2, At
  <2> QED BY <1>1, <1>3, <1>6, <2>1, Occupancy
<1>7. CASE \E p \in {<<"38", "38s">>, <<"51", "51s">>} :
             /\ pc[t] = p[1] /\ pc' = [pc EXCEPT ![t] = p[2]]
             /\ UNCHANGED <<room1, room2>> /\ reg' = [reg EXCEPT ![t] = room2]
  <2>1. InRoom1' = InRoom1 /\ InRoom2' = InRoom2
    BY <1>1, <1>7 DEF InRoom1, InRoom2, At
  <2> QED BY <1>1, <1>7, <2>1
<1>8. CASE /\ pc[t] = "38s" /\ pc' = [pc EXCEPT ![t] = "39"]
           /\ UNCHANGED room1 /\ room2' = reg[t] + 1 /\ reg' = [reg EXCEPT ![t] = 0]
  <2>1. InRoom2' = InRoom2 \cup {t} /\ t \notin InRoom2 /\ InRoom1' = InRoom1
    BY <1>1, <1>8 DEF InRoom1, InRoom2, At
  <2>2. ~stale => \A u \in Workers : pc'[u] \notin {"38s", "51s"}
    BY <1>1, <1>2, <1>8 DEF TokenLabels
  <2> QED BY <1>1, <1>3, <1>8, <2>1, <2>2, Occupancy
<1>9. CASE /\ pc[t] = "51s" /\ pc' = [pc EXCEPT ![t] = "cs"]
           /\ UNCHANGED room1 /\ room2' = reg[t] + (-1) /\ reg' = [reg EXCEPT ![t] = 0]
  <2>1. InRoom2' = InRoom2 \ {t} /\ t \in InRoom2 /\ InRoom1' = InRoom1
    BY <1>1, <1>9 DEF InRoom1, InRoom2, At
  <2>2. ~stale => \A u \in Workers : pc'[u] \notin {"38s", "51s"}
    BY <1>1, <1>2, <1>9 DEF TokenLabels
  <2> QED BY <1>1, <1>3, <1>9, <2>1, <2>2, Occupancy
<1>10. CASE /\ UNCHANGED rooms
            /\ \E l \in Labels \ {"38s", "51s"} :
                 /\ pc' = [pc EXCEPT ![t] = l]
                 /\ pc[t] \in {"35", "37", "38", "38s", "39", "40"}
                      <=> l \in {"35", "37", "38", "38s", "39", "40"}
                 /\ pc[t] \in {"39", "40", "43", "44", "46", "47", "50", "51", "51s"}
                      <=> l \in {"39", "40", "43", "44", "46", "47", "50", "51", "51s"}
  <2>1. InRoom1' = InRoom1 /\ InRoom2' = InRoom2
    BY <1>1, <1>10, Zenon DEF InRoom1, InRoom2, At
  <2>2. \A u \in Workers : pc'[u] \in {"38s", "51s"} => pc[u] \in {"38s", "51s"}
    BY <1>1, <1>10, Zenon
  <2> QED BY <1>1, <1>10, <2>1, <2>2, Zenon DEF rooms
<1> QED BY RoomsCases, <1>5, <1>6, <1>7, <1>8, <1>9, <1>10, Zenon

\* The invariant holds throughout every run of the program, killed ones and
\* those that follow them included.
LEMMA Invariance == MutexSpec => []IInv
<1>1. IInv /\ [MutexNext]_mutexVars => IInv'
  <2> SUFFICES ASSUME IInv, [MutexNext]_mutexVars PROVE IInv'
    OBVIOUS
  <2>1. CASE UNCHANGED mutexVars
    BY <2>1 DEF IInv, mutexVars, MutexTypeOK, TokenInv, Tokens, RoomsInv, RoomsExact, InRoom1, InRoom2, At
  <2>2. ASSUME NEW t \in Workers, Step(t) PROVE IInv'
    <3>1. stale' \in BOOLEAN
      BY <2>2, Zenon DEF IInv, MutexTypeOK, Step
    <3> QED BY <2>2, <3>1, RoomsStep, TokenStep, Zenon DEF IInv, MutexTypeOK
  <2>3. CASE Kill
    BY <2>3, KillIInv
  <2> QED BY <2>1, <2>2, <2>3, Zenon DEF MutexNext
<1> QED BY <1>1, InitIInv, PTL DEF MutexSpec

\* Types: no semaphore of the no-starve mutex and no count of room 1 is ever
\* negative.
THEOREM TypeCorrect == MutexSpec => []MutexTypeOK
BY Invariance, PTL DEF IInv

\* ns_mutex_acquire admits one thread at a time, and two in a run that found
\* the names of a killed one.
THEOREM MutualExclusionHolds == MutexSpec => []MutualExclusion
<1>1. IInv => MutualExclusion
  <2> SUFFICES ASSUME MutexTypeOK, TokenInv PROVE MutualExclusion
    BY DEF IInv
  <2>1. At({"cs"}) \subseteq At(TokenLabels) /\ IsFiniteSet(At(TokenLabels))
    BY WorkersFinite, FS_Subset DEF At, TokenLabels
  <2>2. /\ Cardinality(At({"cs"})) <= Cardinality(At(TokenLabels))
        /\ Cardinality(At({"cs"})) \in Nat /\ Cardinality(At(TokenLabels)) \in Nat
    BY <2>1, FS_Subset, FS_CardinalityType
  <2> QED BY <2>2 DEF MutexTypeOK, MutexSemaphores, TokenInv, Tokens, MutualExclusion
<1> QED BY <1>1, Invariance, PTL

\* The accesses to room1 never race, nor do those to room2, which has no lock,
\* in a run with clean names.
THEOREM RaceFreedom == MutexSpec => []RaceFree
<1>1. IInv => RaceFree
  <2> SUFFICES ASSUME IInv, NEW t \in Workers, NEW u \in Workers, t # u
               PROVE  /\ ~({pc[t], pc[u]} \subseteq {"34", "40"})
                      /\ ~stale => ~({pc[t], pc[u]} \subseteq {"38", "38s", "51", "51s", "55"})
    BY DEF RaceFree
  <2>1. /\ pc[t] \in MutexLabels /\ pc[u] \in MutexLabels => t = u
        /\ ~stale /\ pc[t] \in TokenLabels /\ pc[u] \in TokenLabels => t = u
    BY TokenFacts, Zenon DEF IInv, OneToken, CleanToken
  <2> QED BY ONLY t # u, <2>1 DEF MutexLabels, TokenLabels
<1> QED BY <1>1, Invariance, PTL

\* No token is lost or made, and the room counters are exact: room1 always,
\* room2 in a run with clean names.
THEOREM TokenConserved == MutexSpec => [](TokenInv /\ RoomsExact)
BY Invariance, PTL DEF IInv, RoomsInv
-----------------------------------------------------------------------------
(***************************************************************************)
(* Bounded overtaking.  The token alternates between two phases.  While    *)
(* the threads gather, it passes t1 and nobody enters the critical         *)
(* section; while they drain, it passes t2 and nobody enters room 2.       *)
(***************************************************************************)
Draining ==
  \/ sem["t2"] = 1
  \/ \E t \in Workers : pc[t] \in {"43", "44", "51", "51s", "cs", "55", "58"}

\* How often u may have overtaken t.  A thread in room 1 that sees the others
\* drain has arrived during this drain, which each of them leaves once; a
\* thread in room 2 may have seen one drain before.
BypassBound(t, u) ==
  IF ~Announced(t) THEN 0
  ELSE IF ~Draining THEN 1
  ELSE (IF t \in InRoom1 THEN 0 ELSE 1) + (IF u \in InRoom2 THEN 0 ELSE 1)

BypassInv ==
  /\ overtaken \in [Workers -> [Workers -> 0..OvertakeCap]]
  /\ ~stale => \A t, u \in Workers : overtaken[t][u] <= BypassBound(t, u)

\* No statement of any worker lets another one overtake more than that.
LEMMA BypassStep ==
  ASSUME IInv, IInv', CleanToken', BypassInv, NEW s \in Workers, Step(s),
         overtaken' = [v \in Workers |-> [u \in Workers |-> Count(v, u)]]
  PROVE  BypassInv'
<1> USE DEF WaitStep, PostStep, LocalStep, Goto, Sem_wait, Sem_post, OvertakeCap
<1>1. \A t, u \in Workers : Count(t, u) \in 0..OvertakeCap
  BY DEF BypassInv, Count
<1>s. SUFFICES ASSUME ~stale
               PROVE  \A t, u \in Workers : Count(t, u) <= BypassBound(t, u)'
  BY <1>1 DEF BypassInv, Step
<1>2. /\ pc \in [Workers -> Labels] /\ pc' \in [Workers -> Labels]
      /\ sem \in [MutexSemaphores -> Nat]
      /\ room1 \in Nat /\ room2 \in Int /\ ~stale'
      /\ OneToken({"t1", "t2"}, TokenLabels)
  BY <1>s, TokenFacts, Zenon DEF IInv, MutexTypeOK, Step, CleanToken
<1>2a. OneToken({"t1", "t2"}, TokenLabels)'
  BY <1>2, Zenon DEF CleanToken
<1>3. (room1' = 0 => InRoom1' = {}) /\ (room2 = 0 => InRoom2 = {})
  <2>1. /\ IsFiniteSet(InRoom1') /\ IsFiniteSet(InRoom2)
    BY WorkersFinite, FS_Subset DEF InRoom1, InRoom2, At
  <2> QED BY <1>s, <2>1, FS_EmptySet DEF IInv, RoomsInv, RoomsExact
<1> SUFFICES ASSUME NEW t \in Workers, NEW u \in Workers
             PROVE  Count(t, u) <= BypassBound(t, u)'
  OBVIOUS
<1>4. overtaken[t][u] \in 0..OvertakeCap /\ overtaken[t][u] <= BypassBound(t, u)
  BY <1>s, Zenon DEF BypassInv
<1> USE <1>2, <1>2a, <1>4 DEF BypassBound, Count, Announced, Draining, InRoom1, InRoom2, At,
                       OneToken, TokenLabels, Labels, MutexSemaphores
<1>5. CASE EnterRoom1(s)
  BY <1>5 DEF EnterRoom1
<1>6. CASE EnterRoom2(s)
  BY <1>6 DEF EnterRoom2, LoadRoom2, StoreRoom2
<1>7. CASE LeaveRoom1(s)
  BY <1>3, <1>7 DEF LeaveRoom1
<1>8. CASE PassToken(s)
  BY <1>8 DEF PassToken
<1>9. CASE LeaveRoom2(s)
  BY <1>9 DEF LeaveRoom2, LoadRoom2, StoreRoom2
<1>10. CASE Release(s)
  BY <1>3, <1>10 DEF Release
<1> QED BY <1>5, <1>6, <1>7, <1>8, <1>9, <1>10, Zenon DEF Step

\* The wake-up rule of the semaphores only restricts the program, so that
\* what holds of the program over any semaphores holds under the rule.
LEMMA WeakIsProgram == WeakSpec => MutexSpec
<1>1. WeakInit => MutexInit
  BY Zenon DEF WeakInit
<1>2. [WeakNext]_weakVars => [MutexNext]_mutexVars
  BY DEF WeakNext, WeakStep, WeakBlock, WeakKill, Block, MutexNext, weakVars, mutexVars
<1> QED BY <1>1, <1>2, PTL DEF WeakSpec, MutexSpec

\* In a run with clean names a worker that has announced itself in room 1 sees
\* each other worker enter the critical section at most twice before it enters.
THEOREM BypassBounded == WeakSpec => []BoundedBypass
<1>1. WeakInit => BypassInv
  BY DEF WeakInit, MutexInit, BypassInv, BypassBound, Announced, OvertakeCap
<1>2. IInv /\ IInv' /\ CleanToken' /\ BypassInv /\ [WeakNext]_weakVars => BypassInv'
  <2> SUFFICES ASSUME IInv, IInv', CleanToken', BypassInv, [WeakNext]_weakVars PROVE BypassInv'
    OBVIOUS
  <2>1. CASE UNCHANGED <<pc, sem, stale, overtaken>>
    BY <2>1 DEF BypassInv, BypassBound, Announced, Draining, InRoom1, InRoom2, At
  <2>2. ASSUME NEW s \in Workers, WeakStep(s) PROVE BypassInv'
    BY <2>2, BypassStep DEF WeakStep
  <2>3. CASE WeakKill
    BY <2>3 DEF WeakKill, Kill, BypassInv, OvertakeCap
  <2> QED BY <2>1, <2>2, <2>3 DEF WeakNext, WeakBlock, Block, weakVars
<1>3. BypassInv => BoundedBypass
  BY DEF BypassInv, BypassBound, BoundedBypass, OvertakeCap
<1>4. IInv => CleanToken
  BY TokenFacts, Zenon DEF IInv
<1> QED BY <1>1, <1>2, <1>3, <1>4, WeakIsProgram, Invariance, PTL DEF WeakSpec

\* While the names are clean, worker, ns_mutex_acquire and ns_mutex_release
\* implement the abstract mutex, its progress left aside: a step enters a free
\* critical section, leaves it, or does neither.  A kill leaves it.
THEOREM RefinesMutex == MutexSpec => AbstractMutex!SafeSpec
<1>1. MutexInit => AbstractMutex!Init
  BY Zenon DEF MutexInit, AbstractMutex!Init, holders, At
<1>2. IInv /\ [MutexNext]_mutexVars => [AbstractMutex!Next]_holders
  <2> SUFFICES ASSUME IInv, ~stale, NEW s \in Workers, Step(s)
               PROVE  AbstractMutex!StartWrite(s) \/ AbstractMutex!Finish(s) \/ UNCHANGED holders
    <3>1. CASE UNCHANGED mutexVars
      BY <3>1 DEF mutexVars, holders, At
    <3>2. CASE stale /\ \E s \in Workers : Step(s)
      BY <3>2, Zenon DEF Step, holders
    <3>3. ASSUME IInv, Kill PROVE UNCHANGED holders \/ \E s \in Workers : AbstractMutex!Finish(s)
      <4>1. holders' = {}
        BY <3>3, Zenon DEF Kill, holders
      <4>2. ASSUME NEW s \in holders PROVE s \in Workers /\ holders = {s}
        <5>1. /\ s \in Workers /\ pc[s] = "cs" /\ ~stale
              /\ holders = {u \in Workers : pc[u] = "cs"}
          BY <4>2 DEF holders, At
        <5>2. \A u \in Workers : pc[u] = "cs" => u = s
          BY <3>3, <5>1, TokenFacts DEF IInv, CleanToken, OneToken, TokenLabels
        <5> QED BY ONLY <5>1, <5>2
      <4> QED BY <4>1, <4>2 DEF AbstractMutex!Finish
    <3> QED BY <3>1, <3>2, <3>3 DEF MutexNext, AbstractMutex!Next
  <2> USE DEF WaitStep, PostStep, LocalStep, Goto
  <2>1. pc \in [Workers -> Labels]
    BY DEF IInv, MutexTypeOK
  <2>a. /\ holders = {u \in Workers : pc[u] = "cs"}
        /\ holders' = {u \in Workers : pc'[u] = "cs"}
    BY DEF holders, At, Step
  <2>2. CASE pc[s] = "51s" /\ pc' = [pc EXCEPT ![s] = "cs"]
    <3>1. \A u \in Workers : pc[u] # "cs"
      BY <2>2, TokenFacts DEF IInv, CleanToken, OneToken, TokenLabels
    <3> QED BY <2>1, <2>2, <2>a, <3>1, Zenon DEF AbstractMutex!StartWrite
  <2>3. CASE pc[s] = "cs" /\ pc' = [pc EXCEPT ![s] = "55"]
    BY <2>1, <2>3, <2>a DEF AbstractMutex!Finish
  <2>4. CASE pc[s] # "cs" /\ \E l \in Labels \ {"cs"} : pc' = [pc EXCEPT ![s] = l]
    BY <2>1, <2>4, <2>a, Zenon
  <2> QED BY <2>2, <2>3, <2>4, Zenon
          DEF Step, EnterRoom1, EnterRoom2, LoadRoom2, StoreRoom2, LeaveRoom1, PassToken,
              LeaveRoom2, Release, Labels
<1> QED BY <1>1, <1>2, Invariance, PTL DEF MutexSpec, AbstractMutex!SafeSpec
-----------------------------------------------------------------------------
(* Proofs about the reader-writer lock, for any finite set of readers and   *)
(* any set of writers.                                                      *)

\* Readers execute the reader's statements, writers the writer's.
RWRoles ==
  /\ \A r \in Readers : pc[r] \in ReaderLabels
  /\ \A w \in Writers : pc[w] \in WriterLabels

\* The statements executed by the reader that holds the semaphore lock, and
\* by a writer that holds writelock.
RWLockLabels == {"30", "32", "33", "38", "40", "41"}
WriteLabels == {"writing", "46"}

\* One reader at a time is between its Sem_wait and Sem_post of lock.
RWLockInv ==
  /\ \A r, u \in Readers : pc[r] \in RWLockLabels /\ pc[u] \in RWLockLabels => r = u
  /\ sem["lock"] = 1 => \A r \in Readers : pc[r] \notin RWLockLabels
  /\ sem["lock"] = 0 => \E r \in Readers : pc[r] \in RWLockLabels

\* The readers as a group hold writelock: some are counted and the first of
\* them is past line 32, or the last one has not yet executed line 40.
GroupHolds ==
  \/ \E r \in Readers : pc[r] = "40"
  \/ Counted # {} /\ \A r \in Readers : pc[r] # "32"

\* writelock has one holder: nobody, one writer, or the group of readers.
WriteInv ==
  /\ \A v, w \in Writers : pc[v] \in WriteLabels /\ pc[w] \in WriteLabels => v = w
  /\ GroupHolds => \A w \in Writers : pc[w] \notin WriteLabels
  /\ sem["writelock"] = 1 => ~GroupHolds /\ \A w \in Writers : pc[w] \notin WriteLabels
  /\ sem["writelock"] = 0 => GroupHolds \/ \E w \in Writers : pc[w] \in WriteLabels

\* The reader at line 32 is the only one counted, the reader at line 40 has
\* left nobody behind: what readers = 1 and readers = 0 told them still holds.
RWAlone ==
  /\ \A r \in Readers : pc[r] = "32" => Counted = {r}
  /\ \A r \in Readers : pc[r] = "40" => Counted = {}

RWInv == TypeOK /\ RWRoles /\ ReadersExact /\ RWLockInv /\ RWAlone /\ WriteInv

\* How one reader changes the count.
LEMMA RWCounting ==
  ASSUME NEW r \in Readers, NEW S \in SUBSET Readers
  PROVE  /\ Cardinality(S) \in Nat
         /\ r \notin S => Cardinality(S \cup {r}) = Cardinality(S) + 1
         /\ r \in S => Cardinality(S \ {r}) = Cardinality(S) - 1
         /\ r \in S /\ Cardinality(S) = 1 => S = {r}
<1>1. IsFiniteSet(S) /\ IsFiniteSet(S \ {r})
  BY ReadersWriters, FS_Subset, Zenon
<1>2. r \in S => Cardinality(S \ {r}) = Cardinality(S) - 1
  BY <1>1, FS_RemoveElement, Zenon
<1>3. r \in S /\ Cardinality(S) = 1 => S \ {r} = {}
  BY <1>1, <1>2, FS_EmptySet
<1>4. r \notin S => Cardinality(S \cup {r}) = Cardinality(S) + 1
  BY <1>1, FS_AddElement, Zenon
<1>5. Cardinality(S) \in Nat
  BY <1>1, FS_CardinalityType
<1>6. r \in S /\ Cardinality(S) = 1 => S = {r}
  BY <1>3
<1> QED BY <1>2, <1>4, <1>5, <1>6, Zenon

\* The initial state satisfies the invariant.
LEMMA RWInit == Init => RWInv
<1> SUFFICES ASSUME Init PROVE RWInv
  OBVIOUS
<1>1. TypeOK /\ RWRoles /\ RWLockInv
  BY ReadersWriters DEF Init, TypeOK, RWRoles, RWLockInv, Threads, Semaphores, ReaderLabels, WriterLabels, RWLockLabels
<1>2. Counted = {}
  BY DEF Init, Counted, Threads
<1>3. ReadersExact
  BY <1>2, FS_EmptySet, Zenon DEF Init, ReadersExact
<1>4. RWAlone /\ WriteInv
  BY <1>2, ReadersWriters DEF Init, RWAlone, WriteInv, GroupHolds, Threads, Semaphores, WriteLabels
<1> QED BY <1>1, <1>3, <1>4, Zenon DEF RWInv

\* A statement of a reader other than lines 30 and 38 leaves the count alone.
LEMMA ReaderCount ==
  ASSUME RWInv, NEW r \in Readers, Reader(r)
  PROVE  /\ ReadersExact'
         /\ readers' \in Nat
         /\ pc[r] = "30" => Counted' = Counted \cup {r}
         /\ pc[r] = "38" => Counted' = Counted \ {r}
         /\ pc[r] \notin {"30", "38"} => Counted' = Counted
         /\ pc[r] = "30" /\ readers = 0 <=> pc'[r] = "32"
         /\ pc[r] = "38" /\ readers = 1 <=> pc'[r] = "40"
         /\ r \in Counted => (readers = 1 <=> Counted = {r})
         /\ readers = 0 <=> Counted = {}
<1>0. Counted \in SUBSET Readers
  BY DEF Counted
<1>a. readers = Cardinality(Counted)
  BY DEF RWInv, ReadersExact
<1>b. IsFiniteSet(Counted)
  BY <1>0, ReadersWriters, FS_Subset, Zenon
<1>1. readers = 0 <=> Counted = {}
  BY <1>a, <1>b, FS_EmptySet, Zenon
<1>2. r \in Counted => (readers = 1 <=> Counted = {r})
  <2>1. readers = 1 /\ r \in Counted => Counted = {r}
    BY <1>0, <1>a, RWCounting, Zenon
  <2>2. Cardinality({r}) = 1
    BY FS_Singleton, Zenon
  <2> QED BY <1>a, <2>1, <2>2, Zenon
<1> USE DEF RWInv, TypeOK, RWRoles, ReaderLabels, Threads
<1>3. CASE pc[r] = "30"
  <2>1. pc' = [pc EXCEPT ![r] = IF readers + 1 = 1 THEN "32" ELSE "33"] /\ readers' = readers + 1
    BY <1>3, Zenon DEF Reader, rwlock_acquire_readlock, rwlock_release_readlock, WaitStep, PostStep, LocalStep, Goto
  <2>2. Counted' = Counted \cup {r} /\ r \notin Counted
    BY <2>1, <1>3, Zenon DEF Counted
  <2> QED BY <1>0, <1>1, <1>2, <1>3, <2>1, <2>2, RWCounting DEF ReadersExact
<1>4. CASE pc[r] = "38"
  <2>1. pc' = [pc EXCEPT ![r] = IF readers - 1 = 0 THEN "40" ELSE "41"] /\ readers' = readers - 1
    BY <1>4, Zenon DEF Reader, rwlock_acquire_readlock, rwlock_release_readlock, WaitStep, PostStep, LocalStep, Goto
  <2>2. Counted' = Counted \ {r} /\ r \in Counted
    BY <2>1, <1>4, Zenon DEF Counted
  <2>3. readers # 0
    BY <2>2, <1>1, Zenon
  <2> QED BY <1>0, <1>1, <1>2, <1>4, <2>1, <2>2, <2>3, RWCounting DEF ReadersExact
<1>5. CASE pc[r] \notin {"30", "38"}
  <2>1. /\ readers' = readers
        /\ \E l \in ReaderLabels \ {"32", "40"} :
             /\ pc' = [pc EXCEPT ![r] = l]
             /\ l \in {"33", "reading", "37", "38"} <=> pc[r] \in {"32", "33", "reading", "37"}
    BY <1>5, Zenon DEF Reader, rwlock_acquire_readlock, rwlock_release_readlock, WaitStep, PostStep, LocalStep, Goto
  <2>2. Counted' = Counted
    BY <2>1, <1>5, Zenon DEF Counted
  <2> QED BY <1>1, <1>2, <1>5, <2>1, <2>2, Zenon DEF ReadersExact
<1> QED BY <1>3, <1>4, <1>5, Zenon

\* No statement of a reader makes a second holder of lock, or of writelock.
LEMMA ReaderStep ==
  ASSUME RWInv, NEW r \in Readers, Reader(r)
  PROVE  RWInv'
<1> USE DEF RWInv, RWRoles, ReaderLabels, Threads, RWLockLabels
<1>1. ReadersExact' /\ readers' \in Nat
  BY ReaderCount, Zenon
<1>2. /\ pc' = [pc EXCEPT ![r] = pc'[r]]
      /\ pc'[r] \in ReaderLabels
  BY DEF TypeOK, Reader, rwlock_acquire_readlock, rwlock_release_readlock, WaitStep, PostStep, LocalStep, Goto
<1>3. RWRoles' /\ pc' \in [Threads -> ReaderLabels \cup WriterLabels]
  BY <1>2, ReadersWriters, Zenon DEF TypeOK
<1>4. RWLockInv' /\ sem' \in [Semaphores -> 0..1]
  <2> USE DEF TypeOK, RWLockInv, Semaphores, WaitStep, PostStep, LocalStep, Goto, Sem_wait, Sem_post
  <2>1. CASE rwlock_acquire_readlock(r)
    <3>1. CASE WaitStep(r, "29", "lock", "30")
      BY <3>1
    <3>2. CASE pc[r] = "30" /\ sem' = sem /\ \E l \in {"32", "33"} : pc' = [pc EXCEPT ![r] = l]
      BY <3>2, Zenon
    <3>3. CASE WaitStep(r, "32", "writelock", "33")
      BY <3>3
    <3>4. CASE PostStep(r, "33", "lock", "reading")
      BY <3>4
    <3> QED BY <2>1, <3>1, <3>2, <3>3, <3>4, Zenon DEF rwlock_acquire_readlock
  <2>2. CASE rwlock_release_readlock(r)
    <3>1. CASE WaitStep(r, "37", "lock", "38")
      BY <3>1
    <3>2. CASE pc[r] = "38" /\ sem' = sem /\ \E l \in {"40", "41"} : pc' = [pc EXCEPT ![r] = l]
      BY <3>2, Zenon
    <3>3. CASE PostStep(r, "40", "writelock", "41") /\ sem["writelock"] = 0
      BY <3>3
    <3>4. CASE PostStep(r, "41", "lock", "29")
      BY <3>4
    <3>5. pc[r] = "40" => sem["writelock"] = 0
      BY DEF WriteInv, GroupHolds
    <3> QED BY <2>2, <3>1, <3>2, <3>3, <3>4, <3>5, Zenon DEF rwlock_release_readlock
  <2>3. CASE LocalStep(r, "reading", "37") /\ UNCHANGED readers
    BY <2>3, Zenon
  <2> QED BY <2>1, <2>2, <2>3, Zenon DEF Reader
<1>5. RWAlone'
  <2>1. \A u \in Readers : u # r /\ pc[u] \in RWLockLabels => Counted' = Counted
    BY ReaderCount, Zenon DEF RWLockInv
  <2>2. pc'[r] = "32" => Counted' = {r}
    BY ReaderCount, Zenon
  <2>3. pc'[r] = "40" => Counted' = {}
    BY ReaderCount, Zenon DEF Counted
  <2>4. ASSUME NEW u \in Readers, u # r, pc'[u] \in {"32", "40"}
        PROVE  Counted' = Counted /\ pc[u] = pc'[u]
    BY <1>2, <2>1, <2>4, Zenon DEF TypeOK
  <2> QED BY <2>2, <2>3, <2>4, Zenon DEF RWAlone
<1>6. WriteInv'
  <2>1. \A w \in Writers : pc'[w] = pc[w]
    BY <1>2, ReadersWriters, Zenon DEF TypeOK
  <2>2. CASE pc[r] = "32"
    <3>1. sem["writelock"] = 1 /\ sem'["writelock"] = 0 /\ pc'[r] = "33"
      BY <2>2 DEF TypeOK, Semaphores, Reader, rwlock_acquire_readlock, rwlock_release_readlock,
         WaitStep, PostStep, LocalStep, Goto, Sem_wait
    <3>2. \A u \in Readers : pc'[u] # "32"
      BY <1>2, <2>2, <3>1, Zenon DEF RWLockInv, TypeOK
    <3>3. Counted' = {r}
      BY <2>2, ReaderCount, Zenon DEF RWAlone
    <3>4. GroupHolds'
      BY <3>2, <3>3, Zenon DEF GroupHolds
    <3> QED BY <2>1, <3>1, <3>4, Zenon DEF WriteInv
  <2>3. CASE pc[r] = "40"
    <3>1. sem["writelock"] = 0 /\ sem'["writelock"] = 1 /\ pc'[r] = "41"
      BY <2>3 DEF WriteInv, GroupHolds, TypeOK, Semaphores, Reader, rwlock_acquire_readlock,
         rwlock_release_readlock, WaitStep, PostStep, LocalStep, Goto, Sem_post
    <3>2. \A u \in Readers : pc'[u] # "40"
      BY <1>2, <2>3, <3>1, Zenon DEF RWLockInv, TypeOK
    <3>3. Counted' = {}
      BY <2>3, ReaderCount, Zenon DEF RWAlone
    <3>4. GroupHolds /\ ~GroupHolds'
      BY <2>3, <3>2, <3>3, Zenon DEF GroupHolds
    <3> QED BY <2>1, <3>1, <3>4, Zenon DEF WriteInv
  <2>4. CASE pc[r] \notin {"32", "40"}
    <3>1. sem'["writelock"] = sem["writelock"]
      BY <2>4 DEF TypeOK, Semaphores, Reader, rwlock_acquire_readlock, rwlock_release_readlock,
         WaitStep, PostStep, LocalStep, Goto, Sem_wait, Sem_post
    <3>2. GroupHolds' <=> GroupHolds
      <4>1. \A u \in Readers : u # r => pc'[u] = pc[u]
        BY <1>2 DEF TypeOK
      <4>2. pc[r] \in RWLockLabels => \A u \in Readers : u # r => pc[u] \notin {"32", "40"}
        BY Zenon DEF RWLockInv
      <4>3. CASE pc[r] = "30" /\ readers = 0
        BY <4>1, <4>2, <4>3, ReaderCount, Zenon DEF GroupHolds
      <4>4. CASE pc[r] = "30" /\ readers # 0
        BY <4>1, <4>2, <4>4, ReaderCount, Zenon DEF GroupHolds
      <4>5. CASE pc[r] = "38"
        <5>1. r \in Counted
          BY <4>5 DEF Counted
        <5>2. GroupHolds
          BY <4>2, <4>5, <5>1, Zenon DEF GroupHolds
        <5>3. pc'[r] # "40" => Counted' # {}
          BY <4>5, <5>1, ReaderCount
        <5>4. pc'[r] # "32"
          BY <4>5, ReaderCount, Zenon
        <5> QED BY <4>1, <4>2, <4>5, <5>2, <5>3, <5>4, Zenon DEF GroupHolds
      <4>6. CASE pc[r] \notin {"30", "38"}
        BY <2>4, <4>1, <4>6, ReaderCount, Zenon DEF GroupHolds
      <4> QED BY <4>3, <4>4, <4>5, <4>6, Zenon
    <3> QED BY <2>1, <3>1, <3>2, Zenon DEF WriteInv
  <2> QED BY <2>2, <2>3, <2>4, Zenon
<1> QED BY <1>1, <1>3, <1>4, <1>5, <1>6, Zenon DEF TypeOK

\* No statement of a writer makes a second holder of writelock.
LEMMA WriterStep ==
  ASSUME RWInv, NEW w \in Writers, Writer(w)
  PROVE  RWInv'
<1> USE DEF RWInv, RWRoles, WriterLabels, Threads
<1>1. \E l \in WriterLabels : pc' = [pc EXCEPT ![w] = l]
  BY DEF Writer, WaitStep, PostStep, LocalStep, Goto
<1>2. \A r \in Readers : pc'[r] = pc[r]
  BY <1>1, ReadersWriters, Zenon DEF TypeOK
<1>3. Counted' = Counted /\ readers' = readers /\ (GroupHolds' <=> GroupHolds)
  BY <1>2, Zenon DEF Counted, GroupHolds, Writer
<1>4. RWRoles' /\ ReadersExact' /\ RWAlone'
  BY <1>1, <1>2, <1>3, Zenon DEF ReadersExact, RWAlone, TypeOK
<1>5. sem'["lock"] = sem["lock"]
  BY Zenon DEF Writer, WaitStep, PostStep, LocalStep, Sem_wait, Sem_post, TypeOK, Semaphores
<1>6. RWLockInv'
  BY <1>2, <1>5, Zenon DEF RWLockInv
<1>7. TypeOK' /\ WriteInv'
  <2> USE <1>3 DEF WriteInv, WriteLabels, TypeOK, Semaphores, Goto
  <2>1. CASE WaitStep(w, "44", "writelock", "writing")
    BY <2>1 DEF WaitStep, Sem_wait
  <2>2. CASE LocalStep(w, "writing", "46")
    BY <2>2, Zenon DEF LocalStep
  <2>3. CASE PostStep(w, "46", "writelock", "44")
    BY <2>3 DEF PostStep, Sem_post
  <2> QED BY <2>1, <2>2, <2>3, Zenon DEF Writer
<1> QED BY <1>4, <1>6, <1>7, Zenon

\* The invariant holds throughout every run of the program.
LEMMA RWInvariance == Spec => []RWInv
<1>1. RWInv /\ [Next]_vars => RWInv'
  <2> SUFFICES ASSUME RWInv, [Next]_vars PROVE RWInv'
    OBVIOUS
  <2>1. CASE UNCHANGED vars
    BY <2>1 DEF vars, RWInv, TypeOK, RWRoles, ReadersExact, Counted, RWLockInv, RWAlone, WriteInv, GroupHolds
  <2> QED BY <2>1, ReaderStep, WriterStep, Zenon DEF Next
<1> QED BY <1>1, RWInit, PTL DEF Spec

\* Both semaphores stay binary and the count of readers never goes below 0.
THEOREM RWTypeCorrect == Spec => []TypeOK
BY RWInvariance, PTL DEF RWInv

\* A thread inside excludes every writer: what the abstract lock allows.
LEMMA Exclusion == RWInv => WriterAlone
<1> SUFFICES ASSUME RWInv, NEW w \in Writers, pc[w] = "writing",
                    NEW t \in Threads, pc[t] \in {"reading", "writing"}
             PROVE  t = w
  BY DEF WriterAlone
<1>1. CASE t \in Writers
  BY <1>1, Zenon DEF RWInv, WriteInv, WriteLabels, RWRoles, WriterLabels
<1>2. CASE t \in Readers
  <2>1. pc[t] = "reading"
    BY <1>2 DEF RWInv, RWRoles, ReaderLabels
  <2>2. t \in Counted
    BY <1>2, <2>1 DEF Counted
  <2>3. \A r \in Readers : pc[r] # "32"
    BY <2>1, <2>2 DEF RWInv, RWAlone
  <2> QED BY <2>2, <2>3 DEF RWInv, WriteInv, WriteLabels, GroupHolds
<1> QED BY <1>1, <1>2, Zenon DEF Threads

\* README Q4: no thread is inside together with a writer, and the count that
\* decides who takes and gives back writelock is exact.
THEOREM WriterExclusion == Spec => [](WriterAlone /\ ReadersExact)
<1>1. RWInv => WriterAlone /\ ReadersExact
  BY Exclusion DEF RWInv
<1> QED BY <1>1, RWInvariance, PTL

\* The program implements the abstract reader-writer lock.
THEOREM RWRefinement == Spec => ImplementsRWLock
<1>1. Init => Abstract!Init
  <2>1. Init => insideBar = {}
    BY DEF Init, insideBar
  <2> QED BY <2>1 DEF Abstract!Init
<1>a. RWInv' => WriterAlone'
  BY Exclusion, PTL
<1>2. RWInv /\ RWInv' /\ [Next]_vars => [Abstract!Next]_insideBar
  <2> SUFFICES ASSUME RWInv, RWInv', [Next]_vars PROVE [Abstract!Next]_insideBar
    OBVIOUS
  <2>1. CASE UNCHANGED vars
    BY <2>1 DEF vars, insideBar
  <2>2. ASSUME NEW r \in Readers, Reader(r) PROVE [Abstract!Next]_insideBar
    <3>1. \E l \in ReaderLabels :
            /\ pc' = [pc EXCEPT ![r] = l]
            /\ l = "reading" <=> pc[r] = "33"
            /\ pc[r] = "reading" => l = "37"
      BY <2>2, Zenon DEF Reader, rwlock_acquire_readlock, rwlock_release_readlock, WaitStep, PostStep,
         LocalStep, Goto, ReaderLabels
    <3>2. pc \in [Threads -> ReaderLabels \cup WriterLabels] /\ r \in Threads /\ pc[r] # "writing"
      BY DEF RWInv, TypeOK, RWRoles, ReaderLabels, Threads
    <3>3. CASE pc[r] = "33"
      <4>1. insideBar' = insideBar \cup {r} /\ r \notin insideBar
        BY <3>1, <3>2, <3>3, Zenon DEF insideBar
      <4>2. insideBar' \subseteq Readers
        <5>1. WriterAlone' /\ pc'[r] = "reading"
          BY <3>1, <3>2, <3>3, <1>a, Zenon
        <5>2. \A w \in Writers : pc'[w] # "writing"
          BY <5>1, ReadersWriters, Zenon DEF WriterAlone, Threads
        <5>3. \A w \in Writers : pc'[w] # "reading"
          BY DEF RWInv, RWRoles, WriterLabels
        <5> QED BY <5>2, <5>3, Zenon DEF insideBar, Threads
      <4> QED BY <4>1, <4>2, Zenon DEF Abstract!Next, Abstract!StartRead
    <3>4. CASE pc[r] = "reading"
      <4>1. insideBar' = insideBar \ {r} /\ r \in insideBar
        BY <3>1, <3>2, <3>4, Zenon DEF insideBar
      <4> QED BY <4>1, Zenon DEF Abstract!Next, Abstract!Finish
    <3>5. CASE pc[r] \notin {"33", "reading"}
      <4>1. insideBar' = insideBar
        BY <3>1, <3>2, <3>5, Zenon DEF insideBar, ReaderLabels
      <4> QED BY <4>1, Zenon
    <3> QED BY <3>3, <3>4, <3>5, Zenon
  <2>3. ASSUME NEW w \in Writers, Writer(w) PROVE [Abstract!Next]_insideBar
    <3>1. pc \in [Threads -> ReaderLabels \cup WriterLabels] /\ w \in Threads /\ pc[w] # "reading"
      BY DEF RWInv, TypeOK, RWRoles, WriterLabels, Threads
    <3>2. CASE WaitStep(w, "44", "writelock", "writing")
      <4>1. insideBar' = insideBar \cup {w} /\ w \notin insideBar /\ pc'[w] = "writing"
        BY <3>1, <3>2, Zenon DEF WaitStep, Goto, insideBar
      <4>2. \A t \in insideBar' : t = w
        BY <1>a, <4>1, Zenon DEF WriterAlone, insideBar
      <4>3. insideBar = {} /\ insideBar' = {w}
        BY <4>1, <4>2, Zenon
      <4> QED BY <4>3 DEF Abstract!Next, Abstract!StartWrite
    <3>3. CASE LocalStep(w, "writing", "46")
      <4>1. insideBar' = insideBar \ {w} /\ w \in insideBar
        BY <3>1, <3>3, Zenon DEF LocalStep, Goto, insideBar
      <4> QED BY <4>1, Zenon DEF Abstract!Next, Abstract!Finish
    <3>4. CASE PostStep(w, "46", "writelock", "44")
      <4>1. insideBar' = insideBar
        BY <3>1, <3>4, Zenon DEF PostStep, Goto, insideBar
      <4> QED BY <4>1
    <3> QED BY <2>3, <3>2, <3>3, <3>4, Zenon DEF Writer
  <2> QED BY <2>1, <2>2, <2>3, Zenon DEF Next
<1> QED BY <1>1, <1>2, RWInvariance, PTL DEF Spec, ImplementsRWLock, Abstract!SafeSpec
-----------------------------------------------------------------------------
(* Proofs about the ticket lock, for any number of threads that can have a *)
(* ticket each.                                                             *)

TModulus == 2 ^ Width
TWrap(k) == IF k >= TModulus THEN k - TModulus ELSE k
TAhead(a, b) == IF a < b THEN a - b + TModulus ELSE a - b
TLength == Cardinality(Tickets!Drawn)

\* What is used of the numbers.
LEMMA TNumbers ==
  /\ TModulus \in Nat \ {0} /\ IsFiniteSet(LockThreads)
  /\ Cardinality(LockThreads) \in Nat /\ Cardinality(LockThreads) <= TModulus
BY EnoughTickets, FS_CardinalityType, Zenon DEF TModulus

\* Adding one wraps around once.
LEMMA TPlus1 == ASSUME NEW a \in 0..(TModulus - 1) PROVE Tickets!Plus1(a) = TWrap(a + 1)
<1>1. Tickets!Plus1(a) = (a + 1) % TModulus
  BY DEF Tickets!Plus1, TModulus
<1>2. CASE a + 1 < TModulus
  BY <1>1, <1>2, TNumbers DEF TWrap
<1>3. CASE a + 1 = TModulus
  BY <1>1, <1>3, TNumbers DEF TWrap
<1> QED
  BY <1>2, <1>3, TNumbers

\* How far a ticket is ahead of turn, modulo the width.
LEMMA TAheadIsMod ==
  ASSUME turn \in 0..(TModulus - 1), NEW a \in 0..(TModulus - 1)
  PROVE  (a - turn) % 2 ^ Width = TAhead(a, turn)
<1>1. (a - turn) % 2 ^ Width = (a - turn) % TModulus
  BY DEF TModulus
<1>2. CASE a < turn
  <2>1. a - turn \in (-TModulus)..(-1)
    BY <1>2, TNumbers
  <2> QED
    BY <1>1, <1>2, <2>1, TNumbers DEF TAhead
<1>3. CASE ~(a < turn)
  <2>1. a - turn \in 0..(TModulus - 1)
    BY <1>3, TNumbers
  <2> QED
    BY <1>1, <1>3, <2>1, TNumbers DEF TAhead
<1> QED
  BY <1>2, <1>3, Zenon

TTypes ==
  /\ asm \in BOOLEAN /\ rereads \in BOOLEAN
  /\ tpc \in [LockThreads -> {"fetch_add", "xchg", "mov", "addl", "movl", "load", "compare", "cs"}]
  /\ ticket \in 0..(TModulus - 1) /\ turn \in 0..(TModulus - 1)
  /\ myturn \in [LockThreads -> 0..(TModulus - 1)] /\ seen \in [LockThreads -> 0..(TModulus - 1)]

\* One thread at a time is between xchg and movl.
TOneSpins ==
  /\ \A t \in LockThreads : tpc[t] \in {"mov", "addl", "movl"} => global_lock = 1
  /\ \A t \in LockThreads : tpc[t] \in {"xchg", "mov", "addl", "movl"} => asm
  /\ \A t \in LockThreads : tpc[t] = "fetch_add" => ~asm
  /\ \A t, u \in LockThreads :
       tpc[t] \in {"mov", "addl", "movl"} /\ tpc[u] \in {"mov", "addl", "movl"} => t = u

\* The n threads with a ticket have those from turn on, and ticket is the next.
TLine ==
  /\ \A t, u \in Tickets!Drawn : myturn[t] = myturn[u] => t = u
  /\ \A t \in Tickets!Drawn : TAhead(myturn[t], turn) < TLength
  /\ (\A t \in LockThreads : tpc[t] # "addl") => ticket = TWrap(turn + TLength)
  /\ \A t \in LockThreads : tpc[t] = "addl" => myturn[t] = ticket /\ TWrap(ticket + 1) = TWrap(turn + TLength)

\* What a thread has read of turn is old, but not if it is the thread's own
\* ticket: nobody else can move turn on from there.
TTurns ==
  /\ \A t \in LockThreads : tpc[t] = "cs" => myturn[t] = turn
  /\ \A t \in LockThreads : tpc[t] = "compare" /\ seen[t] = myturn[t] => myturn[t] = turn

TInv == TTypes /\ TOneSpins /\ TLine /\ TTurns

\* What is used of the number of threads in the line.
LEMMA TDrawn ==
  /\ IsFiniteSet(Tickets!Drawn) /\ TLength \in Nat /\ TLength <= TModulus
  /\ \A t \in LockThreads \ Tickets!Drawn : TLength < TModulus
  /\ \A t \in Tickets!Drawn : TLength > 0
<1>1. IsFiniteSet(Tickets!Drawn) /\ TLength \in Nat /\ TLength <= Cardinality(LockThreads)
  BY TNumbers, FS_Subset, FS_CardinalityType, Zenon DEF Tickets!Drawn, TLength
<1>2. ASSUME NEW t \in LockThreads \ Tickets!Drawn PROVE TLength # Cardinality(LockThreads)
  BY <1>1, <1>2, TNumbers, FS_Subset, Zenon DEF Tickets!Drawn, TLength
<1>3. ASSUME NEW t \in Tickets!Drawn PROVE TLength # 0
  BY <1>1, <1>3, FS_EmptySet, Zenon DEF TLength
<1> QED
  BY <1>1, <1>2, <1>3, TNumbers

\* The ticket lock starts with nobody in the line.
LEMMA TInit == ASSUME Tickets!Init PROVE TInv
<1>1. Tickets!Drawn = {}
  BY DEF Tickets!Init, Tickets!First, Tickets!Drawn
<1>2. TLength = 0
  BY <1>1, FS_EmptySet, Zenon DEF TLength
<1> QED
  BY <1>1, <1>2, TNumbers DEF Tickets!Init, Tickets!First, TInv, TTypes, TOneSpins, TLine, TTurns, TWrap

\* t draws the ticket, and takes its place at the end of the line.
LEMMA TDraws ==
  ASSUME TInv, NEW t \in LockThreads \ Tickets!Drawn, \A u \in LockThreads : tpc[u] # "addl",
         Tickets!Drawn' = Tickets!Drawn \cup {t}, myturn' = [myturn EXCEPT ![t] = ticket], turn' = turn
  PROVE  /\ TLength' = TLength + 1 /\ TWrap(ticket + 1) = TWrap(turn + TLength')
         /\ \A u, v \in Tickets!Drawn' : myturn'[u] = myturn'[v] => u = v
         /\ \A u \in Tickets!Drawn' : TAhead(myturn'[u], turn) < TLength'
<1> USE DEF TInv, TTypes, TLine
<1>1. TLength' = TLength + 1
  BY TDrawn, FS_AddElement, Zenon DEF TLength
<1>2. TLength \in Nat /\ TLength < TModulus /\ TModulus \in Nat
  BY TDrawn, TNumbers, Zenon
<1>3. ticket = TWrap(turn + TLength)
  OBVIOUS
<1>4. TAhead(ticket, turn) = TLength /\ TWrap(ticket + 1) = TWrap(turn + TLength + 1)
  BY <1>2, <1>3 DEF TAhead, TWrap
<1>5. \A u \in Tickets!Drawn : myturn[u] # ticket
  BY <1>2, <1>4
<1>6. \A u \in Tickets!Drawn : u # t /\ myturn'[u] = myturn[u]
  BY Zenon DEF Tickets!Drawn
<1>7. myturn'[t] = ticket
  OBVIOUS
<1>8. \A u, v \in Tickets!Drawn' : myturn'[u] = myturn'[v] => u = v
  BY <1>5, <1>6, <1>7, SMTT(30)
<1>9. \A u \in Tickets!Drawn : TAhead(myturn[u], turn) < TLength + 1
  <2> TAKE u \in Tickets!Drawn
  <2>1. myturn[u] \in 0..(TModulus - 1) /\ TAhead(myturn[u], turn) < TLength
    BY DEF Tickets!Drawn
  <2> QED
    BY <1>2, <2>1 DEF TAhead
<1> QED
  BY <1>1, <1>2, <1>4, <1>6, <1>7, <1>8, <1>9

\* threads.patch: the fetch-and-add draws.
LEMMA TFetchAdd == ASSUME TInv, NEW t \in LockThreads, Tickets!FetchAdd(t) PROVE TInv'
<1> USE DEF Tickets!FetchAdd, Tickets!Goto
<1>1. t \notin Tickets!Drawn /\ Tickets!Drawn' = Tickets!Drawn \cup {t} /\ turn' = turn
  BY Zenon DEF TInv, TTypes, Tickets!Drawn
<1>2. \A u \in LockThreads : tpc[u] # "addl" /\ tpc'[u] # "addl"
  BY Zenon DEF TInv, TTypes, TOneSpins
<1>3. Tickets!Plus1(ticket) = TWrap(ticket + 1) /\ TWrap(ticket + 1) \in 0..(TModulus - 1)
  BY TPlus1, TNumbers, SMTT(30) DEF TInv, TTypes, TWrap
<1>4. TTypes' /\ TOneSpins' /\ TTurns'
  BY <1>3 DEF TInv, TTypes, TOneSpins, TTurns
<1>5. TLine'
  BY <1>1, <1>2, <1>3, TDraws, Zenon DEF TLine
<1> QED
  BY <1>4, <1>5, Zenon DEF TInv

\* threads_asm.patch: the mov draws;
LEMMA TMov == ASSUME TInv, NEW t \in LockThreads, Tickets!Mov(t) PROVE TInv'
<1> USE DEF Tickets!Mov, Tickets!Goto
<1>1. t \notin Tickets!Drawn /\ Tickets!Drawn' = Tickets!Drawn \cup {t} /\ turn' = turn /\ ticket' = ticket
  BY Zenon DEF TInv, TTypes, Tickets!Drawn
<1>2. \A u \in LockThreads : tpc[u] # "addl" /\ (tpc'[u] = "addl" => u = t)
  BY Zenon DEF TInv, TTypes, TOneSpins
<1>3. TTypes' /\ TOneSpins' /\ TTurns' /\ tpc'[t] = "addl" /\ myturn'[t] = ticket
  BY DEF TInv, TTypes, TOneSpins, TTurns
<1>4. TLine'
  BY <1>1, <1>2, <1>3, TDraws, Zenon DEF TLine
<1> QED
  BY <1>3, <1>4, Zenon DEF TInv

\* the addl makes the ticket the next one.
LEMMA TAddl == ASSUME TInv, NEW t \in LockThreads, Tickets!Addl(t) PROVE TInv'
<1> USE DEF Tickets!Addl, Tickets!Goto
<1>1. Tickets!Drawn' = Tickets!Drawn /\ TLength' = TLength
  BY Zenon DEF TInv, TTypes, Tickets!Drawn, TLength
<1>2. \A u \in LockThreads : tpc'[u] # "addl"
  BY Zenon DEF TInv, TTypes, TOneSpins
<1>3. Tickets!Plus1(ticket) = TWrap(ticket + 1) /\ TWrap(ticket + 1) \in 0..(TModulus - 1)
  BY TPlus1, TNumbers DEF TInv, TTypes, TWrap
<1>4. TTypes' /\ TOneSpins' /\ TTurns'
  BY <1>3, Zenon DEF TInv, TTypes, TOneSpins, TTurns
<1>5. TLine'
  BY <1>1, <1>2, <1>3, Zenon DEF TInv, TLine
<1> QED
  BY <1>4, <1>5 DEF TInv

\* The steps that neither draw a ticket nor give one back.
LEMMA TOthers ==
  ASSUME TInv, NEW t \in LockThreads, Tickets!Xchg(t) \/ Tickets!Movl(t) \/ Tickets!Load(t) \/ Tickets!Compare(t)
  PROVE  TInv'
<1> USE DEF Tickets!Xchg, Tickets!Movl, Tickets!Load, Tickets!Compare, Tickets!Goto
<1>1. Tickets!Drawn' = Tickets!Drawn /\ TLength' = TLength
  BY Zenon DEF TInv, TTypes, Tickets!Drawn, TLength
<1>2. TTypes' /\ \A u \in LockThreads : tpc'[u] = "addl" <=> tpc[u] = "addl"
  BY TNumbers DEF TInv, TTypes
<1>3. TOneSpins'
  BY DEF TInv, TTypes, TOneSpins
<1>4. TLine'
  <2>1. ticket' = ticket /\ turn' = turn /\ myturn' = myturn
    OBVIOUS
  <2> QED
    BY ONLY TInv, <1>1, <1>2, <2>1, Zenon DEF TInv, TLine, TAhead, TWrap
<1>5. TTurns'
  BY Zenon DEF TInv, TTypes, TTurns
<1> QED
  BY <1>2, <1>3, <1>4, <1>5, Zenon DEF TInv

\* The thread with the first ticket leaves, and the others move up.
LEMMA TRelease == ASSUME TInv, NEW t \in LockThreads, Tickets!lock_release(t) PROVE TInv'
<1> USE DEF Tickets!lock_release, Tickets!Goto, Tickets!First
<1>1. t \in Tickets!Drawn /\ Tickets!Drawn' = Tickets!Drawn \ {t} /\ ticket' = ticket
  BY Zenon DEF TInv, TTypes, Tickets!Drawn
<1>2. TLength' = TLength - 1 /\ TLength \in Nat /\ TLength > 0 /\ TLength <= TModulus /\ TModulus \in Nat \ {0}
  BY <1>1, TDrawn, TNumbers, FS_RemoveElement, Zenon DEF TLength
<1>3. turn \in 0..(TModulus - 1) /\ turn' = TWrap(turn + 1) /\ turn' \in 0..(TModulus - 1)
  BY <1>2, TPlus1 DEF TInv, TTypes, TWrap
<1>4. TWrap(turn' + TLength') = TWrap(turn + TLength)
  BY <1>2, <1>3 DEF TWrap
<1>5. \A u \in Tickets!Drawn' : u # t /\ myturn'[u] = myturn[u] /\ myturn[u] # turn /\ myturn[u] \in 0..(TModulus - 1)
  BY <1>1, Zenon DEF TInv, TTypes, TTurns, TLine, Tickets!Drawn
<1>6. TTypes' /\ TOneSpins'
  BY <1>2, <1>3 DEF TInv, TTypes, TOneSpins
<1>7. TLine'
  <2>1. \A u \in Tickets!Drawn' : TAhead(myturn'[u], turn') < TLength'
    <3> TAKE u \in Tickets!Drawn'
    <3>1. TAhead(myturn[u], turn) < TLength
      BY <1>1, Zenon DEF TInv, TLine
    <3> QED
      BY <1>2, <1>3, <1>5, <3>1 DEF TAhead, TWrap
  <2>2. \A u \in LockThreads : tpc'[u] = "addl" <=> tpc[u] = "addl"
    BY Zenon DEF TInv, TTypes
  <2>3. \A u \in LockThreads : tpc[u] = "addl" => u \in Tickets!Drawn'
    BY <1>1, Zenon DEF Tickets!Drawn
  <2> QED
    BY <1>1, <1>4, <1>5, <2>1, <2>2, <2>3, SMTT(30) DEF TInv, TLine
<1>8. TTurns'
  <2>1. \A u \in LockThreads \ {t} : tpc[u] \in {"compare", "cs"} => u \in Tickets!Drawn'
    BY <1>1, Zenon DEF Tickets!Drawn
  <2> QED
    BY <1>5, <2>1, Zenon DEF TInv, TTypes, TTurns
<1> QED
  BY <1>6, <1>7, <1>8, Zenon DEF TInv

\* A step of the ticket lock keeps the invariant.
LEMMA TStep == TInv /\ [Tickets!Next]_ticketVars => TInv'
<1> SUFFICES ASSUME TInv, [Tickets!Next]_ticketVars PROVE TInv'
  OBVIOUS
<1>1. CASE UNCHANGED ticketVars
  BY <1>1, Zenon DEF ticketVars, TInv, TTypes, TOneSpins, TLine, TTurns, Tickets!Drawn, TLength
<1>2. ASSUME NEW t \in LockThreads, Tickets!Thread(t) PROVE TInv'
  BY <1>2, TFetchAdd, TMov, TAddl, TOthers, TRelease, Zenon DEF Tickets!Thread, Tickets!lock_acquire
<1> QED
  BY <1>1, <1>2, Zenon DEF Tickets!Next

\* The cardinality that module TicketLock counts with is that of FiniteSets.
LEMMA TCardinality == \A S : Tickets!Cardinality(S) = Cardinality(S)
BY DEF Tickets!Cardinality, Cardinality

\* The ticket lock of both patches is first come, first served and lets one thread
\* in at a time, also when ticket and turn wrap around and whether or not the
\* build reads turn again, for any number of threads that can have a ticket each.
\* A behaviour of the suite that shows another lock leaves this one alone.
THEOREM TicketsInOrder == LocksSpec => []InTicketOrder
<1>1. LocksInit => TInv
  BY TInit, Zenon DEF LocksInit
<1>2. TInv /\ [RunPlain \/ RunNoStarve \/ RunTickets]_locksVars => TInv'
  BY TStep, Zenon DEF RunPlain, RunNoStarve, RunTickets, locksVars
<1>3. TInv => InTicketOrder
  <2> SUFFICES ASSUME TInv PROVE Tickets!InTicketOrder
    BY Zenon DEF InTicketOrder
  <2>1. \A t \in Tickets!Drawn : (myturn[t] - turn) % 2 ^ Width = TAhead(myturn[t], turn)
    BY TAheadIsMod DEF TInv, TTypes, Tickets!Drawn
  <2> QED
    BY <2>1, TCardinality DEF TInv, TLine, TTurns, Tickets!InTicketOrder, TLength
<1> QED
  BY <1>1, <1>2, <1>3, PTL DEF LocksSpec

\* Both ticket locks implement the mutex, its progress left aside: a thread enters
\* when nobody is inside, as it has read its own ticket in turn.
THEOREM TicketsRefineMutex == LocksSpec => Tickets!Abstract!SafeSpec
<1>1. LocksInit => TInv /\ Tickets!Abstract!Init
  BY TInit, Zenon DEF LocksInit, Tickets!Init, Tickets!First, Tickets!Abstract!Init, Tickets!holders
<1>2. TInv /\ [RunPlain \/ RunNoStarve \/ RunTickets]_locksVars => TInv'
  BY TStep DEF RunPlain, RunNoStarve, RunTickets, locksVars
<1>3. TInv /\ [RunPlain \/ RunNoStarve \/ RunTickets]_locksVars =>
        [Tickets!Abstract!Next]_(Tickets!holders)
  <2> SUFFICES ASSUME TInv, NEW t \in LockThreads, Tickets!Thread(t)
               PROVE  \/ Tickets!Abstract!StartWrite(t) \/ Tickets!Abstract!Finish(t)
                      \/ UNCHANGED Tickets!holders
    BY Zenon DEF RunPlain, RunNoStarve, RunTickets, locksVars, ticketVars, Tickets!Next,
           Tickets!Abstract!Next, Tickets!holders
  <2>1. tpc \in [LockThreads -> {"fetch_add", "xchg", "mov", "addl", "movl", "load", "compare", "cs"}]
    BY Zenon DEF TInv, TTypes
  <2>2. CASE tpc[t] = "compare" /\ seen[t] = myturn[t] /\ tpc' = [tpc EXCEPT ![t] = "cs"]
    <3>1. \A u \in LockThreads : tpc[u] # "cs"
      BY <2>2, Zenon DEF TInv, TLine, TTurns, Tickets!Drawn
    <3> QED  BY <2>1, <2>2, <3>1, Zenon DEF Tickets!Abstract!StartWrite, Tickets!holders
  <2>3. CASE Tickets!lock_release(t)
    BY <2>1, <2>3, Zenon DEF Tickets!lock_release, Tickets!Goto, Tickets!First, Tickets!Abstract!Finish,
                      Tickets!holders
  <2>4. CASE tpc[t] # "cs" /\ \E l \in {"mov", "addl", "movl", "load", "compare"} : tpc' = [tpc EXCEPT ![t] = l]
    BY <2>1, <2>4, Zenon DEF Tickets!holders
  <2> QED
    BY <2>2, <2>3, <2>4, Zenon
    DEF Tickets!Thread, Tickets!lock_acquire, Tickets!FetchAdd, Tickets!Xchg, Tickets!Mov,
        Tickets!Addl, Tickets!Movl, Tickets!Load, Tickets!Compare, Tickets!Goto
<1> QED  BY <1>1, <1>2, <1>3, PTL DEF LocksSpec, Tickets!Abstract!SafeSpec
-----------------------------------------------------------------------------
(* The semaphore Zem_t, for any finite set of threads and any initial      *)
(* value.                                                                  *)

\* The statements executed with s->lock held.
LockLabels == {"53", "55", "56", "61", "62", "63"}

\* The holder of s->lock is the thread that executes one of those statements.
LockInv == \A t \in ZemThreads : lock = t <=> zpc[t] \in LockLabels

\* Only a thread inside Cond_wait sleeps, and the value that ended the loop of
\* line 53 is still positive at line 55.
ZemLocal ==
  /\ \A t \in asleep : zpc[t] = "54"
  /\ \A t \in ZemThreads : zpc[t] = "55" => value > 0

\* The posts that have begun will not take the value beyond its bound.
Bounded == value + Cardinality(Posting) <= MaxValue

ZemInv == ZemTypeOK /\ LockInv /\ ZemLocal /\ Bounded /\ NoLostWakeup

\* Counting sets of threads.
LEMMA Counting ==
  ASSUME NEW S \in SUBSET ZemThreads
  PROVE  /\ Cardinality(S) \in Nat
         /\ \A t : t \in S => Cardinality(S \ {t}) = Cardinality(S) - 1
         /\ \A t \in ZemThreads : t \notin S => Cardinality(S \cup {t}) = Cardinality(S) + 1
         /\ \A T \in SUBSET S : Cardinality(T) <= Cardinality(S)
<1>1. IsFiniteSet(S)
  BY ZemConstants, FS_Subset, Zenon
<1>2. Cardinality(S) \in Nat
  BY <1>1, FS_CardinalityType, Zenon
<1>3. \A t : t \in S => Cardinality(S \ {t}) = Cardinality(S) - 1
  BY <1>1, FS_RemoveElement, Zenon
<1>4. \A t \in ZemThreads : t \notin S => Cardinality(S \cup {t}) = Cardinality(S) + 1
  BY <1>1, FS_AddElement, Zenon
<1>5. \A T \in SUBSET S : Cardinality(T) <= Cardinality(S)
  BY <1>1, FS_Subset, Zenon
<1> QED BY <1>2, <1>3, <1>4, <1>5, Zenon

\* Before the first call nobody holds the lock or waits.
LEMMA InitZemInv == ZemInit => ZemInv
<1> SUFFICES ASSUME ZemInit PROVE ZemInv
  OBVIOUS
<1>1. ZemTypeOK /\ LockInv /\ ZemLocal /\ NoLostWakeup
  BY ZemConstants DEF ZemInit, ZemTypeOK, LockInv, ZemLocal, NoLostWakeup, LockLabels, ZemLabels
<1>2. Posting = {}
  BY DEF ZemInit, Posting
<1>3. Bounded
  BY <1>2, FS_EmptySet, ZemConstants DEF Bounded, ZemInit
<1> QED BY <1>1, <1>3, Zenon DEF ZemInv

\* What a step does to the type, the lock and the local facts.
LEMMA ZemLocalStep ==
  ASSUME ZemTypeOK, LockInv, ZemLocal, NEW t \in ZemThreads,
         Zem_wait(t) \/ Zem_post(t) \/ SpuriousWakeup(t)
  PROVE  /\ zpc' \in [ZemThreads -> ZemLabels]
         /\ lock' \in ZemThreads \cup {NoThread}
         /\ asleep' \subseteq ZemThreads
         /\ value' \in Nat
         /\ LockInv'
         /\ ZemLocal'
<1> USE ZemConstants DEF ZemTypeOK, LockInv, ZemLocal, ZemLabels, LockLabels, ZemGoto
<1>1. CASE ZemGoto(t, "out", "52") /\ UNCHANGED <<value, lock, asleep>>
  BY <1>1
<1>2. CASE \E from, to \in ZemLabels : Mutex_lock(t, from, to)
           /\ <<from, to>> \in {<<"52", "53">>, <<"54", "53">>, <<"60", "61">>}
           /\ t \notin asleep
  BY <1>2 DEF Mutex_lock
<1>3. CASE \E from \in {"56", "63"} : Mutex_unlock(t, from, "out")
  BY <1>3 DEF Mutex_unlock
<1>4. CASE /\ ZemGoto(t, "53", "54") /\ value <= 0
           /\ asleep' = asleep \cup {t}
           /\ lock' = NoThread
           /\ UNCHANGED value
  BY <1>4
<1>5. CASE ZemGoto(t, "53", "55") /\ value > 0 /\ UNCHANGED <<value, lock, asleep>>
  BY <1>5
<1>6. CASE ZemGoto(t, "55", "56") /\ value' = value - 1 /\ UNCHANGED <<lock, asleep>>
  BY <1>6
<1>7. CASE ZemGoto(t, "out", "60") /\ UNCHANGED <<value, lock, asleep>>
  BY <1>7
<1>8. CASE ZemGoto(t, "61", "62") /\ value' = value + 1 /\ UNCHANGED <<lock, asleep>>
  BY <1>8
<1>9. CASE Cond_signal(t)
  <2>1. asleep' \subseteq asleep
    BY <1>9, Zenon DEF Cond_signal
  <2> QED BY <1>9, <2>1 DEF Cond_signal
<1>10. CASE SpuriousWakeup(t)
  BY <1>10 DEF SpuriousWakeup
<1>11. CASE Mutex_lock(t, "52", "53") \/ Mutex_lock(t, "60", "61") \/ (t \notin asleep /\ Mutex_lock(t, "54", "53"))
  BY <1>2, <1>11, Zenon DEF Mutex_lock
<1>12. CASE Mutex_unlock(t, "56", "out") \/ Mutex_unlock(t, "63", "out")
  BY <1>3, <1>12, Zenon
<1>13. CASE Zem_wait(t)
  BY <1>1, <1>4, <1>5, <1>6, <1>11, <1>12, <1>13, Zenon DEF Zem_wait, Cond_wait
<1>14. CASE Zem_post(t)
  BY <1>7, <1>8, <1>9, <1>11, <1>12, <1>14, Zenon DEF Zem_post
<1> QED BY <1>10, <1>13, <1>14, Zenon

\* A step that leaves the counted sets and the value as they are.
LEMMA Quiet ==
  ASSUME Posting' \subseteq Posting, Looking \subseteq Looking', Signalling' = Signalling,
         value' = value, asleep' \subseteq asleep, value \in Nat, Looking' \subseteq ZemThreads,
         Bounded, NoLostWakeup
  PROVE  Bounded' /\ NoLostWakeup'
<1>1. Posting \in SUBSET ZemThreads /\ Looking \in SUBSET ZemThreads /\ Signalling \in SUBSET ZemThreads
  BY Zenon DEF Posting, Looking, Signalling
<1>2. Cardinality(Posting') <= Cardinality(Posting) /\ Cardinality(Posting) \in Nat
  BY <1>1, Counting, Zenon
<1>3. Cardinality(Posting') \in Nat /\ Posting' \in SUBSET ZemThreads
  BY <1>1, Counting, Zenon
<1>4. Cardinality(Looking) <= Cardinality(Looking') /\ Cardinality(Looking) \in Nat
       /\ Cardinality(Looking') \in Nat
  BY <1>1, Counting, Zenon
<1>5. Cardinality(Signalling) \in Nat
  BY <1>1, Counting, Zenon
<1>6. Bounded'
  BY <1>2, <1>3, ZemConstants DEF Bounded
<1>7. NoLostWakeup'
  BY <1>4, <1>5 DEF NoLostWakeup
<1> QED BY <1>6, <1>7, Zenon

\* The bound and the wake-ups, one step per statement that touches them.
LEMMA CountingStep ==
  ASSUME ZemInv, NEW t \in ZemThreads, Zem_wait(t) \/ Zem_post(t) \/ SpuriousWakeup(t)
  PROVE  Bounded' /\ NoLostWakeup'
<1> USE DEF ZemInv, ZemTypeOK, ZemLabels, ZemGoto
<1>a. Posting \in SUBSET ZemThreads /\ Looking \in SUBSET ZemThreads /\ Signalling \in SUBSET ZemThreads
  BY Zenon DEF Posting, Looking, Signalling
<1>b. /\ Cardinality(Posting) \in Nat /\ Cardinality(Looking) \in Nat /\ Cardinality(Signalling) \in Nat
      /\ value \in Nat /\ MaxValue \in Nat
  BY <1>a, Counting, ZemConstants
<1>c. Looking' \in SUBSET ZemThreads
  BY DEF Looking
<1>1. CASE ZemGoto(t, "out", "60") /\ value + Cardinality(Posting) < MaxValue
           /\ UNCHANGED <<value, lock, asleep>>
  <2>1. /\ Posting' = Posting \cup {t} /\ t \notin Posting
        /\ Looking' = Looking /\ Signalling' = Signalling
    BY <1>1, Zenon DEF Posting, Looking, Signalling
  <2>2. Cardinality(Posting') = Cardinality(Posting) + 1
    BY <2>1, <1>a, Counting, Zenon
  <2>3. Bounded'
    BY <1>1, <1>b, <2>2 DEF Bounded
  <2>4. NoLostWakeup'
    BY <1>1, <2>1, Zenon DEF NoLostWakeup
  <2> QED BY <2>3, <2>4, Zenon
<1>2. CASE ZemGoto(t, "61", "62") /\ value' = value + 1 /\ UNCHANGED <<lock, asleep>>
  <2>1. /\ Posting' = Posting \ {t} /\ t \in Posting
        /\ Looking' = Looking
        /\ Signalling' = Signalling \cup {t} /\ t \notin Signalling
    BY <1>2, Zenon DEF Posting, Looking, Signalling
  <2>2. /\ Cardinality(Posting') = Cardinality(Posting) - 1
        /\ Cardinality(Signalling') = Cardinality(Signalling) + 1
    BY <2>1, <1>a, Counting, Zenon
  <2>3. Bounded'
    BY <1>2, <1>b, <2>2 DEF Bounded
  <2>4. NoLostWakeup'
    BY <1>2, <1>b, <2>1, <2>2 DEF NoLostWakeup
  <2> QED BY <2>3, <2>4
<1>3. CASE ZemGoto(t, "55", "56") /\ value' = value - 1 /\ UNCHANGED <<lock, asleep>>
  <2>1. /\ Posting' = Posting /\ Signalling' = Signalling
        /\ Looking' = Looking \ {t} /\ t \in Looking
    BY <1>3, Zenon DEF Posting, Looking, Signalling, ZemLocal
  <2>2. Cardinality(Looking') = Cardinality(Looking) - 1
    BY <2>1, <1>a, Counting, Zenon
  <2>3. Bounded'
    BY <1>3, <1>b, <2>1 DEF Bounded
  <2>4. NoLostWakeup'
    BY <1>3, <1>b, <2>1, <2>2 DEF NoLostWakeup
  <2> QED BY <2>3, <2>4
<1>4. CASE ZemGoto(t, "53", "54") /\ value <= 0 /\ UNCHANGED value
  <2>1. Posting' = Posting /\ Signalling' = Signalling
    BY <1>4, Zenon DEF Posting, Signalling
  <2>2. Cardinality(Looking') \in Nat
    BY <1>c, Counting, Zenon
  <2>3. Bounded'
    BY <1>4, <2>1, Zenon DEF Bounded
  <2>4. NoLostWakeup'
    BY <1>4, <1>b, <2>1, <2>2 DEF NoLostWakeup
  <2> QED BY <2>3, <2>4
<1>5. CASE Cond_signal(t)
  <2>1. Posting' = Posting /\ value' = value
    BY <1>5, Zenon DEF Cond_signal, Posting
  <2>2. Bounded'
    BY <2>1, Zenon DEF Bounded
  <2>3. CASE asleep = {}
    BY <1>5, <2>2, <2>3, Zenon DEF Cond_signal, NoLostWakeup
  <2>4. CASE asleep # {}
    <3>1. PICK u \in asleep : asleep' = asleep \ {u}
      BY <1>5, <2>4, Zenon DEF Cond_signal
    <3>2. zpc[u] = "54" /\ u # t
      BY <1>5, Zenon DEF ZemLocal, Cond_signal
    <3>3. Looking' = Looking \cup {u} /\ u \notin Looking /\ u \in ZemThreads
      BY <1>5, <3>1, <3>2, Zenon DEF Cond_signal, Looking
    <3>4. Signalling' = Signalling \ {t} /\ t \in Signalling
      BY <1>5, Zenon DEF Cond_signal, Signalling
    <3>5. /\ Cardinality(Looking') = Cardinality(Looking) + 1
          /\ Cardinality(Signalling') = Cardinality(Signalling) - 1
      BY <3>3, <3>4, <1>a, Counting, Zenon
    <3> QED BY <1>b, <2>1, <2>2, <2>4, <3>5 DEF NoLostWakeup
  <2> QED BY <2>2, <2>3, <2>4, Zenon
<1>6. CASE \/ ZemGoto(t, "out", "52") /\ UNCHANGED <<value, lock, asleep>>
           \/ Mutex_lock(t, "52", "53")
           \/ t \notin asleep /\ Mutex_lock(t, "54", "53")
           \/ ZemGoto(t, "53", "55") /\ UNCHANGED <<value, lock, asleep>>
           \/ Mutex_unlock(t, "56", "out")
           \/ Mutex_lock(t, "60", "61")
           \/ Mutex_unlock(t, "63", "out")
           \/ SpuriousWakeup(t)
  <2>1. /\ Posting' = Posting /\ Signalling' = Signalling /\ Looking \subseteq Looking'
        /\ value' = value /\ asleep' \subseteq asleep
    BY <1>6 DEF Posting, Signalling, Looking, Mutex_lock, Mutex_unlock, SpuriousWakeup, ZemLocal
  <2> QED BY <1>b, <1>c, <2>1, Quiet, Zenon
<1> QED BY <1>1, <1>2, <1>3, <1>4, <1>5, <1>6, Zenon DEF Zem_wait, Zem_post, Cond_wait

\* Every step of zemaphore.c keeps the invariant.
LEMMA ZemStep == ZemInv /\ [ZemNext]_zemVars => ZemInv'
<1> SUFFICES ASSUME ZemInv, [ZemNext]_zemVars PROVE ZemInv'
  OBVIOUS
<1>1. CASE UNCHANGED zemVars
  BY <1>1, Zenon DEF zemVars, ZemInv, ZemTypeOK, LockInv, ZemLocal, Bounded, NoLostWakeup, Posting, Looking, Signalling
<1>2. ASSUME NEW t \in ZemThreads, Zem_wait(t) \/ Zem_post(t) \/ SpuriousWakeup(t) PROVE ZemInv'
  <2>1. Bounded' /\ NoLostWakeup'
    BY <1>2, CountingStep, Zenon
  <2>2. /\ zpc' \in [ZemThreads -> ZemLabels] /\ lock' \in ZemThreads \cup {NoThread}
        /\ asleep' \subseteq ZemThreads /\ value' \in Nat /\ LockInv' /\ ZemLocal'
    BY <1>2, ZemLocalStep DEF ZemInv
  <2>3. Posting' \in SUBSET ZemThreads
    BY DEF Posting
  <2>4. Cardinality(Posting') \in Nat
    BY <2>3, Counting, Zenon
  <2>5. value' \in 0..MaxValue
    BY <2>1, <2>2, <2>4, ZemConstants DEF Bounded
  <2> QED BY <2>1, <2>2, <2>5, Zenon DEF ZemInv, ZemTypeOK
<1> QED BY <1>1, <1>2, Zenon DEF ZemNext

\* The inductive invariant holds in every reachable state.
THEOREM ZemInvariance == ZemSpec => []ZemInv
<1> QED BY InitZemInv, ZemStep, PTL DEF ZemSpec

\* The value stays within its bound and everything has its type, for any number
\* of threads that call Zem_wait and Zem_post (lines 51-64).
THEOREM ZemTypeCorrect == ZemSpec => []ZemTypeOK
<1>1. ZemInv => ZemTypeOK
  BY Zenon DEF ZemInv
<1> QED BY <1>1, ZemInvariance, PTL

\* One Cond_signal per post (line 62) is enough: no wake-up of a thread that
\* sleeps in Zem_wait is ever lost.
THEOREM WakeupsKept == ZemSpec => []NoLostWakeup
<1>1. ZemInv => NoLostWakeup
  BY DEF ZemInv
<1> QED BY <1>1, ZemInvariance, PTL

\* Zem_wait and Zem_post implement the abstract counting semaphore.
THEOREM ZemRefinement == ZemSpec => IsSemaphore
<1>1. ZemInit => Abs!Init
  BY Zenon DEF ZemInit, Abs!Init, callBar
<1>2. ZemInv /\ [ZemNext]_zemVars => [Abs!Next]_<<value, callBar>>
  <2> SUFFICES ASSUME ZemInv, [ZemNext]_zemVars PROVE [Abs!Next]_<<value, callBar>>
    OBVIOUS
  <2> USE DEF ZemInv, ZemTypeOK, ZemLabels, ZemGoto
  <2>1. CASE UNCHANGED zemVars
    BY <2>1, Zenon DEF zemVars, callBar
  <2>2. ASSUME NEW t \in ZemThreads, ZemGoto(t, "out", "52"), UNCHANGED value PROVE Abs!Call(t, "wait")
    BY <2>2, Zenon DEF Abs!Call, callBar
  <2>3. ASSUME NEW t \in ZemThreads, ZemGoto(t, "out", "60"), UNCHANGED value PROVE Abs!Call(t, "post")
    BY <2>3, Zenon DEF Abs!Call, callBar
  <2>4. ASSUME NEW t \in ZemThreads, ZemGoto(t, "55", "56"), value' = value - 1 PROVE Abs!Take(t)
    BY <2>4, Zenon DEF Abs!Take, callBar, ZemLocal
  <2>5. ASSUME NEW t \in ZemThreads, ZemGoto(t, "61", "62"), value' = value + 1 PROVE Abs!Give(t)
    BY <2>5, Zenon DEF Abs!Give, callBar
  <2>6. ASSUME NEW t \in ZemThreads, Cond_wait(t) \/ Cond_signal(t) \/ SpuriousWakeup(t)
               \/ Mutex_lock(t, "52", "53") \/ Mutex_lock(t, "60", "61")
               \/ Mutex_unlock(t, "56", "out") \/ Mutex_unlock(t, "63", "out")
               \/ (ZemGoto(t, "53", "55") /\ UNCHANGED value)
        PROVE  UNCHANGED <<value, callBar>>
    BY <2>6 DEF Cond_wait, Cond_signal, SpuriousWakeup, Mutex_lock, Mutex_unlock, callBar
  <2>7. ASSUME NEW t \in ZemThreads, Zem_wait(t) PROVE [Abs!Next]_<<value, callBar>>
    BY <2>2, <2>4, <2>6, <2>7, Zenon DEF Zem_wait, Abs!Next
  <2>8. ASSUME NEW t \in ZemThreads, Zem_post(t) PROVE [Abs!Next]_<<value, callBar>>
    BY <2>3, <2>5, <2>6, <2>8, Zenon DEF Zem_post, Abs!Next
  <2> QED BY <2>1, <2>6, <2>7, <2>8, Zenon DEF ZemNext
<1> QED BY <1>1, <1>2, ZemInvariance, PTL DEF ZemSpec, IsSemaphore, Abs!Spec
=============================================================================
