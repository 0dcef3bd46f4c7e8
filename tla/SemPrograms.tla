----------------------------- MODULE SemPrograms -----------------------------
(***************************************************************************)
(* The semaphore programs of chapter 31, side by side.  barrier.c,         *)
(* rendezvous.c and fork-join.c can be killed and run again over the names *)
(* they left in /dev/shm; cigarette_smokers.c, dining_savages.c,           *)
(* barbershop.c, FIFO_barbershop.c and Hilzers_barbershop.c run once.  A   *)
(* behaviour is a history of one program; the state of the others stays at *)
(* its initial value.                                                      *)
(*                                                                         *)
(* A program is introduced by its variables and its instance, followed by  *)
(* the inductive invariant that explains it and the proof that its steps   *)
(* keep it.  The composition and its properties come last.                 *)
(***************************************************************************)
EXTENDS ThreadCount, Sequences, FiniteSetTheorems, TLAPS

CONSTANTS MaxKills,         \* bound on how often a program is killed
          MaxRuns           \* bound on how often fork-join.c is run

ASSUME RunsAssumption == MaxRuns \in Nat \ {0} /\ MaxKills \in Nat

\* A count is a number; it is 0 if nobody is there, and all of S if everybody is.
LEMMA CountFacts ==
  ASSUME NEW S, IsFiniteSet(S)
  PROVE  /\ Cardinality(S) \in Nat
         /\ \A f, L : /\ Count(S, f, L) \in Nat /\ Count(S, f, L) <= Cardinality(S)
                      /\ Count(S, f, L) = 0 <=> \A t \in S : f[t] \notin L
                      /\ Count(S, f, L) = Cardinality(S) <=> \A t \in S : f[t] \in L
<1>1. Cardinality(S) \in Nat
  BY FS_CardinalityType
<1>2. ASSUME NEW f, NEW L
      PROVE  /\ Count(S, f, L) \in Nat /\ Count(S, f, L) <= Cardinality(S)
             /\ Count(S, f, L) = 0 <=> \A t \in S : f[t] \notin L
             /\ Count(S, f, L) = Cardinality(S) <=> \A t \in S : f[t] \in L
  <2> DEFINE T == {t \in S : f[t] \in L}
  <2>1. T \subseteq S /\ IsFiniteSet(T) /\ Cardinality(T) \in Nat
    BY FS_Subset, FS_CardinalityType
  <2>2. Cardinality(T) <= Cardinality(S) /\ (Cardinality(T) = Cardinality(S) => T = S)
    BY <2>1, FS_Subset
  <2>3. Cardinality(T) = 0 <=> T = {}
    BY <2>1, FS_EmptySet
  <2>4. T = S => Cardinality(T) = Cardinality(S)
    OBVIOUS
  <2>5. Count(S, f, L) = Cardinality(T)
    BY DEF Count
  <2>6. /\ T = {} <=> \A t \in S : f[t] \notin L
        /\ T = S <=> \A t \in S : f[t] \in L
    OBVIOUS
  <2> HIDE DEF T
  <2> QED BY <2>1, <2>2, <2>3, <2>4, <2>5, <2>6, Zenon
<1> QED BY <1>1, <1>2, Zenon

\* A thread that moves is counted at its new statement and not at the old one.
LEMMA CountMove ==
  ASSUME NEW S, IsFiniteSet(S), NEW f, NEW g, NEW t, Moves(S, f, g, t)
  PROVE  \A L : Count(S, g, L) = Count(S, f, L) + One(g[t] \in L) - One(f[t] \in L)
<1> SUFFICES ASSUME NEW L
             PROVE  Count(S, g, L) = Count(S, f, L) + One(g[t] \in L) - One(f[t] \in L)
  OBVIOUS
<1>0. t \in S /\ \A u \in S : u # t => g[u] = f[u]
  BY DEF Moves
<1> DEFINE F == {u \in S : f[u] \in L}
           G == {u \in S : g[u] \in L}
           R == {u \in S \ {t} : f[u] \in L}
<1>1. IsFiniteSet(R) /\ t \notin R
  BY FS_Subset
<1>2. Cardinality(R) \in Nat /\ Cardinality(R \cup {t}) = Cardinality(R) + 1
  BY <1>1, FS_CardinalityType, FS_AddElement, Zenon
<1>3. /\ F = IF f[t] \in L THEN R \cup {t} ELSE R
      /\ G = IF g[t] \in L THEN R \cup {t} ELSE R
  <2>1. F = IF f[t] \in L THEN R \cup {t} ELSE R
    BY <1>0
  <2>2. G = {u \in S \ {t} : g[u] \in L} \cup (IF g[t] \in L THEN {t} ELSE {})
    BY <1>0
  <2>3. {u \in S \ {t} : g[u] \in L} = R
    BY <1>0
  <2> QED BY <2>1, <2>2, <2>3
<1>4. Count(S, f, L) = Cardinality(F) /\ Count(S, g, L) = Cardinality(G)
  BY DEF Count
<1> HIDE DEF F, G, R
<1>5. Cardinality(F) = Cardinality(R) + One(f[t] \in L) /\ Cardinality(G) = Cardinality(R) + One(g[t] \in L)
  BY <1>2, <1>3 DEF One
<1>6. PICK r \in Nat : r = Cardinality(R)
  BY <1>2
<1> QED BY <1>4, <1>5, <1>6 DEF One

\* Two threads are counted twice.
LEMMA CountTwo ==
  \A S, f, L : IsFiniteSet(S) /\ Count(S, f, L) <= 1 =>
    \A t, u \in S : f[t] \in L /\ f[u] \in L => t = u
<1> SUFFICES ASSUME NEW S, NEW f, NEW L, IsFiniteSet(S), Count(S, f, L) <= 1,
                    NEW t \in S, NEW u \in S, f[t] \in L, f[u] \in L, t # u
             PROVE  FALSE
  OBVIOUS
<1>1. {t, u} \subseteq {v \in S : f[v] \in L} /\ IsFiniteSet({v \in S : f[v] \in L})
  BY FS_Subset
<1>2. Cardinality({t, u}) = 2
  <2>1. IsFiniteSet({t}) /\ Cardinality({t}) = 1 /\ u \notin {t} /\ {t} \cup {u} = {t, u}
    BY FS_Singleton, Zenon
  <2>2. Cardinality({t} \cup {u}) = 1 + 1
    BY <2>1, FS_AddElement, Zenon
  <2> QED BY <2>1, <2>2
<1>3. /\ Cardinality({t, u}) <= Cardinality({v \in S : f[v] \in L})
      /\ Cardinality({v \in S : f[v] \in L}) \in Nat
  BY <1>1, FS_Subset, FS_CardinalityType
<1> QED BY <1>2, <1>3 DEF Count

\* What the proofs in FifoBarbershop and HilzersBarbershop assume of counting.
LEMMA Laws == CountingLaws
<1>1. ASSUME NEW S, IsFiniteSet(S)
      PROVE  /\ Cardinality(S) \in Nat
             /\ \A T : T \subseteq S => IsFiniteSet(T)
             /\ \A x : x \notin S => Cardinality(S \cup {x}) = Cardinality(S) + 1
             /\ \A x : x \in S => Cardinality(S \ {x}) = Cardinality(S) - 1
  <2>1. Cardinality(S) \in Nat /\ \A T : T \subseteq S => IsFiniteSet(T)
    BY <1>1, FS_CardinalityType, FS_Subset
  <2>2. ASSUME NEW x, x \notin S PROVE Cardinality(S \cup {x}) = Cardinality(S) + 1
    BY <1>1, <2>2, FS_AddElement, Zenon
  <2>3. ASSUME NEW x, x \in S PROVE Cardinality(S \ {x}) = Cardinality(S) - 1
    BY <1>1, <2>3, FS_RemoveElement, Zenon
  <2> QED BY <2>1, <2>2, <2>3, Zenon
<1>2. ASSUME NEW S, NEW f, NEW L, IsFiniteSet(S)
      PROVE  /\ Count(S, f, L) \in Nat /\ Count(S, f, L) <= Cardinality(S)
             /\ Count(S, f, L) = 0 <=> \A t \in S : f[t] \notin L
  BY <1>2, CountFacts
<1>3. ASSUME NEW S, NEW f, NEW g, NEW t, IsFiniteSet(S), Moves(S, f, g, t)
      PROVE  \A L : Count(S, g, L) = Count(S, f, L) + One(g[t] \in L) - One(f[t] \in L)
  BY <1>3, CountMove
<1>4. Cardinality({}) = 0
  BY FS_EmptySet, Zenon
<1> QED BY <1>1, <1>2, <1>3, <1>4 DEF CountingLaws
-----------------------------------------------------------------------------
(* dining_savages.c *)

CONSTANTS SavageThreads, MaxPotSize

ASSUME SavagesAssumption ==
  IsFiniteSet(SavageThreads) /\ "cook" \notin SavageThreads /\ MaxPotSize \in Nat

VARIABLES vpc, vsem, stewed_missionaries, pot_size, loop

vvars == <<vpc, vsem, stewed_missionaries, pot_size, loop>>

Savages == INSTANCE Savages WITH Savages <- SavageThreads, pc <- vpc, sem <- vsem

VSems == {"empty_pot", "full_pot", "mutex"}
VAtPot == {"61", "62", "63", "64", "66"}
VHungry == {"60", "61", "62", "63", "64", "66"}

VTypes ==
  /\ vpc \in [Savages!Threads -> {"51", "53", "60", "61", "62", "63", "64", "66", "68", "done"}]
  /\ vpc["cook"] \in {"51", "53", "done"} /\ \A t \in SavageThreads : vpc[t] \notin {"51", "53"}
  /\ vsem \in [VSems -> Nat]
  /\ pot_size \in Nat \ {0} /\ stewed_missionaries \in 0..pot_size /\ loop \in Nat

\* One savage at a time is between taking and giving back mutex.
VMutex ==
  /\ vsem["mutex"] \in 0..1
  /\ vsem["mutex"] = 1 => \A t \in SavageThreads : vpc[t] \notin VAtPot \cup {"68"}
  /\ \A t, u \in SavageThreads : vpc[t] \in VAtPot \cup {"68"} /\ vpc[u] \in VAtPot \cup {"68"} => t = u

\* A savage that waits for the cook has called it, the cook is at work, or the
\* pot is full again; and without one that waits there is nothing of that.
VCalls ==
  /\ vsem["empty_pot"] + One(vpc["cook"] = "53") + vsem["full_pot"] = One(\E t \in SavageThreads : vpc[t] = "63")
  /\ vpc["cook"] = "53" => loop > 0

\* What a savage has seen in the pot stays there.
VPot ==
  \A t \in SavageThreads : /\ vpc[t] \in {"62", "63", "64"} => stewed_missionaries = 0
                           /\ vpc[t] = "66" => stewed_missionaries > 0

\* What the cook owes.
VOwed == loop + vsem["full_pot"] + Count(SavageThreads, vpc, {"64"})
VFood == (stewed_missionaries + VOwed * pot_size) - Count(SavageThreads, vpc, VHungry) \in 0..(pot_size - 1)

VInv == VTypes /\ VMutex /\ VCalls /\ VPot /\ VFood

\* The cardinality that module Savages counts with is that of FiniteSets.
LEMMA VCardinality == \A S : Savages!Cardinality(S) = Cardinality(S)
BY DEF Savages!Cardinality, Cardinality

\* The number of fillings is enough, and one less is not.
LEMMA VFillings ==
  ASSUME NEW n \in Nat, NEW p \in Nat \ {0}
  PROVE  Savages!Fillings(n, p) \in Nat /\ Savages!Fillings(n, p) * p - n \in 0..(p - 1)
<1>1. n = p * (n \div p) + (n % p) /\ n % p \in 0..(p - 1) /\ n \div p \in Nat
  OBVIOUS
<1>2. PICK q \in Nat, r \in 0..(p - 1) : q = n \div p /\ r = n % p /\ n = p * q + r
  BY <1>1, Zenon
<1>3. CASE r = 0
  <2>1. Savages!Fillings(n, p) = q
    BY <1>2, <1>3, Zenon DEF Savages!Fillings
  <2> QED BY <1>2, <1>3, <2>1
<1>4. CASE r # 0
  <2>1. Savages!Fillings(n, p) = q + 1
    BY <1>2, <1>4, Zenon DEF Savages!Fillings
  <2>2. (q + 1) * p = p * q + p
    BY <1>2
  <2> QED BY <1>2, <1>4, <2>1, <2>2
<1> QED BY <1>3, <1>4, Zenon

\* dining_savages.c starts in a state of the invariant.
LEMMA VInit == Savages!Init => VInv
<1> SUFFICES ASSUME Savages!Init PROVE VInv
  OBVIOUS
<1>1. PICK created \in SUBSET SavageThreads \ {{}} :
        /\ pot_size \in 1..MaxPotSize
        /\ vpc = [t \in Savages!Threads |-> IF t = "cook" THEN "51" ELSE IF t \in created THEN "60" ELSE "done"]
        /\ vsem = [s \in {"empty_pot", "full_pot", "mutex"} |-> IF s = "mutex" THEN 1 ELSE 0]
        /\ stewed_missionaries = 0
        /\ loop = Savages!Fillings(Cardinality(created), pot_size)
  BY VCardinality, Zenon DEF Savages!Init
<1>2. pot_size \in Nat \ {0} /\ IsFiniteSet(created) /\ Cardinality(created) \in Nat
  BY <1>1, SavagesAssumption, FS_Subset, FS_CardinalityType
<1>3. loop \in Nat /\ loop * pot_size - Cardinality(created) \in 0..(pot_size - 1)
  BY <1>1, <1>2, VFillings, Zenon
<1>4. /\ vpc["cook"] = "51" /\ \A t \in SavageThreads : vpc[t] = IF t \in created THEN "60" ELSE "done"
      /\ vsem["empty_pot"] = 0 /\ vsem["full_pot"] = 0 /\ vsem["mutex"] = 1
  BY <1>1, SavagesAssumption, Zenon DEF Savages!Threads
<1>5. VTypes
  BY <1>1, <1>2, <1>3, <1>4, SavagesAssumption DEF VTypes, VSems
<1>6. VMutex /\ VPot
  BY <1>4 DEF VMutex, VPot, VAtPot
<1>7. VCalls
  BY <1>4 DEF VCalls, One
<1>8. VFood
  <2>1. Count(SavageThreads, vpc, {"64"}) = 0
    BY <1>4, CountFacts, SavagesAssumption
  <2>2. {t \in SavageThreads : vpc[t] \in VHungry} = created
    BY <1>1, <1>4 DEF VHungry
  <2>3. Count(SavageThreads, vpc, VHungry) = Cardinality(created)
    BY <2>2, Zenon DEF Count
  <2> QED BY <1>1, <1>2, <1>3, <1>4, <2>1, <2>3 DEF VFood, VOwed
<1> QED BY <1>5, <1>6, <1>7, <1>8, Zenon DEF VInv

\* A step of the cook keeps it.
LEMMA VCook == ASSUME VInv, Savages!cook PROVE VInv'
<1> USE DEF Savages!WaitStep, Savages!PostStep, Savages!LocalStep, Savages!Goto, Savages!Sem_wait, Savages!Sem_post, Savages!pot
<1>0. VTypes /\ VMutex /\ VCalls /\ VPot /\ VFood /\ "cook" \in Savages!Threads /\ "cook" \notin SavageThreads
      /\ \A t \in SavageThreads : t \in Savages!Threads
  BY SavagesAssumption, Zenon DEF VInv, Savages!Threads
<1>1. \A t \in SavageThreads : vpc'[t] = vpc[t]
  BY <1>0, Zenon DEF Savages!cook, VTypes
<1>2. UNCHANGED <<stewed_missionaries, pot_size>> /\ vsem'["mutex"] = vsem["mutex"]
  BY <1>0, Zenon DEF Savages!cook, VTypes, VSems
<1>3. VTypes'
  BY <1>0, <1>1 DEF Savages!cook, VTypes, VSems, VCalls
<1>4. VMutex' /\ VPot'
  BY <1>0, <1>1, <1>2, Zenon DEF VMutex, VPot
<1>5. VCalls'
  <2>1. One(\E t \in SavageThreads : vpc[t] = "63")' = One(\E t \in SavageThreads : vpc[t] = "63")
    BY <1>1, Zenon DEF One
  <2>2. vsem'["empty_pot"] + One(vpc'["cook"] = "53") + vsem'["full_pot"]
          = vsem["empty_pot"] + One(vpc["cook"] = "53") + vsem["full_pot"]
    BY <1>0 DEF Savages!cook, VTypes, VSems, One
  <2>3. vpc'["cook"] = "53" => loop' > 0
    BY <1>0, Zenon DEF Savages!cook, VTypes
  <2> QED BY <1>0, <2>1, <2>2, <2>3, Zenon DEF VCalls
<1>6. VFood'
  <2>1. \A L : Count(SavageThreads, vpc', L) = Count(SavageThreads, vpc, L)
    BY <1>1, Zenon DEF Count
  <2>2. loop' + vsem'["full_pot"] = loop + vsem["full_pot"]
    BY <1>0 DEF Savages!cook, VTypes, VSems
  <2>3. VOwed' = VOwed
    BY <2>1, <2>2, Zenon DEF VOwed
  <2> QED BY <1>0, <1>2, <2>1, <2>3, Zenon DEF VFood
<1> QED BY <1>3, <1>4, <1>5, <1>6, Zenon DEF VInv

\* A step of a savage keeps it.
LEMMA VSavage == ASSUME VInv, NEW t \in SavageThreads, Savages!savage(t) PROVE VInv'
<1> USE DEF Savages!WaitStep, Savages!PostStep, Savages!LocalStep, Savages!Goto, Savages!Sem_wait, Savages!Sem_post, Savages!pot
<1>0. /\ VTypes /\ VMutex /\ VCalls /\ VPot /\ VFood /\ t \in Savages!Threads /\ t # "cook" /\ "cook" \in Savages!Threads
      /\ \A u \in SavageThreads : u \in Savages!Threads
  BY SavagesAssumption, Zenon DEF VInv, Savages!Threads
<1>1. PICK l \in {"61", "62", "63", "64", "66", "68", "done"} :
        /\ vpc' = [vpc EXCEPT ![t] = l] /\ loop' = loop /\ pot_size' = pot_size
        /\ \/ /\ vpc[t] = "60" /\ l = "61" /\ vsem["mutex"] > 0 /\ vsem' = [vsem EXCEPT !["mutex"] = @ - 1]
              /\ stewed_missionaries' = stewed_missionaries
           \/ /\ vpc[t] = "61" /\ l = (IF stewed_missionaries = 0 THEN "62" ELSE "66") /\ vsem' = vsem
              /\ stewed_missionaries' = stewed_missionaries
           \/ /\ vpc[t] = "62" /\ l = "63" /\ vsem' = [vsem EXCEPT !["empty_pot"] = @ + 1]
              /\ stewed_missionaries' = stewed_missionaries
           \/ /\ vpc[t] = "63" /\ l = "64" /\ vsem["full_pot"] > 0 /\ vsem' = [vsem EXCEPT !["full_pot"] = @ - 1]
              /\ stewed_missionaries' = stewed_missionaries
           \/ vpc[t] = "64" /\ l = "66" /\ vsem' = vsem /\ stewed_missionaries' = pot_size
           \/ vpc[t] = "66" /\ l = "68" /\ vsem' = vsem /\ stewed_missionaries' = stewed_missionaries - 1
           \/ /\ vpc[t] = "68" /\ l = "done" /\ vsem' = [vsem EXCEPT !["mutex"] = @ + 1]
              /\ stewed_missionaries' = stewed_missionaries
  BY Zenon DEF Savages!savage
<1>2. vpc'[t] = l /\ vpc'["cook"] = vpc["cook"] /\ \A u \in SavageThreads : u # t => vpc'[u] = vpc[u]
  BY <1>0, <1>1, Zenon DEF VTypes
<1>3. VTypes'
  <2>1. stewed_missionaries' \in 0..pot_size
    BY <1>0, <1>1 DEF VTypes, VPot
  <2>2. vsem' \in [VSems -> Nat]
    BY <1>0, <1>1 DEF VTypes, VSems
  <2>3. vpc' \in [Savages!Threads -> {"51", "53", "60", "61", "62", "63", "64", "66", "68", "done"}]
    BY <1>0, <1>1, Zenon DEF VTypes
  <2> QED BY <1>0, <1>1, <1>2, <2>1, <2>2, <2>3, Zenon DEF VTypes
<1>4. VMutex'
  BY <1>0, <1>1, <1>2 DEF VMutex, VTypes, VSems, VAtPot
<1>5. VPot'
  BY <1>0, <1>1, <1>2 DEF VPot, VMutex, VTypes, VAtPot
<1>6. VCalls'
  <2>1. \A u \in SavageThreads : u # t /\ vpc[t] \in VAtPot => vpc[u] # "63"
    BY <1>0 DEF VMutex, VAtPot
  <2>2. CASE vpc[t] \notin {"62", "63"}
    <3>1. (\E u \in SavageThreads : vpc'[u] = "63") <=> (\E u \in SavageThreads : vpc[u] = "63")
      BY <1>1, <1>2, <2>2, Zenon
    <3>2. vsem'["empty_pot"] = vsem["empty_pot"] /\ vsem'["full_pot"] = vsem["full_pot"]
      BY <1>0, <1>1, <2>2, Zenon DEF VTypes, VSems
    <3> QED BY <1>0, <1>1, <1>2, <3>1, <3>2, Zenon DEF VCalls, One
  <2>3. CASE vpc[t] = "62"
    <3>1. (\E u \in SavageThreads : vpc'[u] = "63") /\ ~(\E u \in SavageThreads : vpc[u] = "63")
      BY <1>1, <1>2, <2>1, <2>3, Zenon DEF VAtPot
    <3>2. vsem'["empty_pot"] = vsem["empty_pot"] + 1 /\ vsem'["full_pot"] = vsem["full_pot"]
      BY <1>0, <1>1, <2>3, Zenon DEF VTypes, VSems
    <3> QED BY <1>0, <1>1, <1>2, <3>1, <3>2 DEF VCalls, One, VTypes, VSems
  <2>4. CASE vpc[t] = "63"
    <3>1. (\E u \in SavageThreads : vpc[u] = "63") /\ ~(\E u \in SavageThreads : vpc'[u] = "63")
      BY <1>1, <1>2, <2>1, <2>4, Zenon DEF VAtPot
    <3>2. vsem'["empty_pot"] = vsem["empty_pot"] /\ vsem'["full_pot"] = vsem["full_pot"] - 1
      BY <1>0, <1>1, <2>4, Zenon DEF VTypes, VSems
    <3> QED BY <1>0, <1>1, <1>2, <3>1, <3>2 DEF VCalls, One, VTypes, VSems
  <2> QED BY <2>2, <2>3, <2>4, Zenon
<1>7. VFood'
  <2>1. \A L : Count(SavageThreads, vpc', L) = Count(SavageThreads, vpc, L) + One(l \in L) - One(vpc[t] \in L)
    <3>0. IsFiniteSet(SavageThreads)
      BY SavagesAssumption
    <3>1. Moves(SavageThreads, vpc, vpc', t)
      BY <1>2, Zenon DEF Moves
    <3>2. \A L : Count(SavageThreads, vpc', L) = Count(SavageThreads, vpc, L) + One(vpc'[t] \in L) - One(vpc[t] \in L)
      BY <3>1, <3>0, CountMove
    <3> QED BY <1>2, <3>2, Zenon
  <2>2. \A L : Count(SavageThreads, vpc, L) \in Nat
    BY SavagesAssumption, CountFacts, Zenon
  <2>3. Count(SavageThreads, vpc', VHungry) = Count(SavageThreads, vpc, VHungry) - One(vpc[t] = "66")
    <3>1. Count(SavageThreads, vpc', VHungry) = Count(SavageThreads, vpc, VHungry) + One(l \in VHungry) - One(vpc[t] \in VHungry)
      BY <2>1, Zenon
    <3>2. PICK c \in Nat : c = Count(SavageThreads, vpc, VHungry)
      BY <2>2
    <3>3. Count(SavageThreads, vpc', VHungry) = c + One(l \in VHungry) - One(vpc[t] \in VHungry)
      BY <3>1, <3>2, Zenon
    <3>4. (l \in VHungry <=> vpc[t] \notin {"66", "68"}) /\ (vpc[t] \in VHungry <=> vpc[t] # "68")
      BY <1>1, Zenon DEF VHungry
    <3> QED BY <3>2, <3>3, <3>4 DEF One
  <2>4. VOwed \in Nat /\ VOwed' = VOwed - One(vpc[t] = "64")
    <3>1. Count(SavageThreads, vpc', {"64"}) = Count(SavageThreads, vpc, {"64"}) + One(l \in {"64"}) - One(vpc[t] \in {"64"})
      BY <2>1, Zenon
    <3>2. vsem["full_pot"] \in Nat /\ vsem'["full_pot"] = vsem["full_pot"] - One(vpc[t] = "63")
      BY <1>0, <1>1 DEF VTypes, VSems, One
    <3> QED BY <1>0, <1>1, <2>2, <3>1, <3>2 DEF VOwed, VTypes, One
  <2>5. CASE vpc[t] = "64"
    <3>1. stewed_missionaries = 0 /\ stewed_missionaries' = pot_size /\ pot_size' = pot_size /\ pot_size \in Nat
      BY <1>0, <1>1, <2>5, Zenon DEF VPot, VTypes
    <3>2. (VOwed - 1) * pot_size + pot_size = VOwed * pot_size
      BY <2>4, <3>1
    <3>3. VOwed' * pot_size + pot_size = VOwed * pot_size
      BY <2>4, <2>5, <3>2, Zenon DEF One
    <3>4. VOwed * pot_size - Count(SavageThreads, vpc, VHungry) \in 0..(pot_size - 1)
      <4>1. VOwed * pot_size \in Nat
        BY <2>4, <3>1
      <4>2. (stewed_missionaries + VOwed * pot_size) - Count(SavageThreads, vpc, VHungry) \in 0..(pot_size - 1)
        BY <1>0 DEF VFood
      <4>3. PICK b \in Nat : b = VOwed * pot_size
        BY <4>1, Zenon
      <4>4. PICK c \in Nat : c = Count(SavageThreads, vpc, VHungry)
        BY <2>2
      <4>5. (0 + b) - c = b - c
        OBVIOUS
      <4> QED BY <3>1, <4>2, <4>3, <4>4, <4>5, Zenon
    <3>5. (pot_size + VOwed' * pot_size) - Count(SavageThreads, vpc', VHungry) = VOwed * pot_size - Count(SavageThreads, vpc, VHungry)
      <4>1. PICK a \in Int, b \in Int : a = VOwed' * pot_size /\ b = VOwed * pot_size /\ a + pot_size = b
        BY <2>4, <2>5, <3>1, <3>3 DEF One
      <4> QED BY <2>2, <2>3, <2>5, <3>1, <4>1 DEF One
    <3> QED BY <3>1, <3>4, <3>5, Zenon DEF VFood
  <2>6. CASE vpc[t] # "64"
    <3>1. VOwed' = VOwed /\ pot_size' = pot_size
          /\ stewed_missionaries' = stewed_missionaries - One(vpc[t] = "66")
      BY <1>0, <1>1, <2>4, <2>6 DEF One, VTypes
    <3>2. PICK a \in Nat : a = VOwed * pot_size
      BY <1>0, <2>4 DEF VTypes
    <3>3. (stewed_missionaries' + VOwed' * pot_size') - Count(SavageThreads, vpc', VHungry)
            = (stewed_missionaries + VOwed * pot_size) - Count(SavageThreads, vpc, VHungry)
      BY <1>0, <2>2, <2>3, <3>1, <3>2 DEF VTypes, One
    <3> QED BY <1>0, <3>1, <3>3, Zenon DEF VFood
  <2> QED BY <2>5, <2>6, Zenon
<1> QED BY <1>3, <1>4, <1>5, <1>6, <1>7, Zenon DEF VInv

\* A step of dining_savages.c keeps the invariant.
LEMMA VStep == VInv /\ [Savages!Next]_vvars => VInv'
<1> SUFFICES ASSUME VInv, [Savages!Next]_vvars PROVE VInv'
  OBVIOUS
<1>1. CASE UNCHANGED vvars
  BY <1>1, Zenon DEF vvars, VInv, VTypes, VMutex, VCalls, VPot, VFood, VOwed
<1> QED BY <1>1, VCook, VSavage, Zenon DEF Savages!Next

\* What the invariant says.
LEMMA VShows == VInv => Savages!CookCalled /\ Savages!CookOwes /\ Savages!TypeOK
<1> SUFFICES ASSUME VInv PROVE Savages!CookCalled /\ Savages!CookOwes /\ Savages!TypeOK
  OBVIOUS
<1>0. VTypes /\ VMutex /\ VCalls /\ VFood
  BY DEF VInv
<1>1. Savages!CookCalled
  BY <1>0 DEF VTypes, VMutex, VCalls, VSems, VAtPot, One, Savages!CookCalled
<1>2. Savages!CookOwes
  <2>1. Cardinality(Savages!Hungry) = Count(SavageThreads, vpc, VHungry)
    BY DEF Savages!Hungry, Count, VHungry
  <2>2. Cardinality({t \in SavageThreads : vpc[t] = "64"}) = Count(SavageThreads, vpc, {"64"})
    <3>1. {t \in SavageThreads : vpc[t] = "64"} = {t \in SavageThreads : vpc[t] \in {"64"}}
      OBVIOUS
    <3> QED BY <3>1 DEF Count
  <2> QED BY <1>0, <2>1, <2>2, VCardinality, Zenon DEF Savages!CookOwes, VFood, VOwed
<1>3. Savages!TypeOK
  <2>1. vsem \in [VSems -> 0..1]
    BY <1>0 DEF VTypes, VMutex, VCalls, VSems, One
  <2> QED BY <1>0, <2>1, Zenon DEF Savages!TypeOK, VTypes, VSems
<1> QED BY <1>1, <1>2, <1>3, Zenon
-----------------------------------------------------------------------------
(* cigarette_smokers.c *)

VARIABLES spc, ssem, has

svars == <<spc, ssem, has>>

Smokers == INSTANCE Smokers WITH pc <- spc, sem <- ssem

STypes ==
  /\ spc \in [Smokers!Threads -> {"94", "95", "push1", "push2", "109", "wait", "smoking", "done"}]
  /\ ssem \in [Smokers!Semaphores -> Nat] /\ has \subseteq Smokers!Ingredients
  /\ \A a \in Smokers!Agents : spc[a] \in {"94", "95", "push1", "push2", "109", "done"}
  /\ \A s \in Smokers!Smokers : spc[s] \in {"wait", "smoking", "done"}

SCnt(L) == Count(Smokers!Threads, spc, L)

\* One turn is under way: the agents' token is there, or an agent has it, or
\* one ingredient semaphore was posted for it, or its smoker smokes.
STurn ==
  ssem["agent"] + SCnt({"95", "push1", "push2", "smoking"}) + ssem["tobacco"] + ssem["paper"] + ssem["match"] = 1

SLock == ssem["lock"] + SCnt({"push1", "push2", "109"}) = 1

\* Between its two pushes an agent finds on the table what it put there.
STable ==
  /\ \A a \in Smokers!Agents : spc[a] = "push2" => has = {Smokers!Pushes[Smokers!Type(a)][1]}
  /\ (\A a \in Smokers!Agents : spc[a] # "push2") => has = {}

SRight ==
  \A s \in Smokers!Smokers :
    spc[s] \in {"smoking", "done"} \/ ssem[Smokers!Own(s)] > 0 => spc[Smokers!Supplier(s)] \in {"109", "done"}

SInv == STypes /\ STurn /\ SLock /\ STable /\ SRight

\* The smoker whom the agents supply.
SServed(a) == CASE a = "agent0" -> "smoker_match" [] a = "agent1" -> "smoker_tobacco" [] a = "agent2" -> "smoker_paper"

\* Every smoker has one supplier, and every agent one smoker whom it serves.
LEMMA SSuppliers ==
  /\ \A a \in Smokers!Agents : SServed(a) \in Smokers!Smokers
  /\ \A s \in Smokers!Smokers : /\ Smokers!Own(s) \in Smokers!Ingredients /\ Smokers!Supplier(s) \in Smokers!Agents
                                /\ \A a \in Smokers!Agents : SServed(a) = s <=> Smokers!Supplier(s) = a
                                /\ \A r \in Smokers!Smokers : Smokers!Own(r) = Smokers!Own(s) => r = s
<1>1. Smokers!Supplier("smoker_match") = "agent0"
  BY DEF Smokers!Supplier, Smokers!Agents, Smokers!Own, Smokers!Pushes, Smokers!Type
<1>2. Smokers!Supplier("smoker_tobacco") = "agent1"
  BY DEF Smokers!Supplier, Smokers!Agents, Smokers!Own, Smokers!Pushes, Smokers!Type
<1>3. Smokers!Supplier("smoker_paper") = "agent2"
  BY Zenon DEF Smokers!Supplier, Smokers!Agents, Smokers!Own, Smokers!Pushes, Smokers!Type
<1> QED BY <1>1, <1>2, <1>3, Zenon DEF SServed, Smokers!Agents, Smokers!Smokers, Smokers!Own, Smokers!Ingredients

\* The first push finds the table empty and leaves its ingredient on it.
LEMMA SFirst ==
  ASSUME NEW a \in Smokers!Agents, has = {}, Smokers!Pusher(Smokers!Pushes[Smokers!Type(a)][1])
  PROVE  has' = {Smokers!Pushes[Smokers!Type(a)][1]} /\ ssem' = ssem /\ Smokers!Pushes[Smokers!Type(a)][1] \in Smokers!Ingredients
<1>1. Smokers!Pushes[Smokers!Type(a)][1] \in Smokers!Ingredients
  BY Zenon DEF Smokers!Agents, Smokers!Type, Smokers!Pushes, Smokers!Ingredients
<1>2. ASSUME NEW x \in Smokers!Ingredients, has = {}, Smokers!Pusher(x)
      PROVE  has' = has \cup {x} /\ ssem' = ssem
  BY ONLY <1>2, Zenon DEF Smokers!Pusher
<1>3. \A x : {} \cup {x} = {x}
  BY ONLY Zenon
<1> QED BY <1>1, <1>2, <1>3, Zenon

\* The second finds the first one's and wakes the smoker who lacks the two.
LEMMA SSecond ==
  ASSUME NEW a \in Smokers!Agents, has = {Smokers!Pushes[Smokers!Type(a)][1]}, Smokers!Pusher(Smokers!Pushes[Smokers!Type(a)][2])
  PROVE  has' = {} /\ ssem' = [ssem EXCEPT ![Smokers!Own(SServed(a))] = @ + 1]
<1>1. CASE a = "agent0"
  BY <1>1, Zenon DEF Smokers!Type, Smokers!Pushes, Smokers!Pusher, Smokers!Ingredients, SServed, Smokers!Own, Smokers!Sem_post
<1>2. CASE a = "agent1"
  BY <1>2, Zenon DEF Smokers!Type, Smokers!Pushes, Smokers!Pusher, Smokers!Ingredients, SServed, Smokers!Own, Smokers!Sem_post
<1>3. CASE a = "agent2"
  BY <1>3, Zenon DEF Smokers!Type, Smokers!Pushes, Smokers!Pusher, Smokers!Ingredients, SServed, Smokers!Own, Smokers!Sem_post
<1> QED BY <1>1, <1>2, <1>3, Zenon DEF Smokers!Agents

\* The counts of the threads.
LEMMA SCounting ==
  /\ IsFiniteSet(Smokers!Threads)
  /\ \A L : /\ SCnt(L) \in Nat /\ (SCnt(L) = 0 <=> \A t \in Smokers!Threads : spc[t] \notin L)
            /\ SCnt(L) <= 1 => \A t, u \in Smokers!Threads : spc[t] \in L /\ spc[u] \in L => t = u
<1>1. IsFiniteSet(Smokers!Threads)
  <2>1. Smokers!Threads = {"agent0"} \cup {"agent1"} \cup {"agent2"} \cup {"smoker_tobacco"} \cup {"smoker_paper"} \cup {"smoker_match"}
    BY DEF Smokers!Threads, Smokers!Agents, Smokers!Smokers
  <2> QED BY <2>1, FS_Singleton, FS_Union, Zenon
<1> QED BY <1>1, CountFacts, CountTwo, Zenon DEF SCnt

\* cigarette_smokers.c starts in a state of the invariant.
LEMMA SInit == Smokers!Init => SInv
<1> SUFFICES ASSUME Smokers!Init PROVE SInv
  OBVIOUS
<1>1. /\ \A a \in Smokers!Agents : spc[a] = "94"
      /\ \A s \in Smokers!Smokers : spc[s] = "wait" /\ ssem[Smokers!Own(s)] = 0
      /\ \A t \in Smokers!Threads : spc[t] \in {"94", "wait"}
  BY DEF Smokers!Init, Smokers!Threads, Smokers!Agents, Smokers!Smokers, Smokers!Own, Smokers!Semaphores, Smokers!Ingredients
<1>2. SCnt({"95", "push1", "push2", "smoking"}) = 0 /\ SCnt({"push1", "push2", "109"}) = 0
  BY <1>1, SCounting, Zenon
<1>3. STypes
  BY <1>1, Zenon DEF Smokers!Init, STypes, Smokers!Threads
<1>4. STurn /\ SLock
  BY <1>2 DEF Smokers!Init, STurn, SLock, Smokers!Semaphores, Smokers!Ingredients
<1>5. STable /\ SRight
  BY <1>1 DEF Smokers!Init, STable, SRight
<1> QED BY <1>3, <1>4, <1>5, Zenon DEF SInv

\* A step moves one thread, and the counts with it.
LEMMA SMove ==
  ASSUME NEW t, Moves(Smokers!Threads, spc, spc', t)
  PROVE  \A L : SCnt(L)' = SCnt(L) + One(spc'[t] \in L) - One(spc[t] \in L)
<1>1. IsFiniteSet(Smokers!Threads)
  BY SCounting, Zenon
<1>2. \A L : Count(Smokers!Threads, spc', L) = Count(Smokers!Threads, spc, L) + One(spc'[t] \in L) - One(spc[t] \in L)
  BY <1>1, CountMove
<1> QED BY <1>2, Zenon DEF SCnt

\* A step of cigarette_smokers.c keeps the invariant.
LEMMA SStep == SInv /\ [Smokers!Next]_svars => SInv'
<1> SUFFICES ASSUME SInv, [Smokers!Next]_svars PROVE SInv'
  OBVIOUS
<1> DEFINE A == {"95", "push1", "push2", "smoking"}
           B == {"push1", "push2", "109"}
<1> USE DEF Smokers!WaitStep, Smokers!PostStep, Smokers!LocalStep, Smokers!Goto, Smokers!Sem_wait, Smokers!Sem_post
<1>0. STypes /\ STurn /\ SLock /\ STable /\ SRight
  BY DEF SInv
<1>s. PICK ag \in Nat, to \in Nat, pa \in Nat, ma \in Nat, lo \in Nat :
        /\ ag = ssem["agent"] /\ to = ssem["tobacco"] /\ pa = ssem["paper"] /\ ma = ssem["match"] /\ lo = ssem["lock"]
  BY <1>0, Zenon DEF STypes, Smokers!Semaphores, Smokers!Ingredients
<1>c. PICK n \in Nat, m \in Nat : n = SCnt(A) /\ m = SCnt(B)
  BY SCounting
<1>e. ag + n + to + pa + ma = 1 /\ lo + m = 1
  BY <1>0, <1>s, <1>c, Zenon DEF STurn, SLock
<1>1. ASSUME NEW a \in Smokers!Agents, Smokers!agent(a) PROVE SInv'
  <2>0. a \in Smokers!Threads /\ a \notin Smokers!Smokers /\ \A u \in Smokers!Agents : spc[u] \in A /\ spc[a] \in A => u = a
    <3>1. n <= 1
      BY <1>e
    <3>2. \A u \in Smokers!Threads : spc[u] \in A /\ spc[a] \in A => u = a
      BY <1>1, <1>c, <3>1, SCounting, Zenon DEF Smokers!Threads
    <3> QED BY <3>2 DEF Smokers!Threads, Smokers!Agents, Smokers!Smokers
  <2>1. PICK l \in {"95", "push1", "push2", "109", "done"} : spc' = [spc EXCEPT ![a] = l]
    BY <1>1 DEF Smokers!agent
  <2>2. /\ SCnt(A)' = n + One(l \in A) - One(spc[a] \in A)
        /\ SCnt(B)' = m + One(l \in B) - One(spc[a] \in B)
    <3>1. Moves(Smokers!Threads, spc, spc', a) /\ spc'[a] = l
      BY <1>0, <2>0, <2>1, Zenon DEF Moves, STypes
    <3> QED BY <1>c, <3>1, SMove, Zenon
  <2>3. spc'[a] = l /\ (\A u \in Smokers!Threads : u # a => spc'[u] = spc[u]) /\ \A s \in Smokers!Smokers : spc'[s] = spc[s]
    BY <1>0, <2>0, <2>1, Zenon DEF STypes, Smokers!Threads
  <2>4. \/ /\ spc[a] = "94" /\ l = "95" /\ has' = has /\ ag > 0 /\ ssem' = [ssem EXCEPT !["agent"] = @ - 1]
        \/ /\ spc[a] = "95" /\ l = "push1" /\ has' = has /\ lo > 0 /\ ssem' = [ssem EXCEPT !["lock"] = @ - 1]
        \/ /\ spc[a] = "push1" /\ l = "push2" /\ has' = {Smokers!Pushes[Smokers!Type(a)][1]} /\ ssem' = ssem
           /\ Smokers!Pushes[Smokers!Type(a)][1] \in Smokers!Ingredients
        \/ /\ spc[a] = "push2" /\ l = "109" /\ has' = {} /\ ssem' = [ssem EXCEPT ![Smokers!Own(SServed(a))] = @ + 1]
        \/ /\ spc[a] = "109" /\ l = "done" /\ has' = has /\ ssem' = [ssem EXCEPT !["lock"] = @ + 1]
    <3>1. spc[a] = "push1" => has = {}
      BY <1>0, <2>0, Zenon DEF STable
    <3>2. spc[a] = "push2" => has = {Smokers!Pushes[Smokers!Type(a)][1]}
      BY <1>0, Zenon DEF STable
    <3> QED BY <1>0, <1>1, <1>s, <2>1, <2>0, <3>1, <3>2, SFirst, SSecond DEF Smokers!agent, STypes
  <2>5. SServed(a) \in Smokers!Smokers /\ Smokers!Own(SServed(a)) \in Smokers!Ingredients
    BY SSuppliers, Zenon
  <2>6. STypes'
    <3>1. ssem' \in [Smokers!Semaphores -> Nat]
      BY <1>0, <1>e, <1>s, <2>4, <2>5 DEF STypes, Smokers!Semaphores, Smokers!Ingredients
    <3>2. has' \subseteq Smokers!Ingredients
      BY <1>0, <2>4, Zenon DEF STypes
    <3> QED BY <1>0, <2>0, <2>1, <2>3, <3>1, <3>2 DEF STypes
  <2>7. STurn' /\ SLock'
    <3>1. CASE spc[a] = "94"
      <4>1. ssem' = [ssem EXCEPT !["agent"] = @ - 1] /\ l = "95"
        BY <2>4, <3>1, Zenon
      <4>2. /\ ssem'["agent"] = ag - 1 /\ ssem'["tobacco"] = to /\ ssem'["paper"] = pa /\ ssem'["match"] = ma
            /\ ssem'["lock"] = lo
        BY <1>0, <1>s, <4>1, Zenon DEF STypes, Smokers!Semaphores, Smokers!Ingredients
      <4> QED BY <1>e, <2>2, <3>1, <4>1, <4>2 DEF STurn, SLock, One
    <3>2. CASE spc[a] \in {"95", "109"}
      <4>1. /\ ssem'["agent"] = ag /\ ssem'["tobacco"] = to /\ ssem'["paper"] = pa /\ ssem'["match"] = ma
            /\ ssem'["lock"] = lo + One(l = "done") - One(l = "push1")
        BY <1>0, <1>s, <2>4, <3>2 DEF STypes, Smokers!Semaphores, Smokers!Ingredients, One
      <4> QED BY <1>e, <2>2, <2>4, <3>2, <4>1 DEF STurn, SLock, One
    <3>3. CASE spc[a] = "push1"
      <4>1. l = "push2" /\ ssem' = ssem
        BY <2>4, <3>3, Zenon
      <4> QED BY <1>s, <1>e, <2>2, <3>3, <4>1 DEF STurn, SLock, One
    <3>4. CASE spc[a] = "push2"
      <4>1. ssem' = [ssem EXCEPT ![Smokers!Own(SServed(a))] = @ + 1] /\ l = "109"
        BY <2>4, <3>4, Zenon
      <4>2. /\ \/ ssem'["tobacco"] = to + 1 /\ ssem'["paper"] = pa /\ ssem'["match"] = ma
               \/ ssem'["tobacco"] = to /\ ssem'["paper"] = pa + 1 /\ ssem'["match"] = ma
               \/ ssem'["tobacco"] = to /\ ssem'["paper"] = pa /\ ssem'["match"] = ma + 1
            /\ ssem'["agent"] = ag /\ ssem'["lock"] = lo
        BY <1>0, <1>s, <2>5, <4>1, Zenon DEF STypes, Smokers!Semaphores, Smokers!Ingredients
      <4> QED BY <1>e, <2>2, <3>4, <4>1, <4>2 DEF STurn, SLock, One
    <3> QED BY <2>4, <3>1, <3>2, <3>3, <3>4, Zenon
  <2>8. STable'
    BY <1>0, <2>0, <2>3, <2>4, Zenon DEF STable, Smokers!Threads
  <2>9. SRight'
    <3> SUFFICES ASSUME NEW s \in Smokers!Smokers, spc'[s] \in {"smoking", "done"} \/ ssem'[Smokers!Own(s)] > 0
                 PROVE  spc'[Smokers!Supplier(s)] \in {"109", "done"}
      BY Zenon DEF SRight
    <3>1. Smokers!Own(s) \in Smokers!Ingredients /\ Smokers!Supplier(s) \in Smokers!Agents /\ Smokers!Supplier(s) \in Smokers!Threads
      BY SSuppliers, Zenon DEF Smokers!Threads
    <3>2. CASE Smokers!Supplier(s) = a /\ spc[a] = "push2"
      BY <2>3, <2>4, <3>2, Zenon
    <3>3. CASE ~(Smokers!Supplier(s) = a /\ spc[a] = "push2")
      <4>1. ssem'[Smokers!Own(s)] = ssem[Smokers!Own(s)]
        BY <1>0, <2>4, <2>5, <3>1, <3>3, SSuppliers, Zenon DEF STypes, Smokers!Semaphores, Smokers!Ingredients
      <4>2. spc[Smokers!Supplier(s)] \in {"109", "done"}
        BY <1>0, <2>3, <4>1, Zenon DEF SRight
      <4> QED BY <2>3, <2>4, <3>1, <4>2, Zenon
    <3> QED BY <3>2, <3>3, Zenon
  <2> QED BY <2>6, <2>7, <2>8, <2>9, Zenon DEF SInv
<1>2. ASSUME NEW s \in Smokers!Smokers, Smokers!smoker(s) PROVE SInv'
  <2>0. s \in Smokers!Threads /\ s \notin Smokers!Agents /\ Smokers!Own(s) \in Smokers!Ingredients
    BY SSuppliers, Zenon DEF Smokers!Threads, Smokers!Agents, Smokers!Smokers
  <2>1. PICK l \in {"smoking", "done"} :
          /\ spc' = [spc EXCEPT ![s] = l] /\ has' = has
          /\ \/ spc[s] = "wait" /\ l = "smoking" /\ ssem[Smokers!Own(s)] > 0 /\ ssem' = [ssem EXCEPT ![Smokers!Own(s)] = @ - 1]
             \/ spc[s] = "smoking" /\ l = "done" /\ ssem' = [ssem EXCEPT !["agent"] = @ + 1]
    BY <1>2 DEF Smokers!smoker
  <2>2. /\ SCnt(A)' = n + One(l \in A) - One(spc[s] \in A)
        /\ SCnt(B)' = m + One(l \in B) - One(spc[s] \in B)
    <3>1. Moves(Smokers!Threads, spc, spc', s) /\ spc'[s] = l
      BY <1>0, <2>0, <2>1, Zenon DEF Moves, STypes
    <3> QED BY <1>c, <3>1, SMove, Zenon
  <2>3. spc'[s] = l /\ (\A u \in Smokers!Threads : u # s => spc'[u] = spc[u]) /\ \A a \in Smokers!Agents : spc'[a] = spc[a]
    BY <1>0, <2>0, <2>1, Zenon DEF STypes, Smokers!Threads
  <2>6. STypes'
    <3>1. ssem' \in [Smokers!Semaphores -> Nat]
      BY <1>0, <1>s, <2>1, <2>0 DEF STypes, Smokers!Semaphores, Smokers!Ingredients
    <3> QED BY <1>0, <2>0, <2>1, <2>3, <3>1 DEF STypes
  <2>7. STurn' /\ SLock'
    <3>1. /\ ssem'["agent"] + ssem'["tobacco"] + ssem'["paper"] + ssem'["match"] =
               ag + to + pa + ma + One(spc[s] = "smoking") - One(spc[s] = "wait")
          /\ ssem'["agent"] \in Nat /\ ssem'["tobacco"] \in Nat /\ ssem'["paper"] \in Nat
          /\ ssem'["match"] \in Nat /\ ssem'["lock"] = lo
      BY <1>0, <1>s, <1>e, <2>1, <2>0 DEF STypes, One, Smokers!Semaphores, Smokers!Ingredients
    <3>2. ssem'["agent"] + SCnt(A)' + ssem'["tobacco"] + ssem'["paper"] + ssem'["match"] = 1
      BY <1>e, <2>2, <2>1, <3>1 DEF One
    <3>3. ssem'["lock"] + SCnt(B)' = 1
      BY <1>e, <2>2, <2>1, <3>1 DEF One
    <3> QED BY <3>2, <3>3, Zenon DEF STurn, SLock
  <2>8. STable'
    BY <1>0, <2>1, <2>3, Zenon DEF STable
  <2>9. SRight'
    <3> SUFFICES ASSUME NEW r \in Smokers!Smokers, spc'[r] \in {"smoking", "done"} \/ ssem'[Smokers!Own(r)] > 0
                 PROVE  spc'[Smokers!Supplier(r)] \in {"109", "done"}
      BY Zenon DEF SRight
    <3>1. Smokers!Own(r) \in Smokers!Ingredients /\ Smokers!Supplier(r) \in Smokers!Agents /\ r \in Smokers!Threads /\ ssem[Smokers!Own(r)] \in Nat
      BY <1>0, SSuppliers, Zenon DEF Smokers!Threads, STypes, Smokers!Semaphores
    <3>2. spc[r] \in {"smoking", "done"} \/ ssem[Smokers!Own(r)] > 0
      BY <1>0, <2>0, <2>1, <2>3, <3>1, Zenon DEF STypes, Smokers!Semaphores, Smokers!Ingredients
    <3> QED BY <1>0, <2>3, <3>1, <3>2, Zenon DEF SRight
  <2> QED BY <2>6, <2>7, <2>8, <2>9, Zenon DEF SInv
<1>3. CASE UNCHANGED svars
  BY <1>3, Zenon DEF svars, SInv, STypes, STurn, SLock, STable, SRight, SCnt
<1> QED BY <1>1, <1>2, <1>3, Zenon DEF Smokers!Next

\* What the invariant says.
LEMMA SShows == SInv => Smokers!RightSmoker /\ Smokers!TableCleared /\ Smokers!TypeOK
<1> SUFFICES ASSUME SInv PROVE Smokers!RightSmoker /\ Smokers!TableCleared /\ Smokers!TypeOK
  OBVIOUS
<1>1. Smokers!RightSmoker /\ Smokers!TableCleared
  BY DEF SInv, SRight, STable, Smokers!RightSmoker, Smokers!TableCleared
<1>2. \A x \in Smokers!Semaphores : ssem[x] \in 0..1
  <2>1. PICK ag \in Nat, to \in Nat, pa \in Nat, ma \in Nat, lo \in Nat :
          /\ ag = ssem["agent"] /\ to = ssem["tobacco"] /\ pa = ssem["paper"] /\ ma = ssem["match"] /\ lo = ssem["lock"]
    BY DEF SInv, STypes, Smokers!Semaphores, Smokers!Ingredients
  <2>2. PICK n \in Nat, m \in Nat : n = SCnt({"95", "push1", "push2", "smoking"}) /\ m = SCnt({"push1", "push2", "109"})
    BY SCounting
  <2>3. ag + n + to + pa + ma = 1 /\ lo + m = 1
    BY <2>1, <2>2, Zenon DEF SInv, STurn, SLock
  <2>4. ag \in 0..1 /\ to \in 0..1 /\ pa \in 0..1 /\ ma \in 0..1 /\ lo \in 0..1
    BY <2>3
  <2> QED BY <2>1, <2>4, Zenon DEF Smokers!Semaphores, Smokers!Ingredients
<1>3. Smokers!TypeOK
  BY <1>2, Zenon DEF SInv, STypes, Smokers!TypeOK
<1> QED BY <1>1, <1>3, Zenon
-----------------------------------------------------------------------------
(* barbershop.c *)

CONSTANTS BarberCustomers, BarberChairs

ASSUME BarberAssumption ==
  /\ IsFiniteSet(BarberCustomers) /\ BarberChairs \in Nat
  /\ "barber" \notin BarberCustomers /\ "main" \notin BarberCustomers

VARIABLES bpc, bsem, bcustomers

bvars == <<bpc, bsem, bcustomers>>

Barbershop == INSTANCE Barbershop WITH
  Customers <- BarberCustomers, chairs <- BarberChairs,
  pc <- bpc, sem <- bsem, customers <- bcustomers

CLabels == {"71", "72", "73", "79", "81", "82", "84", "86", "87", "89", "90", "91", "done"}
CInside == {"72", "73", "79", "90", "91"}
CInShop == {"79", "81", "82", "84", "86", "87", "89", "90"}

CTypes ==
  /\ bpc \in [BarberCustomers \cup {"barber", "main"} -> CLabels \cup {"61", "62", "63", "64", "131", "132"}]
  /\ bsem \in [Barbershop!Semaphores -> Nat] /\ bcustomers \in 0..BarberChairs
  /\ \A c \in BarberCustomers : bpc[c] \in CLabels
  /\ bpc["barber"] \in {"61", "62", "63", "64"} /\ bpc["main"] \in {"131", "132"}

CCnt(L) == Count(BarberCustomers, bpc, L)

\* mutex has one holder, and customers counts those in the shop.
CMutex == bsem["mutex"] + CCnt(CInside) = 1 /\ bcustomers = CCnt(CInShop)

\* The semaphores name nobody, but their tokens and the barber's place add up.
\* A customer at line 82 has announced itself, and the barber is told or has
\* woken somebody for it;
CArrived == bsem["customer_arrives"] + One(bpc["barber"] = "62") + bsem["barber_wakes"] = CCnt({"82"})

\* a barber that waits at line 63 has woken one customer, which has not left;
CSeated == bsem["barber_wakes"] + CCnt({"84", "86"}) + bsem["customer_leaves"] = One(bpc["barber"] = "63")

\* a customer at line 87 has left, and the barber has to be told, or has to
\* answer, or has answered.
CLeft == bsem["customer_leaves"] + One(bpc["barber"] = "64") + bsem["barber_sleeps"] = CCnt({"87"})

CEnd == bpc["main"] = "132" => \A c \in BarberCustomers : bpc[c] = "done"

CInv == CTypes /\ CMutex /\ CArrived /\ CSeated /\ CLeft /\ CEnd

\* The counts of the customers.
LEMMA CCounting ==
  \A L : CCnt(L) \in Nat /\ (CCnt(L) = 0 <=> \A c \in BarberCustomers : bpc[c] \notin L)
<1>1. IsFiniteSet(BarberCustomers)
  BY BarberAssumption, Zenon
<1> QED BY <1>1, CountFacts, Zenon DEF CCnt

\* barbershop.c starts in a state of the invariant.
LEMMA CInit == Barbershop!Init => CInv
<1> SUFFICES ASSUME Barbershop!Init PROVE CInv
  OBVIOUS
<1>1. /\ bpc["barber"] = "61" /\ bpc["main"] = "131" /\ \A c \in BarberCustomers : bpc[c] = "71"
      /\ bpc \in [BarberCustomers \cup {"barber", "main"} -> {"61", "71", "131"}]
  BY BarberAssumption, Zenon DEF Barbershop!Init
<1>2. /\ bsem["mutex"] = 1 /\ \A x \in Barbershop!Semaphores \ {"mutex"} : bsem[x] = 0
      /\ bsem \in [Barbershop!Semaphores -> Nat]
  BY Zenon DEF Barbershop!Init, Barbershop!Semaphores
<1>3. CCnt(CInside) = 0 /\ CCnt(CInShop) = 0 /\ CCnt({"82"}) = 0 /\ CCnt({"84", "86"}) = 0 /\ CCnt({"87"}) = 0
  BY <1>1, CCounting, Zenon DEF CInside, CInShop
<1>4. CTypes
  BY <1>1, <1>2, BarberAssumption DEF Barbershop!Init, CTypes, CLabels
<1>5. CMutex /\ CArrived /\ CSeated /\ CLeft /\ CEnd
  BY <1>1, <1>2, <1>3 DEF Barbershop!Init, CMutex, CArrived, CSeated, CLeft, CEnd, One, Barbershop!Semaphores
<1> QED BY <1>4, <1>5, Zenon DEF CInv

\* A step of the barber keeps it.
LEMMA CBarber == ASSUME CInv, Barbershop!barber PROVE CInv'
<1> USE DEF Barbershop!WaitStep, Barbershop!PostStep, Barbershop!LocalStep, Barbershop!Goto, Barbershop!Sem_wait, Barbershop!Sem_post
<1>0. CTypes /\ CMutex /\ CArrived /\ CSeated /\ CLeft /\ CEnd
  BY Zenon DEF CInv
<1>1. (\A c \in BarberCustomers : bpc'[c] = bpc[c]) /\ bpc'["main"] = bpc["main"] /\ bcustomers' = bcustomers
  BY <1>0, BarberAssumption, Zenon DEF Barbershop!barber, CTypes
<1>2. \A L : CCnt(L)' = CCnt(L) /\ CCnt(L) \in Nat
  BY <1>1, CCounting, Zenon DEF CCnt, Count
<1>3 /\ bsem["mutex"] \in Nat /\ bsem["customer_arrives"] \in Nat /\ bsem["barber_wakes"] \in Nat
      /\ bsem["customer_leaves"] \in Nat /\ bsem["barber_sleeps"] \in Nat
  BY <1>0, Zenon DEF CTypes, Barbershop!Semaphores
<1>4. \/ /\ bpc["barber"] = "61" /\ bpc'["barber"] = "62" /\ bsem["customer_arrives"] > 0
         /\ bsem' = [bsem EXCEPT !["customer_arrives"] = @ - 1]
      \/ /\ bpc["barber"] = "62" /\ bpc'["barber"] = "63"
         /\ bsem' = [bsem EXCEPT !["barber_wakes"] = @ + 1]
      \/ /\ bpc["barber"] = "63" /\ bpc'["barber"] = "64" /\ bsem["customer_leaves"] > 0
         /\ bsem' = [bsem EXCEPT !["customer_leaves"] = @ - 1]
      \/ /\ bpc["barber"] = "64" /\ bpc'["barber"] = "61"
         /\ bsem' = [bsem EXCEPT !["barber_sleeps"] = @ + 1]
  BY <1>0, Zenon DEF Barbershop!barber, CTypes
<1>5. CTypes'
  BY <1>0, <1>1, <1>3, <1>4, BarberAssumption DEF CTypes, Barbershop!barber, Barbershop!Semaphores
<1>6. CMutex' /\ CEnd'
  BY <1>0, <1>1, <1>2, <1>4, Zenon DEF CMutex, CEnd, CTypes, Barbershop!Semaphores
<1>7. CArrived' /\ CSeated' /\ CLeft'
  <2>1. PICK a \in Nat, b \in Nat, c \in Nat : a = CCnt({"82"}) /\ b = CCnt({"84", "86"}) /\ c = CCnt({"87"})
    BY <1>2, Zenon
  <2>2. a = CCnt({"82"})' /\ b = CCnt({"84", "86"})' /\ c = CCnt({"87"})'
    BY <1>2, <2>1, Zenon
  <2>3. /\ bsem["customer_arrives"] + One(bpc["barber"] = "62") + bsem["barber_wakes"] = a
        /\ bsem["barber_wakes"] + b + bsem["customer_leaves"] = One(bpc["barber"] = "63")
        /\ bsem["customer_leaves"] + One(bpc["barber"] = "64") + bsem["barber_sleeps"] = c
    BY <1>0, <2>1, Zenon DEF CArrived, CSeated, CLeft
  <2>4. /\ bsem'["customer_arrives"] + One(bpc'["barber"] = "62") + bsem'["barber_wakes"] = a
        /\ bsem'["barber_wakes"] + b + bsem'["customer_leaves"] = One(bpc'["barber"] = "63")
        /\ bsem'["customer_leaves"] + One(bpc'["barber"] = "64") + bsem'["barber_sleeps"] = c
    <3>1. CASE bpc["barber"] = "61"
      BY <1>0, <1>3, <1>4, <2>3, <3>1 DEF One, CTypes, Barbershop!Semaphores
    <3>2. CASE bpc["barber"] = "62"
      BY <1>0, <1>3, <1>4, <2>3, <3>2 DEF One, CTypes, Barbershop!Semaphores
    <3>3. CASE bpc["barber"] = "63"
      BY <1>0, <1>3, <1>4, <2>3, <3>3 DEF One, CTypes, Barbershop!Semaphores
    <3>4. CASE bpc["barber"] = "64"
      <4>1. PICK p \in Nat, q \in Nat, r \in Nat, s \in Nat :
              /\ p = bsem["customer_arrives"] /\ q = bsem["barber_wakes"]
              /\ r = bsem["customer_leaves"] /\ s = bsem["barber_sleeps"]
        BY <1>3, Zenon
      <4>2. p + 0 + q = a /\ q + b + r = 0 /\ r + 1 + s = c
        BY <2>3, <3>4, <4>1, Zenon DEF One
      <4>3. /\ bsem'["customer_arrives"] = p /\ bsem'["barber_wakes"] = q /\ bpc'["barber"] = "61"
            /\ bsem'["customer_leaves"] = r /\ bsem'["barber_sleeps"] = s + 1
        BY <1>0, <1>4, <3>4, <4>1, Zenon DEF CTypes, Barbershop!Semaphores
      <4> QED BY <4>2, <4>3 DEF One
    <3> QED BY <1>4, <3>1, <3>2, <3>3, <3>4, Zenon
  <2> QED BY <2>2, <2>4, Zenon DEF CArrived, CSeated, CLeft
<1> QED BY <1>5, <1>6, <1>7, Zenon DEF CInv

\* A step of a customer keeps it.
LEMMA CCustomer == ASSUME CInv, NEW t \in BarberCustomers, Barbershop!customer(t) PROVE CInv'
<1> USE DEF Barbershop!WaitStep, Barbershop!PostStep, Barbershop!LocalStep, Barbershop!Goto, Barbershop!Sem_wait, Barbershop!Sem_post
<1>0. CTypes /\ CMutex /\ CArrived /\ CSeated /\ CLeft /\ CEnd /\ t # "barber" /\ t # "main"
  BY BarberAssumption, Zenon DEF CInv
<1>1. PICK l \in CLabels :
        /\ bpc' = [bpc EXCEPT ![t] = l]
        /\ \/ bpc[t] = "71" /\ l = "72" /\ bsem["mutex"] > 0 /\ bsem' = [bsem EXCEPT !["mutex"] = @ - 1] /\ bcustomers' = bcustomers
           \/ bpc[t] = "72" /\ l = "73" /\ bsem' = bsem /\ bcustomers' = bcustomers
           \/ bpc[t] = "73" /\ l = "done" /\ bsem' = [bsem EXCEPT !["mutex"] = @ + 1] /\ bcustomers' = bcustomers
           \/ bpc[t] = "72" /\ l = "79" /\ bcustomers # BarberChairs /\ bsem' = bsem /\ bcustomers' = bcustomers + 1
           \/ bpc[t] = "79" /\ l = "81" /\ bsem' = [bsem EXCEPT !["mutex"] = @ + 1] /\ bcustomers' = bcustomers
           \/ bpc[t] = "81" /\ l = "82" /\ bsem' = [bsem EXCEPT !["customer_arrives"] = @ + 1] /\ bcustomers' = bcustomers
           \/ /\ bpc[t] = "82" /\ l = "84" /\ bsem["barber_wakes"] > 0
              /\ bsem' = [bsem EXCEPT !["barber_wakes"] = @ - 1] /\ bcustomers' = bcustomers
           \/ bpc[t] = "84" /\ l = "86" /\ bsem' = bsem /\ bcustomers' = bcustomers
           \/ bpc[t] = "86" /\ l = "87" /\ bsem' = [bsem EXCEPT !["customer_leaves"] = @ + 1] /\ bcustomers' = bcustomers
           \/ /\ bpc[t] = "87" /\ l = "89" /\ bsem["barber_sleeps"] > 0
              /\ bsem' = [bsem EXCEPT !["barber_sleeps"] = @ - 1] /\ bcustomers' = bcustomers
           \/ bpc[t] = "89" /\ l = "90" /\ bsem["mutex"] > 0 /\ bsem' = [bsem EXCEPT !["mutex"] = @ - 1] /\ bcustomers' = bcustomers
           \/ bpc[t] = "90" /\ l = "91" /\ bsem' = bsem /\ bcustomers' = bcustomers - 1
           \/ bpc[t] = "91" /\ l = "done" /\ bsem' = [bsem EXCEPT !["mutex"] = @ + 1] /\ bcustomers' = bcustomers
  BY Zenon DEF Barbershop!customer, Barbershop!Enter, Barbershop!Haircut, Barbershop!Exit, CLabels
<1>2. /\ bpc'[t] = l /\ bpc'["barber"] = bpc["barber"] /\ bpc'["main"] = bpc["main"]
      /\ \A u \in BarberCustomers : u # t => bpc'[u] = bpc[u]
  BY <1>0, <1>1, Zenon DEF CTypes
<1>3. \A L : CCnt(L)' = CCnt(L) + One(l \in L) - One(bpc[t] \in L)
  <2>1. Moves(BarberCustomers, bpc, bpc', t) /\ IsFiniteSet(BarberCustomers)
    BY <1>2, BarberAssumption, Zenon DEF Moves
  <2>2. \A L : Count(BarberCustomers, bpc', L) = Count(BarberCustomers, bpc, L) + One(bpc'[t] \in L) - One(bpc[t] \in L)
    BY <2>1, CountMove
  <2> QED BY <1>2, <2>2, Zenon DEF CCnt
<1>4 /\ bsem["mutex"] \in Nat /\ bsem["customer_arrives"] \in Nat /\ bsem["barber_wakes"] \in Nat
      /\ bsem["customer_leaves"] \in Nat /\ bsem["barber_sleeps"] \in Nat
  BY <1>0, Zenon DEF CTypes, Barbershop!Semaphores
<1>5. CMutex'
  <2>1. PICK a \in Nat, b \in Nat : a = CCnt(CInside) /\ b = CCnt(CInShop)
    BY CCounting, Zenon
  <2>2. /\ CCnt(CInside)' = a + One(l \in CInside) - One(bpc[t] \in CInside)
        /\ CCnt(CInShop)' = b + One(l \in CInShop) - One(bpc[t] \in CInShop)
    BY <1>3, <2>1, Zenon
  <2> QED BY <1>0, <1>1, <1>4, <2>1, <2>2 DEF CMutex, CTypes, CInside, CInShop, One, Barbershop!Semaphores
<1>6. CArrived' /\ CSeated' /\ CLeft'
  <2>1. PICK a \in Nat, b \in Nat, c \in Nat : a = CCnt({"82"}) /\ b = CCnt({"84", "86"}) /\ c = CCnt({"87"})
    BY CCounting, Zenon
  <2>2. /\ CCnt({"82"})' = a + One(l \in {"82"}) - One(bpc[t] \in {"82"})
        /\ CCnt({"84", "86"})' = b + One(l \in {"84", "86"}) - One(bpc[t] \in {"84", "86"})
        /\ CCnt({"87"})' = c + One(l \in {"87"}) - One(bpc[t] \in {"87"})
    BY <1>3, <2>1, Zenon
  <2>3. /\ bsem["customer_arrives"] + One(bpc["barber"] = "62") + bsem["barber_wakes"] = a
        /\ bsem["barber_wakes"] + b + bsem["customer_leaves"] = One(bpc["barber"] = "63")
        /\ bsem["customer_leaves"] + One(bpc["barber"] = "64") + bsem["barber_sleeps"] = c
    BY <1>0, <2>1, Zenon DEF CArrived, CSeated, CLeft
  <2>4. PICK h \in Nat, j \in Nat, k \in Nat :
          h = One(bpc["barber"] = "62") /\ j = One(bpc["barber"] = "63") /\ k = One(bpc["barber"] = "64")
    BY DEF One
  <2>8. /\ bsem["customer_arrives"] + h + bsem["barber_wakes"] = a
        /\ bsem["barber_wakes"] + b + bsem["customer_leaves"] = j
        /\ bsem["customer_leaves"] + k + bsem["barber_sleeps"] = c
    BY <2>3, <2>4, Zenon
  <2>9. PICK p \in Nat, q \in Nat, r \in Nat, s \in Nat :
          /\ p = bsem["customer_arrives"] /\ q = bsem["barber_wakes"]
          /\ r = bsem["customer_leaves"] /\ s = bsem["barber_sleeps"]
    BY <1>4, Zenon
  <2>10. p + h + q = a /\ q + b + r = j /\ r + k + s = c
    BY <2>8, <2>9, Zenon
  <2>11. /\ bsem'["customer_arrives"] = p + One(l = "82")
         /\ bsem'["barber_wakes"] = q - One(bpc[t] = "82")
         /\ bsem'["customer_leaves"] = r + One(l = "87")
         /\ bsem'["barber_sleeps"] = s - One(bpc[t] = "87")
    BY <1>0, <1>1, <2>9 DEF One, CTypes, Barbershop!Semaphores
  <2>5. bsem'["customer_arrives"] + h + bsem'["barber_wakes"] = CCnt({"82"})'
    BY <2>2, <2>10, <2>11 DEF One
  <2>6. bsem'["barber_wakes"] + CCnt({"84", "86"})' + bsem'["customer_leaves"] = j
    BY <1>1, <2>2, <2>10, <2>11 DEF One
  <2>7. bsem'["customer_leaves"] + k + bsem'["barber_sleeps"] = CCnt({"87"})'
    BY <2>2, <2>10, <2>11 DEF One
  <2> QED BY <1>2, <2>4, <2>5, <2>6, <2>7, Zenon DEF CArrived, CSeated, CLeft
<1>7. CTypes'
  <2>1. bcustomers' \in 0..BarberChairs
    <3>1. bpc[t] = "90" => bcustomers # 0
      BY <1>0, CCounting DEF CMutex, CInShop
    <3> QED BY <1>0, <1>1, <3>1, BarberAssumption DEF CTypes
  <2>2. bsem' \in [Barbershop!Semaphores -> Nat]
    BY <1>0, <1>1, <1>4 DEF CTypes, Barbershop!Semaphores
  <2> QED BY <1>0, <1>1, <1>2, <2>1, <2>2, Zenon DEF CTypes
<1>8. CEnd'
  BY <1>0, <1>1, <1>2, Zenon DEF CEnd
<1> QED BY <1>5, <1>6, <1>7, <1>8, Zenon DEF CInv

\* A step of barbershop.c keeps the invariant.
LEMMA CStep == CInv /\ [Barbershop!Next]_bvars => CInv'
<1> SUFFICES ASSUME CInv, [Barbershop!Next]_bvars PROVE CInv'
  OBVIOUS
<1>1. CASE Barbershop!main
  <2>1. /\ \A c \in BarberCustomers : bpc[c] = "done" /\ bpc'[c] = "done"
        /\ bpc'["main"] = "132" /\ bpc'["barber"] = bpc["barber"] /\ bsem' = bsem /\ bcustomers' = bcustomers
    BY <1>1, BarberAssumption, Zenon DEF Barbershop!main, Barbershop!LocalStep, Barbershop!Goto, CInv, CTypes
  <2>2. \A L : CCnt(L)' = CCnt(L)
    BY <2>1, Zenon DEF CCnt, Count
  <2>3. CTypes'
    BY <1>1, <2>1, Zenon DEF Barbershop!main, Barbershop!LocalStep, Barbershop!Goto, CInv, CTypes, CLabels
  <2> QED BY <2>1, <2>2, <2>3, Zenon DEF CInv, CMutex, CArrived, CSeated, CLeft, CEnd
<1>2. CASE UNCHANGED bvars
  BY <1>2, Zenon DEF bvars, CInv, CTypes, CMutex, CArrived, CSeated, CLeft, CEnd, CCnt
<1> QED BY <1>1, <1>2, CBarber, CCustomer, Zenon DEF Barbershop!Next

\* What the invariant says.
LEMMA CShows == CInv => Barbershop!OneInChair /\ Barbershop!BarberIdleAtEnd /\ Barbershop!TypeOK
<1> SUFFICES ASSUME CInv PROVE Barbershop!OneInChair /\ Barbershop!BarberIdleAtEnd /\ Barbershop!TypeOK
  OBVIOUS
<1>0. CTypes /\ CMutex /\ CArrived /\ CSeated /\ CLeft /\ CEnd
  BY Zenon DEF CInv
<1>1 /\ bsem["mutex"] \in Nat /\ bsem["customer_arrives"] \in Nat /\ bsem["barber_wakes"] \in Nat
      /\ bsem["customer_leaves"] \in Nat /\ bsem["barber_sleeps"] \in Nat
  BY <1>0, Zenon DEF CTypes, Barbershop!Semaphores
<1>2. Barbershop!TypeOK
  BY <1>0, Zenon DEF CTypes, CLabels, Barbershop!TypeOK
<1>3. Barbershop!BarberIdleAtEnd
  <2> SUFFICES ASSUME bpc["main"] = "132"
               PROVE  /\ bpc["barber"] = "61" /\ bcustomers = 0
                      /\ bsem = [x \in Barbershop!Semaphores |-> IF x = "mutex" THEN 1 ELSE 0]
    BY DEF Barbershop!BarberIdleAtEnd
  <2>1. \A c \in BarberCustomers : bpc[c] = "done"
    BY <1>0, Zenon DEF CEnd
  <2>2. CCnt(CInside) = 0 /\ CCnt(CInShop) = 0 /\ CCnt({"82"}) = 0 /\ CCnt({"84", "86"}) = 0 /\ CCnt({"87"}) = 0
    BY <2>1, CCounting, Zenon DEF CInside, CInShop
  <2>3. /\ bpc["barber"] = "61" /\ bcustomers = 0 /\ bsem["mutex"] = 1 /\ bsem["customer_arrives"] = 0
        /\ bsem["barber_wakes"] = 0 /\ bsem["customer_leaves"] = 0 /\ bsem["barber_sleeps"] = 0
    <3>1. /\ bcustomers = 0 /\ bsem["mutex"] + 0 = 1
          /\ bsem["customer_arrives"] + One(bpc["barber"] = "62") + bsem["barber_wakes"] = 0
          /\ bsem["barber_wakes"] + 0 + bsem["customer_leaves"] = One(bpc["barber"] = "63")
          /\ bsem["customer_leaves"] + One(bpc["barber"] = "64") + bsem["barber_sleeps"] = 0
      BY <1>0, <2>2, Zenon DEF CMutex, CArrived, CSeated, CLeft
    <3>2. PICK h \in Nat, j \in Nat, k \in Nat :
            h = One(bpc["barber"] = "62") /\ j = One(bpc["barber"] = "63") /\ k = One(bpc["barber"] = "64")
      BY DEF One
    <3>3. h = 0 /\ j = 0 /\ k = 0 => bpc["barber"] = "61"
      BY <1>0, <3>2 DEF One, CTypes
    <3>4. /\ bsem["customer_arrives"] + h + bsem["barber_wakes"] = 0
          /\ bsem["barber_wakes"] + 0 + bsem["customer_leaves"] = j
          /\ bsem["customer_leaves"] + k + bsem["barber_sleeps"] = 0
      BY <3>1, <3>2, Zenon
    <3>5. PICK p \in Nat, q \in Nat, r \in Nat, s \in Nat :
            /\ p = bsem["customer_arrives"] /\ q = bsem["barber_wakes"]
            /\ r = bsem["customer_leaves"] /\ s = bsem["barber_sleeps"]
      BY <1>1, Zenon
    <3>6. p + h + q = 0 /\ q + 0 + r = j /\ r + k + s = 0
      BY <3>4, <3>5, Zenon
    <3>7. p = 0 /\ q = 0 /\ r = 0 /\ s = 0 /\ h = 0 /\ j = 0 /\ k = 0
      BY <3>6
    <3> QED BY <1>1, <3>1, <3>3, <3>5, <3>7
  <2> QED BY <1>0, <2>3, Zenon DEF CTypes, Barbershop!Semaphores
<1>4. Barbershop!OneInChair
  <2> SUFFICES ASSUME NEW c \in BarberCustomers, NEW d \in BarberCustomers,
                      bpc[c] \in {"84", "86"}, bpc[d] \in {"84", "86"}, c # d
               PROVE  FALSE
    BY Zenon DEF Barbershop!OneInChair
  <2>1. CCnt({"84", "86"}) <= 1 /\ CCnt({"84", "86"}) \in Nat
    BY <1>0, <1>1, CCounting DEF CSeated, One, Barbershop!Semaphores
  <2> QED BY <2>1, CountTwo, BarberAssumption, Zenon DEF CCnt
<1> QED BY <1>2, <1>3, <1>4, Zenon
-----------------------------------------------------------------------------
(* rendezvous.c *)

VARIABLES rpc, rsem, rshm, rboot, rkills, rstale

rvars == <<rpc, rsem, rshm, rboot, rkills, rstale>>

Rendezvous == INSTANCE Rendezvous WITH
  pc <- rpc, sem <- rsem, shm <- rshm, boot <- rboot, kills <- rkills, stale <- rstale

RLabels == {"none", "13", "15", "16", "17", "22", "24", "25", "26", "done"}
RSems == {"aArrived", "bArrived"}
RBoots == [at : {"open", "reopen", "create", "join", "unlink", "end"}, k : 1..2]

RTypes ==
  /\ rpc \in [Rendezvous!Children -> RLabels] /\ rsem \in [RSems -> Nat] /\ rboot \in RBoots
  /\ rshm \subseteq RSems /\ rstale \in BOOLEAN
  /\ rpc["child_1"] \in {"none", "13", "15", "16", "17", "done"}
  /\ rpc["child_2"] \in {"none", "22", "24", "25", "26", "done"}

\* Until main has created the children nothing has happened.
RBoot ==
  rboot.at \in {"open", "reopen", "create"} =>
    /\ \A c \in Rendezvous!Children : rpc[c] = "none"
    /\ ~rstale => rsem["aArrived"] = 0 /\ rsem["bArrived"] = 0 /\ rboot.at # "reopen"

\* What a child has posted and the other has not taken is in the semaphore,
RTokens ==
  ~rstale =>
    /\ rsem["aArrived"] + One(rpc["child_2"] \in {"26", "done"}) = One(rpc["child_1"] \in {"16", "17", "done"})
    /\ rsem["bArrived"] + One(rpc["child_1"] \in {"17", "done"}) = One(rpc["child_2"] \in {"25", "26", "done"})

\* with one token more at most when the name was left behind.
RBound ==
  /\ rsem["aArrived"] + One(rpc["child_2"] \in {"26", "done"}) <= 1 + One(rpc["child_1"] \in {"16", "17", "done"})
  /\ rsem["bArrived"] + One(rpc["child_1"] \in {"17", "done"}) <= 1 + One(rpc["child_2"] \in {"25", "26", "done"})

RInv == RTypes /\ RBoot /\ RTokens /\ RBound

\* rendezvous.c starts in a state of the invariant.
LEMMA RInit == Rendezvous!Init => RInv
<1> SUFFICES ASSUME Rendezvous!Init PROVE RInv
  OBVIOUS
<1>1. {Rendezvous!Names[k] : k \in 1..Len(Rendezvous!Names)} = RSems
  <2>1. Len(Rendezvous!Names) = 2 /\ Rendezvous!Names[1] = "aArrived" /\ Rendezvous!Names[2] = "bArrived"
    BY DEF Rendezvous!Names
  <2>2. 1..2 = {1, 2}
    OBVIOUS
  <2> QED BY <2>1, <2>2, Zenon DEF RSems
<1>2. /\ rpc = [c \in {"child_1", "child_2"} |-> "none"] /\ rsem = [x \in RSems |-> 0]
      /\ rboot = [at |-> "open", k |-> 1] /\ rshm = {} /\ rstale = FALSE
  BY <1>1, Zenon DEF Rendezvous!Init, Rendezvous!SemInit, Rendezvous!MainAt, Rendezvous!NoChildren, Rendezvous!Children
<1>3. rboot \in RBoots
  BY <1>2 DEF RBoots
<1>4. RTypes
  BY <1>2, <1>3, ZenonT(30) DEF RTypes, RLabels, RSems, Rendezvous!Children
<1>5. RBoot /\ RTokens /\ RBound
  BY <1>2 DEF RBoot, RTokens, RBound, RSems, One, Rendezvous!Children
<1> QED BY <1>4, <1>5, Zenon DEF RInv

\* A step of a child keeps it.
LEMMA RChild == ASSUME RInv, Rendezvous!Child PROVE RInv'
<1> USE DEF Rendezvous!WaitStep, Rendezvous!PostStep, Rendezvous!LocalStep, Rendezvous!Goto,
            Rendezvous!Sem_wait, Rendezvous!Sem_post, Rendezvous!Children
<1>1. CASE Rendezvous!child_1
  <2>1. RTypes'
    BY <1>1 DEF RInv, RTypes, RLabels, RSems, Rendezvous!Child, Rendezvous!child_1
  <2>2. RBoot' /\ RTokens' /\ RBound'
    BY <1>1 DEF RInv, RTypes, RBoot, RTokens, RBound, RSems, One, Rendezvous!Child, Rendezvous!child_1
  <2> QED BY <2>1, <2>2, Zenon DEF RInv
<1>2. CASE Rendezvous!child_2
  <2>1. RTypes'
    BY <1>2 DEF RInv, RTypes, RLabels, RSems, Rendezvous!Child, Rendezvous!child_2
  <2>2. RBoot' /\ RTokens' /\ RBound'
    BY <1>2 DEF RInv, RTypes, RBoot, RTokens, RBound, RSems, One, Rendezvous!Child, Rendezvous!child_2
  <2> QED BY <2>1, <2>2 DEF RInv
<1> QED BY <1>1, <1>2, Zenon DEF Rendezvous!Child

\* A step of main keeps it.
LEMMA RMain == ASSUME RInv, Rendezvous!OpenAll \/ Rendezvous!main \/ Rendezvous!UnlinkAll PROVE RInv'
<1>0. /\ rsem \in [RSems -> Nat] /\ rboot \in RBoots /\ rshm \subseteq RSems /\ rstale \in BOOLEAN
      /\ rboot.k \in 1..2 /\ RTypes /\ RBoot /\ RTokens /\ RBound
  BY Zenon DEF RInv, RTypes, RBoots
<1>1. /\ Len(Rendezvous!Names) = 2 /\ Rendezvous!Names[1] = "aArrived" /\ Rendezvous!Names[2] = "bArrived"
      /\ \A k \in 1..2 : Rendezvous!Names[k] \in RSems
  BY DEF Rendezvous!Names, RSems
<1>2. rboot.k = 1 \/ rboot.k = 2
  BY <1>0
<1>3. CASE Rendezvous!OpenAll
  <2>0. Rendezvous!Names[rboot.k] \in RSems /\ \A x \in RSems : Rendezvous!InitialValue[x] = 0
    BY <1>0, <1>1 DEF Rendezvous!InitialValue, RSems
  <2>1. /\ rboot.at \in {"open", "reopen"} /\ UNCHANGED rpc
        /\ \A c \in Rendezvous!Children : rpc[c] = "none"
    BY <1>0, <1>3, Zenon DEF Rendezvous!OpenAll, Rendezvous!Sem_open, RBoot
  <2>2. rboot' \in RBoots /\ rboot'.at \in {"open", "reopen", "create"}
    <3>1. rboot' = Rendezvous!MainPast("open", rboot.k, 2, "create") \/ rboot' = Rendezvous!MainAt("reopen", rboot.k)
      BY <1>1, <1>3, Zenon DEF Rendezvous!OpenAll, Rendezvous!Sem_open
    <3>2. \E k \in 1..2 : rboot' \in {[at |-> "create", k |-> 1], [at |-> "open", k |-> k], [at |-> "reopen", k |-> k]}
      BY <1>2, <3>1 DEF Rendezvous!MainPast, Rendezvous!MainAt
    <3> QED BY <3>2 DEF RBoots
  <2>3. /\ rshm' \subseteq RSems
        /\ \/ rsem' = rsem /\ rboot'.at = "reopen"
           \/ rsem' = [rsem EXCEPT ![Rendezvous!Names[rboot.k]] = 0] /\ rboot.at = "open"
           \/ rsem' = [rsem EXCEPT ![Rendezvous!Names[rboot.k]] = 1] /\ rboot.at = "reopen"
    <3> DEFINE name == Rendezvous!Names[rboot.k]
    <3>1. \/ /\ rboot.at = "open" /\ rshm' = rshm \cup {name}
             /\ rsem' = [rsem EXCEPT ![name] = Rendezvous!InitialValue[name]]
          \/ /\ rboot' = Rendezvous!MainAt("reopen", rboot.k) /\ rshm' = rshm \ {name}
             /\ rsem' = rsem
          \/ /\ rboot.at = "reopen" /\ rshm' = rshm \cup {name}
             /\ rsem' = [rsem EXCEPT ![name] = 1]
      BY <1>3, Zenon DEF Rendezvous!OpenAll, Rendezvous!Sem_open
    <3>2. Rendezvous!MainAt("reopen", rboot.k).at = "reopen"
      BY DEF Rendezvous!MainAt
    <3>3. name \in RSems /\ Rendezvous!InitialValue[name] = 0 /\ rshm \subseteq RSems
      BY <1>0, <2>0, Zenon
    <3> HIDE DEF name
    <3>4. /\ rshm' \subseteq RSems
          /\ \/ rsem' = rsem /\ rboot'.at = "reopen"
             \/ rsem' = [rsem EXCEPT ![name] = 0] /\ rboot.at = "open"
             \/ rsem' = [rsem EXCEPT ![name] = 1] /\ rboot.at = "reopen"
      BY <3>1, <3>2, <3>3, Zenon
    <3> QED BY <3>4, Zenon DEF name
  <2>4. rstale' \in BOOLEAN /\ (~rstale' => ~rstale /\ rboot'.at # "reopen")
    BY <1>0, <1>3, Zenon DEF Rendezvous!OpenAll
  <2>5. /\ rsem' \in [RSems -> Nat] /\ rsem'["aArrived"] <= 1 /\ rsem'["bArrived"] <= 1
        /\ ~rstale' => rsem'["aArrived"] = 0 /\ rsem'["bArrived"] = 0
    <3>1. rsem["aArrived"] <= 1 /\ rsem["bArrived"] <= 1 /\ rsem["aArrived"] \in Nat /\ rsem["bArrived"] \in Nat
      BY <1>0, <2>1 DEF RBound, One, Rendezvous!Children, RSems
    <3>2. ~rstale => rsem["aArrived"] = 0 /\ rsem["bArrived"] = 0 /\ rboot.at # "reopen"
      BY <1>0, <2>1, Zenon DEF RBoot
    <3> QED BY <1>0, <2>0, <2>3, <2>4, <3>1, <3>2 DEF RSems
  <2>6. RTypes' /\ RBoot'
    BY <1>0, <2>1, <2>2, <2>3, <2>4, <2>5, ZenonT(30) DEF RTypes, RBoot
  <2>7. RTokens' /\ RBound'
    BY <2>1, <2>5 DEF RTokens, RBound, One, Rendezvous!Children, RSems
  <2> QED BY <2>6, <2>7, Zenon DEF RInv
<1>4. CASE rboot.at = "create" /\ Rendezvous!main
  <2>1. /\ rpc' = [c \in {"child_1", "child_2"} |-> IF c = "child_1" THEN "13" ELSE "22"]
        /\ rboot' \in RBoots /\ rboot'.at = "join" /\ UNCHANGED <<rsem, rshm, rstale>>
        /\ \A c \in {"child_1", "child_2"} : rpc[c] = "none"
    BY <1>0, <1>4 DEF Rendezvous!main, Rendezvous!MainAt, Rendezvous!Children, RBoots, RBoot
  <2> QED BY <1>0, <2>1, Zenon DEF RInv, RTypes, RBoot, RTokens, RBound, RLabels, One, Rendezvous!Children
<1>5. CASE Rendezvous!UnlinkAll \/ (rboot.at # "create" /\ Rendezvous!main)
  <2>1. /\ rboot' \in RBoots /\ rboot'.at \in {"unlink", "end"} /\ rshm' \subseteq RSems
        /\ UNCHANGED <<rpc, rsem, rstale>>
    BY <1>0, <1>1, <1>2, <1>5
    DEF Rendezvous!UnlinkAll, Rendezvous!Sem_unlink, Rendezvous!main, Rendezvous!MainAt, Rendezvous!MainPast, RBoots
  <2> QED BY <1>0, <2>1, Zenon DEF RInv, RTypes, RBoot, RTokens, RBound
<1> QED BY <1>3, <1>4, <1>5, Zenon

\* A step of rendezvous.c keeps the invariant.
LEMMA RStep == RInv /\ [Rendezvous!Next]_rvars => RInv'
<1> SUFFICES ASSUME RInv, [Rendezvous!Next]_rvars PROVE RInv'
  OBVIOUS
<1>1. CASE Rendezvous!KillAndRerun
  <2>1. /\ rpc' = [c \in {"child_1", "child_2"} |-> "none"] /\ rsem' = [x \in RSems |-> 0]
        /\ rboot' = [at |-> "open", k |-> 1] /\ rshm' \subseteq RSems /\ rstale' = FALSE
    BY <1>1, Zenon DEF Rendezvous!KillAndRerun, Rendezvous!Kill, Rendezvous!MainAt, Rendezvous!NoChildren,
                Rendezvous!Children, RInv, RTypes
  <2>2. rboot' \in RBoots
    BY <2>1 DEF RBoots
  <2>3. RTypes'
    BY <2>1, <2>2, ZenonT(30) DEF RTypes, RLabels, RSems, Rendezvous!Children
  <2>4. RBoot' /\ RTokens' /\ RBound'
    BY <2>1 DEF RBoot, RTokens, RBound, RSems, One, Rendezvous!Children
  <2> QED BY <2>3, <2>4, Zenon DEF RInv
<1>2. CASE UNCHANGED rvars
  BY <1>2, Zenon DEF rvars, RInv, RTypes, RBoot, RTokens, RBound
<1> QED BY <1>1, <1>2, RChild, RMain, Zenon DEF Rendezvous!Next, Rendezvous!Terminated, Rendezvous!vars, rvars

\* What the invariant says.
LEMMA RShows == RInv => Rendezvous!BeforeAfter /\ Rendezvous!TypeOK
<1> SUFFICES ASSUME RInv PROVE Rendezvous!BeforeAfter /\ Rendezvous!TypeOK
  OBVIOUS
<1>1. Rendezvous!BeforeAfter
  BY DEF RInv, RTypes, RTokens, RSems, One, Rendezvous!BeforeAfter
<1>2. rsem \in [RSems -> 0..2]
  BY DEF RInv, RTypes, RBound, RSems, One
<1> QED BY <1>1, <1>2, Zenon DEF RInv, RTypes, RLabels, RSems, Rendezvous!TypeOK
-----------------------------------------------------------------------------
(* fork-join.c *)

VARIABLES run, parent, child, value, link, stale

jvars == <<run, parent, child, value, link, stale>>

ForkJoin == INSTANCE ForkJoin

JTypes ==
  /\ run \in ForkJoin!Runs
  /\ parent \in {"42", "reopen", "45", "58", "61", "63", "exited"}
  /\ child \in [ForkJoin!Runs -> {"none", "16", "18", "done"}]
  /\ value \in [ForkJoin!Runs -> Nat]
  /\ link \in ForkJoin!Runs \cup {0} /\ stale \subseteq ForkJoin!Runs

\* A run that has not forked yet, or has not begun, has no child.
JNotYet ==
  /\ parent \in {"42", "reopen", "45"} => child[run] = "none"
  /\ \A k \in ForkJoin!Runs : k > run => child[k] = "none"

\* The semaphore of a run holds at most the token of its own child, and the one
\* that Sem_open falls back to.
JTokens == \A k \in ForkJoin!Runs : value[k] <= One(k \in stale) + One(child[k] = "done")

\* A parent past its wait took one of these tokens.
JJoined == parent \in {"61", "63"} => child[run] = "done" \/ run \in stale

JInv == JTypes /\ JNotYet /\ JTokens /\ JJoined

\* fork-join.c starts in a state of the invariant.
LEMMA JInit == ForkJoin!Init => JInv
BY RunsAssumption DEF ForkJoin!Init, ForkJoin!Runs, JInv, JTypes, JNotYet, JTokens, JJoined, One

\* A step of fork-join.c keeps the invariant.
LEMMA JStep == JInv /\ [ForkJoin!Next]_jvars => JInv'
<1> SUFFICES ASSUME JInv, [ForkJoin!Next]_jvars PROVE JInv'
  OBVIOUS
<1>0. /\ \A k : k \in ForkJoin!Runs <=> k \in Nat /\ 0 < k /\ k <= MaxRuns
      /\ 0 \notin ForkJoin!Runs /\ MaxRuns \in Nat
  BY RunsAssumption DEF ForkJoin!Runs
<1>1. CASE ForkJoin!Open
  <2>1. JTypes'
    BY <1>0, <1>1 DEF JInv, JTypes, ForkJoin!Open
  <2>2. JNotYet'
    BY <1>0, <1>1, Zenon DEF JInv, JTypes, JNotYet, ForkJoin!Open
  <2>3. JTokens'
    BY <1>0, <1>1 DEF JInv, JTypes, JNotYet, JTokens, One, ForkJoin!Open
  <2>4. JJoined'
    BY <1>0, <1>1, Zenon DEF JInv, JTypes, JNotYet, JTokens, JJoined, One, ForkJoin!Open
  <2> QED BY <2>1, <2>2, <2>3, <2>4, Zenon DEF JInv
<1>2. CASE ForkJoin!Fork
  <2>1. JTypes'
    BY <1>0, <1>2, Zenon DEF JInv, JTypes, ForkJoin!Fork
  <2>2. JNotYet'
    BY <1>0, <1>2 DEF JInv, JTypes, JNotYet, ForkJoin!Fork
  <2>3. JTokens'
    BY <1>0, <1>2, Zenon DEF JInv, JTypes, JNotYet, JTokens, One, ForkJoin!Fork
  <2>4. JJoined'
    BY <1>0, <1>2, Zenon DEF JInv, JTypes, JNotYet, JTokens, JJoined, One, ForkJoin!Fork
  <2> QED BY <2>1, <2>2, <2>3, <2>4 DEF JInv
<1>3. CASE ForkJoin!Join
  <2>1. JTypes'
    BY <1>0, <1>3 DEF JInv, JTypes, ForkJoin!Join
  <2>2. JNotYet'
    BY <1>0, <1>3, Zenon DEF JInv, JTypes, JNotYet, ForkJoin!Join
  <2>3. JTokens'
    BY <1>0, <1>3 DEF JInv, JTypes, JNotYet, JTokens, One, ForkJoin!Join
  <2>4. JJoined'
    BY <1>0, <1>3 DEF JInv, JTypes, JNotYet, JTokens, JJoined, One, ForkJoin!Join
  <2> QED BY <2>1, <2>2, <2>3, <2>4 DEF JInv
<1>4. CASE ForkJoin!Kill \/ ForkJoin!Rerun
  <2>1. JTypes'
    BY <1>0, <1>4 DEF JInv, JTypes, ForkJoin!Kill, ForkJoin!Rerun
  <2>2. JNotYet'
    BY <1>0, <1>4 DEF JInv, JTypes, JNotYet, ForkJoin!Kill, ForkJoin!Rerun
  <2>3. JTokens'
    BY <1>0, <1>4, Zenon DEF JInv, JTypes, JNotYet, JTokens, One, ForkJoin!Kill, ForkJoin!Rerun
  <2>4. JJoined'
    BY <1>0, <1>4, Zenon DEF JInv, JTypes, JNotYet, JTokens, JJoined, One, ForkJoin!Kill, ForkJoin!Rerun
  <2> QED BY <2>1, <2>2, <2>3, <2>4 DEF JInv
<1>5. ASSUME NEW k \in ForkJoin!Runs, ForkJoin!Child(k) PROVE JInv'
  <2>1. JTypes'
    BY <1>0, <1>5 DEF JInv, JTypes, ForkJoin!Child
  <2>2. JNotYet'
    BY <1>0, <1>5, Zenon DEF JInv, JTypes, JNotYet, ForkJoin!Child
  <2>3. JTokens'
    BY <1>0, <1>5 DEF JInv, JTypes, JNotYet, JTokens, One, ForkJoin!Child
  <2>4. JJoined'
    BY <1>0, <1>5, Zenon DEF JInv, JTypes, JNotYet, JTokens, JJoined, One, ForkJoin!Child
  <2> QED BY <2>1, <2>2, <2>3, <2>4, Zenon DEF JInv
<1>6. CASE UNCHANGED jvars
  BY <1>6, Zenon DEF jvars, JInv, JTypes, JNotYet, JTokens, JJoined
<1> QED BY <1>1, <1>2, <1>3, <1>4, <1>5, <1>6, Zenon DEF ForkJoin!Next, ForkJoin!Terminated, ForkJoin!vars, jvars

\* What it says.
LEMMA JShows == JInv => ForkJoin!OwnChildOnly /\ ForkJoin!TypeOK
<1> SUFFICES ASSUME JInv PROVE ForkJoin!OwnChildOnly /\ ForkJoin!TypeOK
  OBVIOUS
<1>1. \A k \in ForkJoin!Runs : value[k] \in 0..2
  BY DEF JInv, JTypes, JTokens, One
<1>2. ForkJoin!OwnChildOnly
  BY Zenon DEF JInv, JJoined, ForkJoin!OwnChildOnly
<1>3. link \in 0..MaxRuns
  BY RunsAssumption DEF JInv, JTypes, ForkJoin!Runs
<1> QED BY <1>1, <1>2, <1>3, Zenon DEF JInv, JTypes, ForkJoin!TypeOK
-----------------------------------------------------------------------------
(* barrier.c *)

CONSTANTS BarrierThreads,   \* the children
          BarrierRounds     \* calls of barrier() that each of them makes

\* barrier.c:131, assert(num_threads > 0).
ASSUME BarrierAssumption ==
  IsFiniteSet(BarrierThreads) /\ BarrierThreads # {} /\ BarrierRounds \in Nat \ {0}

VARIABLES npc, nsem, nshm, nboot, num_arrived, i, round, nkills, nstale

nvars == <<npc, nsem, nshm, nboot, num_arrived, i, round, nkills, nstale>>

Barrier == INSTANCE Barrier WITH
  Threads <- BarrierThreads, Rounds <- BarrierRounds,
  pc <- npc, sem <- nsem, shm <- nshm, boot <- nboot, kills <- nkills, stale <- nstale

\* What the proof in Barrier assumes holds.
LEMMA BSetting == Barrier!Setting
<1>1. Barrier!IsFiniteSet(BarrierThreads)
  BY BarrierAssumption, Zenon DEF IsFiniteSet, Barrier!IsFiniteSet
<1> QED BY <1>1, BarrierAssumption, Zenon DEF Barrier!Setting
-----------------------------------------------------------------------------
(* FIFO_barbershop.c *)

CONSTANTS FifoCustomers, FifoChairs

ASSUME FifoAssumption ==
  /\ IsFiniteSet(FifoCustomers) /\ FifoChairs \in Nat
  /\ FifoCustomers \cap {"barber", "none", "mutex", "customer_arrives", "customer_leaves",
                         "barber_sleeps"} = {}

VARIABLES fpc, fsem, fcustomers, fqueue, fe, flive, arrivals, haircuts

fvars == <<fpc, fsem, fcustomers, fqueue, fe, flive, arrivals, haircuts>>

Fifo == INSTANCE FifoBarbershop WITH
  Customers <- FifoCustomers, chairs <- FifoChairs,
  pc <- fpc, sem <- fsem, customers <- fcustomers, queue <- fqueue, e <- fe, live <- flive

\* What the proof in FifoBarbershop assumes holds.
LEMMA FSetting == Fifo!Setting
<1>1. Fifo!CountingLaws
  BY Laws, Zenon DEF CountingLaws, Fifo!CountingLaws, Count, Fifo!Count, Moves, Fifo!Moves, One, Fifo!One,
              Cardinality, Fifo!Cardinality, IsFiniteSet, Fifo!IsFiniteSet
<1>2. Fifo!IsFiniteSet(FifoCustomers)
  BY FifoAssumption, Zenon DEF IsFiniteSet, Fifo!IsFiniteSet
<1> QED BY <1>1, <1>2, FifoAssumption, Zenon DEF Fifo!Setting
-----------------------------------------------------------------------------
(* Hilzers_barbershop.c *)

CONSTANTS HilzersCustomers, HilzersUshers, HilzersBarbers, HilzersCapacity

ASSUME HilzersAssumption ==
  /\ IsFiniteSet(HilzersCustomers) /\ IsFiniteSet(HilzersUshers) /\ IsFiniteSet(HilzersBarbers)
  /\ HilzersCustomers \cap (HilzersUshers \cup HilzersBarbers) = {}
  /\ HilzersUshers \cap HilzersBarbers = {} /\ "none" \notin HilzersCustomers
  /\ HilzersCapacity \in Nat

VARIABLES hpc, hsem, customer_num, hqueue, he, hlive, called

hvars == <<hpc, hsem, customer_num, hqueue, he, hlive, called>>

Hilzers == INSTANCE HilzersBarbershop WITH
  Customers <- HilzersCustomers, Ushers <- HilzersUshers, Barbers <- HilzersBarbers,
  max_capacity <- HilzersCapacity,
  pc <- hpc, sem <- hsem, queue <- hqueue, e <- he, live <- hlive

\* What the proof in HilzersBarbershop assumes holds.
LEMMA HSetting == Hilzers!Setting
<1>1. Hilzers!CountingLaws
  BY Laws, Zenon DEF CountingLaws, Hilzers!CountingLaws, Count, Hilzers!Count, Moves, Hilzers!Moves, One, Hilzers!One,
              Cardinality, Hilzers!Cardinality, IsFiniteSet, Hilzers!IsFiniteSet
<1>2. Hilzers!IsFiniteSet(HilzersCustomers) /\ Hilzers!IsFiniteSet(HilzersUshers) /\ Hilzers!IsFiniteSet(HilzersBarbers)
  BY HilzersAssumption, Zenon DEF IsFiniteSet, Hilzers!IsFiniteSet
<1> QED BY <1>1, <1>2, HilzersAssumption, Zenon DEF Hilzers!Setting
-----------------------------------------------------------------------------
(* The programs side by side *)

VARIABLE program

named == <<rvars, nvars, jvars>>
puzzles == <<svars, vvars, bvars, fvars, hvars>>
semVars == <<program, named, puzzles>>

\* The options of dining_savages.c matter to that program alone.
SemInit ==
  /\ Rendezvous!Init /\ Barrier!Init /\ ForkJoin!Init
  /\ Smokers!Init /\ Savages!Init /\ Barbershop!Init /\ Fifo!Init /\ Hilzers!Init
  /\ program # "savages" => pot_size = 1 /\ loop = Cardinality(SavageThreads)

RunRendezvous == program = "rendezvous" /\ Rendezvous!Next /\ UNCHANGED <<program, nvars, jvars, puzzles>>
RunBarrier == program = "barrier" /\ Barrier!Next /\ UNCHANGED <<program, rvars, jvars, puzzles>>
RunForkJoin == program = "fork-join" /\ ForkJoin!Next /\ UNCHANGED <<program, rvars, nvars, puzzles>>
RunSmokers == program = "smokers" /\ Smokers!Next /\ UNCHANGED <<program, named, vvars, bvars, fvars, hvars>>
RunSavages == program = "savages" /\ Savages!Next /\ UNCHANGED <<program, named, svars, bvars, fvars, hvars>>
RunBarbershop == program = "barbershop" /\ Barbershop!Next /\ UNCHANGED <<program, named, svars, vvars, fvars, hvars>>
RunFifo == program = "fifo" /\ Fifo!Next /\ UNCHANGED <<program, named, svars, vvars, bvars, hvars>>
RunHilzers == program = "hilzers" /\ Hilzers!Next /\ UNCHANGED <<program, named, svars, vvars, bvars, fvars>>

SemNext ==
  \/ RunRendezvous \/ RunBarrier \/ RunForkJoin
  \/ RunSmokers \/ RunSavages \/ RunBarbershop \/ RunFifo \/ RunHilzers

SemSpec == SemInit /\ [][SemNext]_semVars
-----------------------------------------------------------------------------
\* Nobody goes on early.  rendezvous.c and barrier.c: in every round all the
\* "before" messages come before any "after" message, unless the run found a
\* name left behind; fork-join.c: the parent never goes on with the token of
\* the child that an earlier run left behind.  barrier.c: a child that is a
\* round ahead takes no token of a slower one, and one child at a time is at
\* num_arrived, even in a run that starts from names left behind.
NobodyEarly ==
  /\ Rendezvous!BeforeAfter /\ Barrier!BeforeAfter /\ ForkJoin!OwnChildOnly
  /\ Barrier!TokensBelong /\ Barrier!CounterExclusive

\* The hand-shakes never mix up who is meant.  cigarette_smokers.c: the smoker
\* that smokes is the one the agent supplied, and no ingredient is left over
\* for a later agent's push to match.  dining_savages.c: the cook fills the
\* pot only for a savage that waits for it, and the fillings counted at the
\* start are right to the last bite.  barbershop.c: one haircut at a time,
\* though the semaphores name nobody, and main cancels the barber only when
\* nothing is pending.  Hilzers_barbershop.c: sofa and chairs are never
\* overfull.
HandshakesMatch ==
  /\ Smokers!RightSmoker /\ Smokers!TableCleared
  /\ Savages!CookCalled /\ Savages!CookOwes
  /\ Barbershop!OneInChair /\ Barbershop!BarberIdleAtEnd /\ Hilzers!PlacesBound

\* FIFO_barbershop.c and Hilzers_barbershop.c: whoever is told of an arrival
\* finds its entry in the queue, and posts no semaphore that its customer has
\* freed; haircuts are given in the order of arrival (FIFO).  In all programs
\* semaphores and counters stay within their bounds.
EntriesValid ==
  /\ Rendezvous!TypeOK /\ Barrier!TypeOK /\ ForkJoin!TypeOK
  /\ Smokers!TypeOK /\ Savages!TypeOK /\ Barbershop!TypeOK /\ Fifo!TypeOK /\ Hilzers!TypeOK
  /\ Fifo!QueueNotEmpty /\ Fifo!NoUseAfterFree /\ Fifo!FifoOrder
  /\ Hilzers!QueuesNotEmpty /\ Hilzers!NoUseAfterFree
-----------------------------------------------------------------------------
\* A step of the composition is, for each program, a step of it or none.
LEMMA OneAtATime ==
  [SemNext]_semVars =>
    /\ [Rendezvous!Next]_rvars /\ [Barrier!Next]_nvars /\ [ForkJoin!Next]_jvars
    /\ [Smokers!Next]_svars /\ [Savages!Next]_vvars /\ [Barbershop!Next]_bvars
    /\ [Fifo!Next]_fvars /\ [Hilzers!Next]_hvars
<1> SUFFICES ASSUME [SemNext]_semVars
             PROVE  /\ [Rendezvous!Next]_rvars /\ [Barrier!Next]_nvars /\ [ForkJoin!Next]_jvars
                    /\ [Smokers!Next]_svars /\ [Savages!Next]_vvars /\ [Barbershop!Next]_bvars
                    /\ [Fifo!Next]_fvars /\ [Hilzers!Next]_hvars
  BY Zenon
<1>1. CASE UNCHANGED semVars
  BY <1>1, Zenon DEF semVars, named, puzzles
<1>2. CASE RunRendezvous \/ RunBarrier \/ RunForkJoin
  BY <1>2, Zenon DEF RunRendezvous, RunBarrier, RunForkJoin, named, puzzles
<1>3. CASE RunSmokers \/ RunSavages \/ RunBarbershop
  BY <1>3, Zenon DEF RunSmokers, RunSavages, RunBarbershop, named
<1>4. CASE RunFifo
  BY <1>4, Zenon DEF RunFifo, named
<1>5. CASE RunHilzers
  BY <1>5, Zenon DEF RunHilzers, named
<1> QED BY <1>1, <1>2, <1>3, <1>4, <1>5, Zenon DEF SemNext

\* The inductive invariants of the programs, together.
SemInv == Barrier!BInv /\ RInv /\ JInv /\ SInv /\ VInv /\ CInv /\ Fifo!FInv /\ Hilzers!HInv

\* They hold in every reachable state of the composition.
LEMMA SemInvariance == SemSpec => []SemInv
<1>1. SemInit => SemInv
  BY BSetting, Barrier!BInit, RInit, JInit, SInit, VInit, CInit, FSetting, Fifo!FInit, HSetting, Hilzers!HInit, Zenon
     DEF SemInit, SemInv
<1>2. SemInv /\ [SemNext]_semVars => SemInv'
  <2>0. SemInv /\ [SemNext]_semVars => Barrier!BInv'
    <3>1. [Barrier!Next]_nvars <=> [Barrier!Next]_(Barrier!vars)
      BY Zenon DEF nvars, Barrier!vars
    <3> QED BY <3>1, OneAtATime, BSetting, Barrier!BStep, Zenon DEF SemInv
  <2>1. SemInv /\ [SemNext]_semVars => RInv' /\ JInv'
    BY OneAtATime, RStep, JStep, Zenon DEF SemInv
  <2>2. SemInv /\ [SemNext]_semVars => SInv' /\ VInv' /\ CInv'
    BY OneAtATime, SStep, VStep, CStep, Zenon DEF SemInv
  <2>3. SemInv /\ [SemNext]_semVars => Fifo!FInv' /\ Hilzers!HInv'
    <3>1. [Fifo!Next]_fvars <=> [Fifo!Next]_(Fifo!vars)
      BY Zenon DEF fvars, Fifo!vars
    <3>2. [Hilzers!Next]_hvars <=> [Hilzers!Next]_(Hilzers!vars)
      BY Zenon DEF hvars, Hilzers!vars
    <3> QED BY <3>1, <3>2, OneAtATime, FSetting, Fifo!FStep, HSetting, Hilzers!HStep, Zenon DEF SemInv
  <2> QED BY <2>0, <2>1, <2>2, <2>3, Zenon DEF SemInv
<1> QED BY <1>1, <1>2, PTL DEF SemSpec

\* For any number of children, rounds, runs and kills nobody goes on early in
\* barrier.c, rendezvous.c and fork-join.c.
THEOREM EveryoneWaits == SemSpec => []NobodyEarly
<1>1. SemInv => NobodyEarly
  BY BSetting, Barrier!BShows, RShows, JShows, Zenon DEF SemInv, NobodyEarly
<1> QED BY <1>1, SemInvariance, PTL

\* For any number of savages, customers, ushers and barbers, and any size of
\* the pot and the shops, the hand-shakes of cigarette_smokers.c,
\* dining_savages.c, barbershop.c and Hilzers_barbershop.c match.
THEOREM HandshakesAreRight == SemSpec => []HandshakesMatch
<1>1. SemInv => HandshakesMatch
  BY SShows, VShows, CShows, HSetting, Hilzers!HShows, Zenon DEF SemInv, HandshakesMatch
<1> QED BY <1>1, SemInvariance, PTL

\* For any number of customers and servers an entry is in the queue when it is
\* announced and allocated when it is posted, FIFO_barbershop.c serves in the
\* order of arrival, and all semaphores and counters stay within their bounds.
THEOREM EntriesAreValid == SemSpec => []EntriesValid
<1>1. SemInv => EntriesValid
  <2>1. SemInv => /\ Rendezvous!TypeOK /\ Barrier!TypeOK /\ ForkJoin!TypeOK
                  /\ Smokers!TypeOK /\ Savages!TypeOK /\ Barbershop!TypeOK
    BY BSetting, Barrier!BShows, RShows, JShows, SShows, VShows, CShows, Zenon DEF SemInv
  <2>2. SemInv => /\ Fifo!TypeOK /\ Fifo!QueueNotEmpty /\ Fifo!NoUseAfterFree /\ Fifo!FifoOrder
                  /\ Hilzers!TypeOK /\ Hilzers!QueuesNotEmpty /\ Hilzers!NoUseAfterFree
    BY FSetting, Fifo!FShows, HSetting, Hilzers!HShows, Zenon DEF SemInv
  <2> QED BY <2>1, <2>2, Zenon DEF EntriesValid
<1> QED BY <1>1, SemInvariance, PTL
=============================================================================
