----------------------------- MODULE ThreadCount -----------------------------
(***************************************************************************)
(* Counting the threads at some statements of a program, for the proofs    *)
(* about the programs of chapter 31.  What those proofs use of             *)
(* cardinalities is one formula, CountingLaws; SemPrograms proves it from  *)
(* the theorems on finite sets.                                            *)
(***************************************************************************)
EXTENDS Integers, FiniteSets

\* 1 if A holds, else 0.
One(A) == IF A THEN 1 ELSE 0

\* How many threads of S are at one of the statements L.
Count(S, f, L) == Cardinality({t \in S : f[t] \in L})

\* Thread t of S is the only one that moves when f becomes g.
Moves(S, f, g, t) == t \in S /\ \A u \in S : u # t => g[u] = f[u]

\* A count is a number, at most all of S, and 0 if nobody is there; a thread
\* that moves is counted at its new statement and not at the old one; and a
\* set grows and shrinks by one element at a time.
CountingLaws ==
  /\ \A S, f, L : IsFiniteSet(S) => /\ Count(S, f, L) \in Nat /\ Count(S, f, L) <= Cardinality(S)
                                    /\ Count(S, f, L) = 0 <=> \A t \in S : f[t] \notin L
  /\ \A S, f, g, t : IsFiniteSet(S) /\ Moves(S, f, g, t) =>
       \A L : Count(S, g, L) = Count(S, f, L) + One(g[t] \in L) - One(f[t] \in L)
  /\ \A S : IsFiniteSet(S) => /\ Cardinality(S) \in Nat
                              /\ \A T : T \subseteq S => IsFiniteSet(T)
                              /\ \A x : x \notin S => Cardinality(S \cup {x}) = Cardinality(S) + 1
                              /\ \A x : x \in S => Cardinality(S \ {x}) = Cardinality(S) - 1
  /\ Cardinality({}) = 0
=============================================================================
