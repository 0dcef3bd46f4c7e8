------------------------------- MODULE Smokers -------------------------------
(***************************************************************************)
(* 31/cigarette_smokers.c: three agents, each of which puts two            *)
(* ingredients on the table, and three smokers, each of which waits for    *)
(* the two that it lacks.  Labels are line numbers of the source.          *)
(***************************************************************************)
EXTENDS SemThreads, FiniteSets

VARIABLE has    \* the has_tobacco, has_paper, has_match that are true

vars == <<pc, sem, has>>

Ingredients == {"tobacco", "paper", "match"}

\* The smoker of an ingredient waits on the semaphore of the same name.
Semaphores == Ingredients \cup {"agent", "lock"}

\* What the agents of type 0, 1 and 2 push, in this order.
Pushes == << <<"tobacco", "paper">>, <<"paper", "match">>, <<"tobacco", "match">> >>

Agents == {"agent0", "agent1", "agent2"}
Smokers == {"smoker_tobacco", "smoker_paper", "smoker_match"}
Threads == Agents \cup Smokers

Type(a) == CASE a = "agent0" -> 1 [] a = "agent1" -> 2 [] a = "agent2" -> 3
Own(s) == CASE s = "smoker_tobacco" -> "tobacco" [] s = "smoker_paper" -> "paper"
            [] s = "smoker_match" -> "match"

Init ==
  /\ pc = [t \in Threads |-> IF t \in Agents THEN "94" ELSE "wait"]
  /\ sem = [s \in Semaphores |-> IF s \in {"agent", "lock"} THEN 1 ELSE 0]
  /\ has = {}
-----------------------------------------------------------------------------
\* tobacco_pusher, paper_pusher and match_pusher: the first of the other two
\* ingredients, in the order of the code's tests, that is on the table is
\* taken off it and the smoker who holds the third is woken.
Pusher(x) ==
  LET first == CASE x = "tobacco" -> "paper" [] x = "paper" -> "match" [] x = "match" -> "paper"
      second == CHOOSE y \in Ingredients : y \notin {x, first}
      Match(y) == has' = has \ {y} /\ \E z \in Ingredients \ {x, y} : Sem_post(z)
  IN  \/ first \in has /\ Match(first)
      \/ first \notin has /\ second \in has /\ Match(second)
      \/ has \cap {first, second} = {} /\ has' = has \cup {x} /\ UNCHANGED sem

\* Lines 92-111; has is only accessed under lock.
agent(a) ==
  \/ WaitStep(a, "94", "agent", "95") /\ UNCHANGED has
  \/ WaitStep(a, "95", "lock", "push1") /\ UNCHANGED has
  \/ Goto(a, "push1", "push2") /\ Pusher(Pushes[Type(a)][1])
  \/ Goto(a, "push2", "109") /\ Pusher(Pushes[Type(a)][2])
  \/ PostStep(a, "109", "lock", "done") /\ UNCHANGED has

\* Lines 113-132.
smoker(s) ==
  /\ \/ WaitStep(s, "wait", Own(s), "smoking")
     \/ PostStep(s, "smoking", "agent", "done")
  /\ UNCHANGED has

Next ==
  \/ \E a \in Agents : agent(a)
  \/ \E s \in Smokers : smoker(s)

Spec == Init /\ [][Next]_vars
-----------------------------------------------------------------------------
TypeOK ==
  /\ pc \in [Threads -> {"94", "95", "push1", "push2", "109", "wait", "smoking", "done"}]
  /\ sem \in [Semaphores -> 0..1]
  /\ has \subseteq Ingredients

\* The agent that supplied what smoker s lacks.
Supplier(s) ==
  CHOOSE a \in Agents : Own(s) \notin {Pushes[Type(a)][1], Pushes[Type(a)][2]}

\* Whoever smokes, or may, was supplied: the agent that put down exactly the
\* two ingredients this smoker lacks has done so, and nobody else's
\* ingredients were mixed with them.
RightSmoker ==
  \A s \in Smokers :
    pc[s] \in {"smoking", "done"} \/ sem[Own(s)] = 1 => pc[Supplier(s)] \in {"109", "done"}

\* Outside a pair of pushes the table is empty, so no ingredient is left over
\* that a later agent's push could be matched with.
TableCleared == (\A a \in Agents : pc[a] # "push2") => has = {}

\* Every agent and every smoker has finished, so main's joins return.
Finished == \A t \in Threads : pc[t] = "done"
=============================================================================
