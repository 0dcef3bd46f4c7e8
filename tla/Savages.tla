------------------------------- MODULE Savages -------------------------------
(***************************************************************************)
(* 31/dining_savages.c: savages that eat from a pot, and a cook that fills *)
(* it whenever a savage finds it empty, for a number of times computed     *)
(* beforehand.  Labels are line numbers of the source.                     *)
(***************************************************************************)
EXTENDS SemThreads, FiniteSets

CONSTANTS Savages,      \* the savages that may be created
          MaxPotSize    \* bound on the option -p

VARIABLES stewed_missionaries,
          pot_size,      \* option -p
          loop           \* times the cook still has to fill the pot

vars == <<pc, sem, stewed_missionaries, pot_size, loop>>
pot == <<stewed_missionaries, pot_size>>

Threads == Savages \cup {"cook"}

\* Lines 46-49: the number of times the cook will fill the pot.
Fillings(savages_num, size) ==
  IF savages_num % size = 0 THEN savages_num \div size ELSE savages_num \div size + 1

\* main with any legal values of -p and -s: savages that are not created are
\* "done" from the start.
Init ==
  \E created \in SUBSET Savages \ {{}} :
    /\ pot_size \in 1..MaxPotSize
    /\ pc = [t \in Threads |-> IF t = "cook" THEN "51" ELSE IF t \in created THEN "60" ELSE "done"]
    /\ sem = [s \in {"empty_pot", "full_pot", "mutex"} |-> IF s = "mutex" THEN 1 ELSE 0]
    /\ stewed_missionaries = 0
    /\ loop = Fillings(Cardinality(created), pot_size)
-----------------------------------------------------------------------------
\* Lines 50-54.
cook ==
  \/ loop > 0 /\ WaitStep("cook", "51", "empty_pot", "53") /\ UNCHANGED <<pot, loop>>
  \/ PostStep("cook", "53", "full_pot", "51") /\ loop' = loop - 1 /\ UNCHANGED pot
  \/ loop = 0 /\ LocalStep("cook", "51", "done") /\ UNCHANGED <<pot, loop>>

\* A savage that lets the others in while it waits for the cook.
savage_Unlocks(t) ==
  /\ \/ WaitStep(t, "60", "mutex", "61") /\ UNCHANGED pot
     \/ LocalStep(t, "61", IF stewed_missionaries = 0 THEN "62" ELSE "66") /\ UNCHANGED pot
     \/ /\ Goto(t, "62", "63") /\ UNCHANGED pot
        /\ sem' = [sem EXCEPT !["empty_pot"] = @ + 1, !["mutex"] = @ + 1]
     \/ WaitStep(t, "63", "full_pot", "64") /\ UNCHANGED pot
     \/ LocalStep(t, "64", "66") /\ stewed_missionaries' = pot_size /\ UNCHANGED pot_size
     \/ /\ LocalStep(t, "66", "68")
        /\ stewed_missionaries' = stewed_missionaries - 1 /\ UNCHANGED pot_size
     \/ PostStep(t, "68", "mutex", "done") /\ UNCHANGED pot
  /\ UNCHANGED loop

\* Lines 60-68.
savage(t) ==
  /\ \/ WaitStep(t, "60", "mutex", "61") /\ UNCHANGED pot
     \/ LocalStep(t, "61", IF stewed_missionaries = 0 THEN "62" ELSE "66") /\ UNCHANGED pot
     \/ PostStep(t, "62", "empty_pot", "63") /\ UNCHANGED pot
     \/ WaitStep(t, "63", "full_pot", "64") /\ UNCHANGED pot
     \/ LocalStep(t, "64", "66") /\ stewed_missionaries' = pot_size /\ UNCHANGED pot_size
     \/ /\ LocalStep(t, "66", "68")
        /\ stewed_missionaries' = stewed_missionaries - 1 /\ UNCHANGED pot_size
     \/ PostStep(t, "68", "mutex", "done") /\ UNCHANGED pot
  /\ UNCHANGED loop

Next == cook \/ \E t \in Savages : savage(t)

Spec == Init /\ [][Next]_vars
-----------------------------------------------------------------------------
TypeOK ==
  /\ pc \in [Threads -> {"51", "53", "60", "61", "62", "63", "64", "66", "68", "done"}]
  /\ sem \in [{"empty_pot", "full_pot", "mutex"} -> 0..1]
  /\ stewed_missionaries \in 0..pot_size
  /\ loop \in Nat

Hungry == {t \in Savages : pc[t] \in {"60", "61", "62", "63", "64", "66"}}

\* The count that the cook computed before anybody ate stays right: what is in
\* the pot and what it still owes feeds everybody who has not eaten, and the
\* cook does not owe a filling that nobody will ask for.
CookOwes ==
  LET owed == loop + sem["full_pot"] + Cardinality({t \in Savages : pc[t] = "64"})
      food == stewed_missionaries + owed * pot_size
  IN  food - Cardinality(Hungry) \in 0..(pot_size - 1)

\* The cook works on the pot (line 53) only while a savage waits for it, and
\* one savage at a time looks at the pot.
CookCalled ==
  /\ pc["cook"] = "53" => \E t \in Savages : pc[t] = "63"
  /\ \A t, u \in Savages :
       pc[t] \in {"61", "62", "63", "64", "66"} /\ pc[u] \in {"61", "62", "63", "64", "66"} => t = u

\* Cook and savages have finished, so main's joins return.
Finished == \A t \in Threads : pc[t] = "done"
=============================================================================
