-------------------------------- MODULE KeySet --------------------------------
(***************************************************************************)
(* What the concurrent lists of chapter 29 promise: a set of keys with     *)
(* List_Insert and List_Lookup that take effect at one moment between call *)
(* and return.  A lookup returns 0 when the key is in the set at that      *)
(* moment, -1 otherwise.                                                   *)
(***************************************************************************)
EXTENDS Integers

CONSTANTS Threads, Keys,
          MayFail     \* whether an insert may give up, for want of memory

VARIABLES set,
          phase,    \* phase[t]: "idle", "insert", "lookup" (called), "found", "absent"
          arg       \* arg[t]: the key thread t passed

absvars == <<set, phase, arg>>

Init ==
  /\ set = {}
  /\ phase = [t \in Threads |-> "idle"]
  /\ arg \in [Threads -> Keys]

Step(t, from, to) == phase[t] = from /\ phase' = [phase EXCEPT ![t] = to]

Call(t) ==
  /\ \E op \in {"insert", "lookup"} : Step(t, "idle", op)
  /\ \E k \in Keys : arg' = [arg EXCEPT ![t] = k]
  /\ UNCHANGED set

Insert(t) ==
  /\ Step(t, "insert", "idle")
  /\ set' = set \cup {arg[t]}
  /\ UNCHANGED arg

InsertFails(t) ==
  /\ MayFail
  /\ Step(t, "insert", "idle")
  /\ UNCHANGED <<set, arg>>

Lookup(t) ==
  /\ Step(t, "lookup", IF arg[t] \in set THEN "found" ELSE "absent")
  /\ UNCHANGED <<set, arg>>

Return(t) ==
  /\ Step(t, "found", "idle") \/ Step(t, "absent", "idle")
  /\ UNCHANGED <<set, arg>>

Next == \E t \in Threads : Call(t) \/ Insert(t) \/ InsertFails(t) \/ Lookup(t) \/ Return(t)

Spec == Init /\ [][Next]_absvars
=============================================================================
