------------------------------ MODULE Semaphore ------------------------------
(***************************************************************************)
(* What a counting semaphore promises to the threads that use it: a wait   *)
(* completes by taking one unit that is there, a post adds one unit, and   *)
(* a call is answered once.                                                *)
(***************************************************************************)
EXTENDS Integers

CONSTANTS Threads, InitialValue

VARIABLES value,
          call     \* call[t]: what thread t has asked for and has not yet got

Init == value = InitialValue /\ call = [t \in Threads |-> "none"]

Call(t, op) ==
  /\ call[t] = "none"
  /\ call' = [call EXCEPT ![t] = op]
  /\ UNCHANGED value

Take(t) ==
  /\ call[t] = "wait" /\ value > 0
  /\ value' = value - 1
  /\ call' = [call EXCEPT ![t] = "none"]

Give(t) ==
  /\ call[t] = "post"
  /\ value' = value + 1
  /\ call' = [call EXCEPT ![t] = "none"]

Next == \E t \in Threads : Call(t, "wait") \/ Call(t, "post") \/ Take(t) \/ Give(t)

Spec == Init /\ [][Next]_<<value, call>>
=============================================================================
