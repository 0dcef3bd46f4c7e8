--------------------------------- MODULE Udp ---------------------------------
(***************************************************************************)
(* The acknowledged messages of 48/UDP-lib.h between the client and the    *)
(* server of 48/: UDP_Write sends a datagram and waits on a named          *)
(* semaphore, which the receiver posts after it sent "ack"; a wait that    *)
(* times out sends again.  A message longer than SMALL_BUFFER_SIZE goes in *)
(* pieces between BEGIN_STR and END_STR.  main writes a long and then a    *)
(* short message and reads an ack after each.                              *)
(*                                                                         *)
(* Both processes share the semaphore, so they run on one machine, where   *)
(* datagrams keep their order; they can be lost.  A timeout is due when    *)
(* nothing is under way and early when the server is merely slow.  A       *)
(* wait_ack that timed out calls UDP_Write: "calls" is the stack of the    *)
(* client's pending calls of UDP_Write, the innermost first.               *)
(***************************************************************************)
EXTENDS Naturals, Sequences, SequencesExt

CONSTANTS SMALL_BUFFER_SIZE,
          MaxLost,      \* bound on the datagrams that are lost
          MaxEarly      \* bound on the timeouts with something under way

VARIABLES i,            \* main's message
          calls,        \* pending calls of UDP_Write, in wait_ack if pc = "wait"
          pc,           \* of the client
          toServer, acks, client_sem,
          spc, buffer,  \* of the server
          received,     \* what UDP_Read returned to the server
          lost, early, ackLost

vars == <<i, calls, pc, toServer, acks, client_sem, spc, buffer, received, lost, early, ackLost>>
netVars == <<lost, early, ackLost>>
serverVars == <<spc, buffer, received>>

\* A datagram is the text it is cut from, where it starts in it and its length.
Datagram(name, off, length) == [name |-> name, off |-> off, length |-> length]
BEGIN_STR == Datagram("0begin", 0, 6)
END_STR == Datagram("end1", 0, 5)

\* What main writes.
Messages == <<Datagram("first hello", 0, 11), Datagram("hello", 0, 5)>>

\* A call of UDP_Write(d): the datagram it is at (0 is BEGIN_STR), what it has
\* sent so far, and the length of the last piece.
Long(d) == d.length > SMALL_BUFFER_SIZE
UDP_Write(d) == [d |-> d, k |-> IF Long(d) THEN 0 ELSE 1, ret |-> 0, left |-> 0]
loop(d) == d.length \div SMALL_BUFFER_SIZE
LastStep(d) == IF Long(d) THEN loop(d) + 2 ELSE 1
IsPiece(call) == call.k > 0 /\ (Long(call.d) => call.k <= loop(call.d) + 1)

Piece(d, k) ==
  Datagram(d.name, d.off + (k - 1) * SMALL_BUFFER_SIZE, SMALL_BUFFER_SIZE)

\* The datagram a call is at.
Current(call) ==
  CASE ~Long(call.d)             -> call.d
    [] call.k = 0                -> BEGIN_STR
    [] call.k = LastStep(call.d) -> END_STR
    [] OTHER -> IF call.k <= loop(call.d) THEN Piece(call.d, call.k)
                ELSE [Piece(call.d, call.k) EXCEPT !.length = call.left]

\* sendto counts the bytes of a piece; the last one has what ret says is left
\* and its '\0'.
Sending(call) ==
  LET last == Long(call.d) /\ call.k = loop(call.d) + 1
      c == IF last THEN [call EXCEPT !.left = call.d.length - call.ret + 1] ELSE call
  IN  IF IsPiece(c) THEN [c EXCEPT !.ret = c.ret + Current(c).length] ELSE c

\* wait_ack of the innermost call returns ret: the calls that are pending then,
\* or the value that the outermost one returns to main.
RECURSIVE Returned(_, _)
Returned(stack, ret) ==
  LET call == [Head(stack) EXCEPT !.ret = IF IsPiece(Head(stack)) THEN ret ELSE Head(stack).ret]
      value == IF Long(call.d) /\ call.ret > call.d.length THEN call.d.length ELSE call.ret
  IN  IF call.k < LastStep(call.d)
      THEN [calls |-> <<[call EXCEPT !.k = call.k + 1]>> \o Tail(stack), value |-> 0]
      ELSE IF Len(stack) = 1 THEN [calls |-> <<>>, value |-> value]
           ELSE Returned(Tail(stack), value)

Init ==
  /\ i = 1 /\ calls = <<UDP_Write(Messages[1])>> /\ pc = "send"
  /\ toServer = <<>> /\ acks = 0 /\ client_sem = 0
  /\ spc = "read" /\ buffer = <<>> /\ received = <<>>
  /\ lost = 0 /\ early = 0 /\ ackLost = FALSE

sendto ==
  LET call == Sending(Head(calls)) IN
  /\ pc = "send" /\ pc' = "wait"
  /\ calls' = <<call>> \o Tail(calls)
  /\ \/ toServer' = Append(toServer, Current(call)) /\ UNCHANGED lost
     \/ lost < MaxLost /\ lost' = lost + 1 /\ UNCHANGED toServer
  /\ UNCHANGED <<i, acks, client_sem, serverVars, early, ackLost>>

\* wait_ack returns; at the end of the outermost call main compares its value.
Acked ==
  LET r == Returned(calls, Head(calls).ret) IN
  /\ pc = "wait" /\ client_sem > 0 /\ client_sem' = client_sem - 1
  /\ calls' = r.calls
  /\ pc' = IF r.calls # <<>> THEN "send"
           ELSE IF r.value = Messages[i].length THEN "read" ELSE "failed"
  /\ UNCHANGED <<i, toServer, acks, serverVars, netVars>>

UnderWay == toServer # <<>> \/ spc = "extra"

\* wait_ack calls UDP_Write with the datagram it waits for.
TimedOut ==
  /\ pc = "wait" /\ client_sem = 0 /\ pc' = "send"
  /\ \/ ~UnderWay /\ UNCHANGED early
     \/ UnderWay /\ early < MaxEarly /\ early' = early + 1
  /\ calls' = <<UDP_Write(Current(Head(calls)))>> \o calls
  /\ UNCHANGED <<i, toServer, acks, client_sem, serverVars, lost, ackLost>>

\* main's UDP_Read takes the ack, of whichever datagram, and goes on.
ReadAck ==
  /\ pc = "read" /\ acks > 0 /\ acks' = acks - 1
  /\ IF i < Len(Messages)
     THEN i' = i + 1 /\ pc' = "send" /\ calls' = <<UDP_Write(Messages[i'])>>
     ELSE pc' = "done" /\ UNCHANGED <<i, calls>>
  /\ UNCHANGED <<toServer, client_sem, serverVars, netVars>>

(***************************************************************************)
(* The server                                                              *)
(***************************************************************************)
\* UDP_Write of "ack": sendto, and wait_ack posts the semaphore.
SendAck ==
  /\ client_sem' = client_sem + 1
  /\ \/ acks' = acks + 1 /\ UNCHANGED <<lost, ackLost>>
     \/ lost < MaxLost /\ lost' = lost + 1 /\ ackLost' = TRUE /\ UNCHANGED acks

\* What recvfrom leaves of a datagram in the buffer for pieces.
Truncated(d) == [d EXCEPT !.length = IF Long(d) THEN SMALL_BUFFER_SIZE ELSE d.length]

\* UDP_Read: the first datagram, and the pieces that follow BEGIN_STR.
Receive ==
  LET d == Head(toServer) IN
  /\ spc \in {"read", "pieces"} /\ toServer # <<>> /\ toServer' = Tail(toServer) /\ SendAck
  /\ \/ /\ spc = "read" /\ d = BEGIN_STR
        /\ spc' = "pieces" /\ buffer' = <<>> /\ UNCHANGED received
     \/ /\ spc = "read" /\ d # BEGIN_STR
        /\ received' = Append(received, <<d>>) /\ UNCHANGED <<spc, buffer>>
     \/ /\ spc = "pieces" /\ d = END_STR /\ spc' = "extra" /\ UNCHANGED <<buffer, received>>
     \/ /\ spc = "pieces" /\ d # END_STR
        /\ buffer' = Append(buffer, Truncated(d)) /\ UNCHANGED <<spc, received>>
  /\ UNCHANGED <<i, calls, pc, early>>

\* The buffer is not "ack", so that END_STR is acknowledged a second time.
ExtraAck ==
  /\ spc = "extra" /\ spc' = "read" /\ SendAck
  /\ received' = Append(received, buffer)
  /\ UNCHANGED <<i, calls, pc, toServer, buffer, early>>

Client == sendto \/ Acked \/ TimedOut \/ ReadAck
Server == Receive \/ ExtraAck
Next == Client \/ Server

Spec == Init /\ [][Next]_vars
-----------------------------------------------------------------------------
\* What the server should see of a message.
Whole(m) ==
  IF Long(m)
  THEN Append([k \in 1..loop(m) |-> Piece(m, k)],
              [Piece(m, loop(m) + 1) EXCEPT !.length = (m.length % SMALL_BUFFER_SIZE) + 1])
  ELSE <<m>>

\* Without losses and early timeouts the server gets the messages as they were
\* written, whatever the order of the two processes.
DeliveredWhole ==
  lost = 0 /\ early = 0 => received = [k \in 1..Len(received) |-> Whole(Messages[k])]

\* The pieces of the messages in the order in which the server got them.
Arrived ==
  SelectSeq(FlattenSeq(received) \o (IF spc = "read" THEN <<>> ELSE buffer),
            LAMBDA d : d.name \notin {BEGIN_STR.name, END_STR.name})

\* A timeout that fires although the ack is on the way makes the server see a
\* piece again; it never makes it miss one, or see them out of order.
OnlyRepeats ==
  lost = 0 => \A k \in DOMAIN Arrived :
    LET d == Arrived[k] IN
    \/ d.off = 0 /\ (k = 1 \/ Arrived[k - 1].name # d.name)
    \/ k > 1 /\ Arrived[k - 1].name = d.name
             /\ d.off \in {Arrived[k - 1].off, Arrived[k - 1].off + SMALL_BUFFER_SIZE}

\* "since receiver success, it is ok to send the next message": a client that
\* goes on after wait_ack has nothing under way that was not received.
AckMeansReceived == pc \in {"send", "read", "done"} => toServer = <<>>

\* main ended, or waits for good: in UDP_Read, which has no timeout, for an ack
\* that was lost.
Finished == pc \in {"done", "failed"} \/ (pc = "read" /\ acks = 0 /\ ackLost)
=============================================================================
