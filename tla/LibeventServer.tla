--------------------------- MODULE LibeventServer ---------------------------
(***************************************************************************)
(* The file server of 33/server_libevent.c: callbacks of one event loop.   *)
(* readcb puts the file into the output of its connection, the loop sends  *)
(* it later, and errorcb frees the connection when the client has hung up  *)
(* or reset it.  The server ends when numReqs clients have hung up;        *)
(* event_base_loopexit lets the callbacks of the same round run.           *)
(***************************************************************************)
EXTENDS Integers, FiniteSets

CONSTANTS Clients, Files, NumReqs

VARIABLES conn,       \* "out", "backlog", "open" or "closed"
          sent,       \* what a client sent, None before
          unread, hungUp,
          output,     \* of a connection: a file, None if it is empty
          active,     \* the callbacks left in this round
          num_reqs, exiting, pc,
          reply       \* the file a client was sent

vars == <<conn, sent, unread, hungUp, output, active, num_reqs, exiting, pc, reply>>

None == "none"
Names == Files \cup {"missing"}
\* A callback: its kind and its client, None for do_accept.
Callback(kind, c) == <<kind, c>>

Init ==
  /\ conn = [c \in Clients |-> "out"] /\ sent = [c \in Clients |-> None]
  /\ unread = {} /\ hungUp = {} /\ output = [c \in Clients |-> None]
  /\ active = {} /\ num_reqs = NumReqs /\ exiting = FALSE /\ pc = "wait"
  /\ reply = [c \in Clients |-> None]

Connect(c) ==
  /\ conn[c] = "out" /\ conn' = [conn EXCEPT ![c] = "backlog"]
  /\ UNCHANGED <<sent, unread, hungUp, output, active, num_reqs, exiting, pc, reply>>

Send(c, n) ==
  /\ conn[c] \in {"backlog", "open"} /\ sent[c] = None /\ c \notin hungUp
  /\ sent' = [sent EXCEPT ![c] = n] /\ unread' = unread \cup {c}
  /\ UNCHANGED <<conn, hungUp, output, active, num_reqs, exiting, pc, reply>>

\* A client hangs up after its reply, or at any time.
HangUp(c) ==
  /\ conn[c] \in {"backlog", "open"} /\ c \notin hungUp /\ hungUp' = hungUp \cup {c}
  /\ UNCHANGED <<conn, sent, unread, output, active, num_reqs, exiting, pc, reply>>

Ready ==
  {Callback("accept", None) : c \in {d \in Clients : conn[d] = "backlog"}}
    \cup {Callback("input", c) : c \in {d \in unread \cup hungUp : conn[d] = "open"}}
    \cup {Callback("output", c) : c \in {d \in Clients : output[d] # None}}

\* One round of event_base_dispatch.
Poll ==
  /\ pc = "wait" /\ Ready # {} /\ active' = Ready /\ pc' = "round"
  /\ UNCHANGED <<conn, sent, unread, hungUp, output, num_reqs, exiting, reply>>

EndRound ==
  /\ pc = "round" /\ active = {} /\ pc' = IF exiting THEN "exited" ELSE "wait"
  /\ UNCHANGED <<conn, sent, unread, hungUp, output, active, num_reqs, exiting, reply>>

do_accept(c) ==
  /\ pc = "round" /\ Callback("accept", None) \in active /\ conn[c] = "backlog"
  /\ active' = active \ {Callback("accept", None)} /\ conn' = [conn EXCEPT ![c] = "open"]
  /\ UNCHANGED <<sent, unread, hungUp, output, num_reqs, exiting, pc, reply>>

\* The loop reads the connection and calls readcb with what a client sent.
readcb(c) ==
  /\ pc = "round" /\ Callback("input", c) \in active /\ c \in unread
  /\ active' = active \ {Callback("input", c)} /\ unread' = unread \ {c}
  /\ IF sent[c] \in Files THEN output' = [output EXCEPT ![c] = sent[c]] /\ UNCHANGED pc
     ELSE pc' = "failed" /\ UNCHANGED output
  /\ UNCHANGED <<conn, sent, hungUp, num_reqs, exiting, reply>>

\* End of file, or an error: the client has reset the connection, which a read or
\* a write of the loop finds.  What is left to read and to send goes with the
\* connection; only an end of file is counted.
errorcb(c) ==
  /\ pc = "round" /\ c \in hungUp
  /\ \/ /\ Callback("input", c) \in active /\ c \notin unread
        /\ num_reqs' = num_reqs - 1 /\ exiting' = (exiting \/ num_reqs' = 0)
     \/ /\ \E kind \in {"input", "output"} : Callback(kind, c) \in active
        /\ UNCHANGED <<num_reqs, exiting>>
  /\ active' = {a \in active : a[2] # c} /\ unread' = unread \ {c}
  /\ conn' = [conn EXCEPT ![c] = "closed"] /\ output' = [output EXCEPT ![c] = None]
  /\ UNCHANGED <<sent, hungUp, pc, reply>>

WriteOutput(c) ==
  /\ pc = "round" /\ Callback("output", c) \in active
  /\ active' = active \ {Callback("output", c)}
  /\ reply' = [reply EXCEPT ![c] = output[c]] /\ output' = [output EXCEPT ![c] = None]
  /\ UNCHANGED <<conn, sent, unread, hungUp, num_reqs, exiting, pc>>

Server ==
  Poll \/ EndRound \/ \E c \in Clients : do_accept(c) \/ readcb(c) \/ errorcb(c) \/ WriteOutput(c)

Next ==
  \/ \E c \in Clients : Connect(c) \/ HangUp(c) \/ \E n \in Names : Send(c, n)
  \/ Server

Spec == Init /\ [][Next]_vars
-----------------------------------------------------------------------------
\* A client is sent the file it asked for; the server ends without an error when
\* numReqs clients have hung up, not before; a callback that is left in the round
\* has something to do and a connection that was not freed.
RepliesRight ==
  /\ \A c \in Clients : reply[c] \in {None, sent[c]}
  /\ pc = "exited" => Cardinality({c \in Clients : conn[c] = "closed"}) >= NumReqs
  /\ pc = "round" => active \subseteq Ready

\* The server ended, or has nothing to do and every client that is still there
\* has the file it asked for.
Finished ==
  \/ pc \in {"exited", "failed"}
  \/ /\ pc = "wait" /\ Ready = {}
     /\ \A c \in Clients : conn[c] = "open" => reply[c] = sent[c]
=============================================================================
