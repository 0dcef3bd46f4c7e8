----------------------------- MODULE UringServer -----------------------------
(***************************************************************************)
(* The file server of 33/server_io_uring.c: one thread hands operations to *)
(* the kernel and takes their completions from a queue.  A request goes    *)
(* through accept, recv, read and send; its state is an element of         *)
(* data_arr that every operation of the request carries.  The next accept  *)
(* is handed over with the recv of the connection before, with an element  *)
(* of its own.  The thread handles a completion in one step: the kernel    *)
(* sees what it prepared when it is submitted, at the end.                 *)
(***************************************************************************)
EXTENDS Naturals, Sequences, FiniteSets

CONSTANTS Clients, Files, NumReqs,
          Short    \* the files that are shorter than their names

VARIABLES conn,        \* "out", "backlog", "open" or "closed"
          sent,        \* what a client sent, None before
          data_arr,    \* index -> io_op, socket_fd (a client), file_fd and buf
          flight,      \* index -> the operation the kernel has, None if none
          cq,          \* completions: the index and whether res < 0
          numAccepts, numReqs, pc,
          reply        \* what a client received

vars == <<conn, sent, data_arr, flight, cq, numAccepts, numReqs, pc, reply>>

None == "none"
\* A directory opens and cannot be read; "eof" is a client that hangs up, whose
\* name is the empty one.
Names == Files \cup {"directory", "missing", "eof"}
Index == 0..(NumReqs - 1)

\* A buffer starts with the content of a file, and a name, or the end of one,
\* follows.
Zero == [text |-> None, rest |-> None]
Name(n) == [text |-> None, rest |-> n]
Content(n) == [text |-> n, rest |-> IF n \in Short THEN n ELSE None]

\* main up to its loop: the first accept is prepared.
Init ==
  /\ conn = [c \in Clients |-> "out"] /\ sent = [c \in Clients |-> None]
  /\ numReqs = NumReqs /\ numAccepts = NumReqs - 1
  /\ data_arr = [k \in Index |-> [io_op |-> IF k = NumReqs - 1 THEN "ACCEPT" ELSE None,
                                  socket_fd |-> None, file_fd |-> None, buf |-> Zero]]
  /\ flight = [k \in Index |-> IF k = NumReqs - 1 THEN "ACCEPT" ELSE None]
  /\ cq = <<>> /\ pc = "loop" /\ reply = [c \in Clients |-> Zero]

Connect(c) ==
  /\ conn[c] = "out" /\ conn' = [conn EXCEPT ![c] = "backlog"]
  /\ UNCHANGED <<sent, data_arr, flight, cq, numAccepts, numReqs, pc, reply>>

Send(c, n) ==
  /\ conn[c] \in {"backlog", "open"} /\ sent[c] = None /\ sent' = [sent EXCEPT ![c] = n]
  /\ UNCHANGED <<conn, data_arr, flight, cq, numAccepts, numReqs, pc, reply>>

(***************************************************************************)
(* The kernel.  It performs an operation when it can and appends its       *)
(* completion; operations of different indices complete in any order.      *)
(***************************************************************************)
Complete(k, res) == cq' = Append(cq, [index |-> k, res |-> res]) /\ flight' = [flight EXCEPT ![k] = None]

DoAccept(k, c) ==
  /\ flight[k] = "ACCEPT" /\ conn[c] = "backlog"
  /\ conn' = [conn EXCEPT ![c] = "open"] /\ Complete(k, c)
  /\ UNCHANGED <<sent, data_arr, numAccepts, numReqs, pc, reply>>

DoRecv(k) ==
  LET c == data_arr[k].socket_fd IN
  /\ flight[k] = "RECV" /\ sent[c] # None
  /\ data_arr' = [data_arr EXCEPT ![k].buf = IF sent[c] = "eof" THEN @ ELSE Name(sent[c])]
  /\ Complete(k, "ok")
  /\ UNCHANGED <<conn, sent, numAccepts, numReqs, pc, reply>>

\* The content overwrites the start of buf, where the name still is.
DoRead(k) ==
  LET n == data_arr[k].file_fd IN
  /\ flight[k] = "READ"
  /\ IF n = "directory" THEN Complete(k, "error") /\ UNCHANGED data_arr
     ELSE Complete(k, "ok") /\ data_arr' = [data_arr EXCEPT ![k].buf = Content(n)]
  /\ UNCHANGED <<conn, sent, numAccepts, numReqs, pc, reply>>

DoSend(k) ==
  /\ flight[k] = "SEND" /\ Complete(k, "ok")
  /\ reply' = [reply EXCEPT ![data_arr[k].socket_fd] = data_arr[k].buf]
  /\ UNCHANGED <<conn, sent, data_arr, numAccepts, numReqs, pc>>

Kernel ==
  \E k \in Index : \/ \E c \in Clients : DoAccept(k, c)
                   \/ DoRecv(k) \/ DoRead(k) \/ DoSend(k)

(***************************************************************************)
(* The thread                                                              *)
(***************************************************************************)
prep_recv_NoAccept(k, c) ==
  /\ data_arr' = [data_arr EXCEPT ![k] = [@ EXCEPT !.io_op = "RECV", !.socket_fd = c, !.buf = Zero]]
  /\ flight' = [flight EXCEPT ![k] = "RECV"] /\ UNCHANGED numAccepts

\* prep_recv, and prep_accept for the next connection while one is expected.
prep_recv(k, c) ==
  LET more == numAccepts > 0
      next == numAccepts - 1
      recv == [data_arr EXCEPT ![k] = [@ EXCEPT !.io_op = "RECV", !.socket_fd = c, !.buf = Zero]]
  IN /\ data_arr' = IF more THEN [recv EXCEPT ![next].io_op = "ACCEPT"] ELSE recv
     /\ flight' = [j \in Index |-> IF j = k THEN "RECV" ELSE IF more /\ j = next THEN "ACCEPT" ELSE flight[j]]
     /\ numAccepts' = IF more THEN next ELSE numAccepts

\* open fails for a name that is missing or empty, and the server ends.
prep_read(k) ==
  LET openable == {n \in Files \cup {"directory"} : data_arr[k].buf = Name(n)} IN
  IF openable = {} THEN pc' = "failed" /\ UNCHANGED <<data_arr, flight>>
  ELSE /\ data_arr' = [data_arr EXCEPT ![k].io_op = "READ", ![k].file_fd = CHOOSE n \in openable : TRUE]
       /\ flight' = [flight EXCEPT ![k] = "READ"] /\ UNCHANGED pc

prep_send(k) ==
  /\ data_arr' = [data_arr EXCEPT ![k].io_op = "SEND"] /\ flight' = [flight EXCEPT ![k] = "SEND"]

\* One turn of main's loop.
Handle ==
  /\ pc = "loop" /\ numReqs > 0 /\ cq # <<>> /\ cq' = Tail(cq)
  /\ LET k == Head(cq).index
         res == Head(cq).res
         op == data_arr[k].io_op
     IN \/ /\ res = "error" /\ pc' = "failed"
           /\ UNCHANGED <<conn, data_arr, flight, numAccepts, numReqs>>
        \/ /\ res # "error" /\ op = "ACCEPT" /\ prep_recv(k, res) /\ UNCHANGED <<conn, numReqs, pc>>
        \/ /\ res # "error" /\ op = "RECV" /\ prep_read(k) /\ UNCHANGED <<conn, numAccepts, numReqs>>
        \/ /\ res # "error" /\ op = "READ" /\ prep_send(k) /\ UNCHANGED <<conn, numAccepts, numReqs, pc>>
        \/ /\ res # "error" /\ op = "SEND" /\ conn' = [conn EXCEPT ![data_arr[k].socket_fd] = "closed"]
           /\ numReqs' = numReqs - 1 /\ UNCHANGED <<data_arr, flight, numAccepts, pc>>
  /\ UNCHANGED <<sent, reply>>

Exit ==
  /\ pc = "loop" /\ numReqs = 0 /\ pc' = "exited"
  /\ UNCHANGED <<conn, sent, data_arr, flight, cq, numAccepts, numReqs, reply>>

Next ==
  \/ \E c \in Clients : Connect(c) \/ \E n \in Names : Send(c, n)
  \/ Kernel \/ Handle \/ Exit

Spec == Init /\ [][Next]_vars
-----------------------------------------------------------------------------
\* An element of data_arr belongs to one request: it has at most one operation
\* in the kernel or in the queue of completions, and its io_op is that one's.
TypeOK ==
  /\ pc \in {"loop", "exited", "failed"} /\ numAccepts \in 0..NumReqs /\ numReqs \in 0..NumReqs
  /\ \A k \in Index : LET waiting == {i \in DOMAIN cq : cq[i].index = k} IN
       /\ Cardinality(waiting) + (IF flight[k] = None THEN 0 ELSE 1) <= 1
       /\ flight[k] # None => data_arr[k].io_op = flight[k]

\* A client receives the file it asked for, at most followed by the end of its
\* name, and nothing of another request, whatever the order in which the
\* operations of the requests complete; the server ends without an error when
\* it has answered NumReqs of them.
RepliesRight ==
  /\ \A c \in Clients : reply[c] \in {Zero, Content(sent[c])}
  /\ pc = "exited" => Cardinality({c \in Clients : reply[c] # Zero}) = NumReqs

\* The server ended, or waits for a client: nobody is left in the backlog unless
\* NumReqs clients were accepted, and no accepted client's request is unanswered.
Finished ==
  \/ pc \in {"exited", "failed"}
  \/ /\ cq = <<>> /\ \A k \in Index : flight[k] \in {None, "ACCEPT", "RECV"}
     /\ \A c \in Clients : conn[c] = "open" => sent[c] = None
     /\ \/ \A c \in Clients : conn[c] # "backlog"
        \/ Cardinality({c \in Clients : conn[c] \in {"open", "closed"}}) = NumReqs
=============================================================================
