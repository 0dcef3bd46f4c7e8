----------------------------- MODULE EpollServer -----------------------------
(***************************************************************************)
(* The file server of 33/server_epoll.c: it answers numReqs requests, one  *)
(* per connection, and ends.  epoll_wait returns a batch of descriptors    *)
(* with input, in any order; while the batch is served, descriptors are    *)
(* closed and their numbers given out again by accept, the lowest free     *)
(* number first.  A request for a file that cannot be opened ends the      *)
(* server, and so does a client that hangs up without a request (its name  *)
(* is then the empty one).                                                 *)
(***************************************************************************)
EXTENDS Integers, FiniteSets, FiniteSetsExt

CONSTANTS Clients, Files, NumReqs

VARIABLES conn,       \* "out", "backlog", "open" or "closed"
          sent,       \* what a client sent, None before
          unread,     \* the clients whose request has not been received
          owner,      \* of a descriptor: a client, None if it is free
          evlist,     \* what is left of the batch
          pc, numReqs,
          reply       \* the file a client was sent

vars == <<conn, sent, unread, owner, evlist, pc, numReqs, reply>>

None == "none"
Names == Files \cup {"missing", "eof"}
sfd == 0
Fds == 1..Cardinality(Clients)

Init ==
  /\ conn = [c \in Clients |-> "out"] /\ sent = [c \in Clients |-> None] /\ unread = {}
  /\ owner = [d \in Fds |-> None] /\ evlist = {} /\ pc = "wait" /\ numReqs = NumReqs
  /\ reply = [c \in Clients |-> None]

Connect(c) ==
  /\ conn[c] = "out" /\ conn' = [conn EXCEPT ![c] = "backlog"]
  /\ UNCHANGED <<sent, unread, owner, evlist, pc, numReqs, reply>>

Send(c, n) ==
  /\ conn[c] \in {"backlog", "open"} /\ sent[c] = None
  /\ sent' = [sent EXCEPT ![c] = n] /\ unread' = unread \cup {c}
  /\ UNCHANGED <<conn, owner, evlist, pc, numReqs, reply>>

HasInput(d) ==
  IF d = sfd THEN \E c \in Clients : conn[c] = "backlog" ELSE owner[d] \in unread

Ready == {d \in Fds \cup {sfd} : HasInput(d)}

epoll_wait ==
  /\ pc = "wait" /\ numReqs > 0 /\ Ready # {}
  /\ pc' = "batch" /\ evlist' = Ready
  /\ UNCHANGED <<conn, sent, unread, owner, numReqs, reply>>

Accept(c) ==
  /\ pc = "batch" /\ sfd \in evlist /\ conn[c] = "backlog"
  /\ evlist' = evlist \ {sfd} /\ conn' = [conn EXCEPT ![c] = "open"]
  /\ owner' = [owner EXCEPT ![Min({d \in Fds : owner[d] = None})] = c]
  /\ UNCHANGED <<sent, unread, pc, numReqs, reply>>

\* recv, open, sendfile, and the two closes.
Serve(d) ==
  LET c == owner[d] IN
  /\ pc = "batch" /\ d \in evlist
  /\ evlist' = evlist \ {d} /\ unread' = unread \ {c}
  /\ IF sent[c] \in Files
     THEN /\ conn' = [conn EXCEPT ![c] = "closed"] /\ owner' = [owner EXCEPT ![d] = None]
          /\ reply' = [reply EXCEPT ![c] = sent[c]] /\ numReqs' = numReqs - 1
          /\ UNCHANGED pc
     ELSE pc' = "failed" /\ UNCHANGED <<conn, owner, reply, numReqs>>
  /\ UNCHANGED sent

EndBatch ==
  /\ pc = "batch" /\ evlist = {} /\ pc' = IF numReqs > 0 THEN "wait" ELSE "exited"
  /\ UNCHANGED <<conn, sent, unread, owner, evlist, numReqs, reply>>

Server == epoll_wait \/ (\E c \in Clients : Accept(c)) \/ (\E d \in Fds : Serve(d)) \/ EndBatch

Next ==
  \/ \E c \in Clients : Connect(c) \/ \E n \in Names : Send(c, n)
  \/ Server

Spec == Init /\ [][Next]_vars
-----------------------------------------------------------------------------
\* Open connections and descriptors in use are the same thing.
TypeOK ==
  /\ pc \in {"wait", "batch", "exited", "failed"}
  /\ \A c \in Clients : (conn[c] = "open") <=> Cardinality({d \in Fds : owner[d] = c}) = 1

\* What is left of the batch has input, so that no accept and no recv blocks,
\* though descriptors were closed and numbers given out since epoll_wait.
NeverBlocks == pc = "batch" => \A d \in evlist : HasInput(d)

\* A client is sent the file it asked for, and a server that ends without an
\* error has answered at least the requests it was started for.
RepliesRight ==
  /\ \A c \in Clients : reply[c] \in {None, sent[c]}
  /\ pc = "exited" => Cardinality({c \in Clients : reply[c] # None}) >= NumReqs

\* The server ended, or has nothing to do.
Finished == pc \in {"exited", "failed"} \/ (pc = "wait" /\ Ready = {})
=============================================================================
