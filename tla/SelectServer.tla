---------------------------- MODULE SelectServer ----------------------------
(***************************************************************************)
(* The file server of 33/server_select.c: one thread, pselect over the     *)
(* listening socket and the connections, and a FIFO cache of the files it  *)
(* has sent, which the signal SIGUSR1 empties.  The handler may run        *)
(* between any two of the steps below: outside pselect no signal is        *)
(* blocked.                                                                *)
(*                                                                         *)
(* A connection stands for its descriptor.  The listening socket has the   *)
(* lowest number, so it is served first in every round, and a number that  *)
(* is closed in a round is not given out again in that round.  The content *)
(* of a file is a version number; sizes, and names longer than a cache     *)
(* slot, are left out.                                                     *)
(*                                                                         *)
(* The slot gets its name before the file is read.  When the read fails    *)
(* the slot keeps the name beside what it held before, and the next        *)
(* request for that name is answered with it.                              *)
(***************************************************************************)
EXTENDS Naturals, FiniteSets, FiniteSetsExt

CONSTANTS Clients, Files,
          CACHE_NUM,
          MaxRequests,    \* bound on what the clients send
          MaxVersion,     \* bound on how often a file changes
          MaxResets       \* bound on the signals

VARIABLES conn,           \* "out", "backlog", "open" or "closed"
          inbox,          \* what a client sent and the server did not read
          requests,       \* what is left of MaxRequests
          pc, read_fd_set, cur, buffer, content_buffer,
          slot,           \* index of the cache that is at hand
          file_cache, file_cache_tail,
          version,        \* of each file
          resets,         \* what is left of MaxResets
          since,          \* the versions at the last reset
          need,           \* "since" and "resets" when the request at hand was read
          spoiled,        \* files whose last read failed after their name was cached
          reply           \* the last reply

vars == <<conn, inbox, requests, pc, read_fd_set, cur, buffer, content_buffer, slot,
          file_cache, file_cache_tail, version, resets, since, need, spoiled, reply>>
cacheVars == <<file_cache, file_cache_tail>>
worldVars == <<conn, inbox, requests, version, resets, since, spoiled>>

None == "none"
Sock == "sock"
\* Files open; another name does not, and one is forbidden.
Names == Files \cup {"missing", "forbidden"}
Empty == [file |-> None, version |-> 0]
NoReply == [name |-> None, content |-> Empty]
EmptyCache == [k \in 0..(CACHE_NUM - 1) |-> [file_name |-> None, content |-> Empty]]

Init ==
  /\ conn = [c \in Clients |-> "out"] /\ inbox = [c \in Clients |-> None]
  /\ requests = MaxRequests /\ resets = MaxResets
  /\ pc = "select" /\ read_fd_set = {} /\ cur = None /\ buffer = None /\ content_buffer = Empty /\ slot = 0
  /\ file_cache = EmptyCache /\ file_cache_tail = 0
  /\ version = [f \in Files |-> 1] /\ since = version /\ need = [since |-> since, resets |-> resets]
  /\ spoiled = {} /\ reply = NoReply

(***************************************************************************)
(* The clients, the files, and the signal                                  *)
(***************************************************************************)
\* A client whose connection is closed may come again.
Connect(c) ==
  /\ conn[c] \in {"out", "closed"} /\ requests > 0
  /\ inbox' = [inbox EXCEPT ![c] = None] /\ conn' = [conn EXCEPT ![c] = "backlog"]
  /\ UNCHANGED <<requests, pc, read_fd_set, cur, buffer, content_buffer, slot, cacheVars,
                 version, resets, since, need, spoiled, reply>>

Send(c, n) ==
  /\ conn[c] \in {"backlog", "open"} /\ inbox[c] = None /\ requests > 0
  /\ inbox' = [inbox EXCEPT ![c] = n] /\ requests' = requests - 1
  /\ UNCHANGED <<conn, pc, read_fd_set, cur, buffer, content_buffer, slot, cacheVars,
                 version, resets, since, need, spoiled, reply>>

Write(f) ==
  /\ version[f] < MaxVersion /\ version' = [version EXCEPT ![f] = @ + 1]
  /\ UNCHANGED <<conn, inbox, requests, pc, read_fd_set, cur, buffer, content_buffer, slot, cacheVars,
                 resets, since, need, spoiled, reply>>

\* reset_cache, the handler of SIGUSR1.
reset_cache ==
  /\ resets > 0 /\ resets' = resets - 1 /\ since' = version
  /\ file_cache' = EmptyCache /\ file_cache_tail' = 0
  /\ UNCHANGED <<conn, inbox, requests, pc, read_fd_set, cur, buffer, content_buffer, slot, version, need, spoiled, reply>>

(***************************************************************************)
(* main                                                                    *)
(***************************************************************************)
Ready ==
  {c \in Clients : conn[c] = "open" /\ inbox[c] # None}
    \cup (IF \E c \in Clients : conn[c] = "backlog" THEN {Sock} ELSE {})

Select ==
  /\ pc = "select" /\ Ready # {}
  /\ pc' = "round" /\ read_fd_set' = Ready
  /\ UNCHANGED <<worldVars, cur, buffer, content_buffer, slot, cacheVars, need, reply>>

Accept(c) ==
  /\ pc = "round" /\ Sock \in read_fd_set /\ conn[c] = "backlog"
  /\ conn' = [conn EXCEPT ![c] = "open"] /\ read_fd_set' = read_fd_set \ {Sock}
  /\ UNCHANGED <<inbox, requests, version, resets, since, spoiled, pc, cur, buffer, content_buffer, slot, cacheVars, need, reply>>

\* The locals of read_from_client are gone.
EndRound ==
  /\ pc = "round" /\ read_fd_set = {} /\ pc' = "select"
  /\ cur' = None /\ buffer' = None /\ content_buffer' = Empty /\ slot' = 0
  /\ need' = [since |-> since, resets |-> resets] /\ reply' = NoReply
  /\ UNCHANGED <<worldVars, read_fd_set, cacheVars>>

(***************************************************************************)
(* read_from_client; main closes the connection when it returns -1.        *)
(***************************************************************************)
Close(c) == conn' = [conn EXCEPT ![c] = "closed"] /\ pc' = "round"

\* read and the forbidden names.  A client that hangs up sends "eof"; one whose
\* connection is reset ends the server.
Read(c) ==
  /\ pc = "round" /\ Sock \notin read_fd_set /\ c \in read_fd_set
  /\ read_fd_set' = read_fd_set \ {c} /\ inbox' = [inbox EXCEPT ![c] = None]
  /\ cur' = c /\ buffer' = inbox[c] /\ need' = [since |-> since, resets |-> resets]
  /\ CASE inbox[c] = "reset" -> pc' = "failed" /\ UNCHANGED conn
       [] inbox[c] \in {"eof", "forbidden"} -> Close(c)
       [] OTHER -> pc' = "lookup" /\ UNCHANGED conn
  /\ UNCHANGED <<requests, version, resets, since, spoiled, content_buffer, slot, cacheVars, reply>>

\* The search stops at the first slot without a name; open follows a miss.
Hits ==
  {k \in DOMAIN file_cache : /\ file_cache[k].file_name = buffer
                             /\ \A m \in 0..k : file_cache[m].file_name # None}

Lookup ==
  /\ pc = "lookup"
  /\ IF Hits # {} THEN pc' = "hit" /\ slot' = Min(Hits) /\ UNCHANGED conn
     ELSE IF buffer = "missing" THEN Close(cur) /\ UNCHANGED slot
     ELSE pc' = "opened" /\ UNCHANGED <<conn, slot>>
  /\ UNCHANGED <<inbox, requests, version, resets, since, spoiled, read_fd_set, cur, buffer, content_buffer, cacheVars, need, reply>>

SendCached ==
  /\ pc = "hit" /\ pc' = "round"
  /\ reply' = [name |-> buffer, content |-> file_cache[slot].content]
  /\ UNCHANGED <<worldVars, read_fd_set, cur, buffer, content_buffer, slot, cacheVars, need>>

\* The index is read before the name is copied.
TakeTail ==
  /\ pc = "opened" /\ pc' = "naming" /\ slot' = file_cache_tail
  /\ UNCHANGED <<worldVars, read_fd_set, cur, buffer, content_buffer, cacheVars, need, reply>>

CopyName ==
  /\ pc = "naming" /\ pc' = "named"
  /\ file_cache' = [file_cache EXCEPT ![slot].file_name = buffer]
  /\ UNCHANGED <<worldVars, read_fd_set, cur, buffer, content_buffer, slot, file_cache_tail, need, reply>>

\* read of the file, close and send.  When the read fails, as that of a
\* directory does, the slot keeps the name.
ReadFile ==
  /\ pc = "named"
  /\ \/ /\ Close(cur) /\ spoiled' = spoiled \cup {buffer}
        /\ UNCHANGED <<content_buffer, reply>>
     \/ /\ content_buffer' = [file |-> buffer, version |-> version[buffer]]
        /\ reply' = [name |-> buffer, content |-> content_buffer']
        /\ spoiled' = spoiled \ {buffer}
        /\ pc' = "sent" /\ UNCHANGED conn
  /\ UNCHANGED <<inbox, requests, version, resets, since, read_fd_set, cur, buffer, slot, cacheVars, need>>

\* file_cache_tail++ and the copy are two steps for the handler.
TakeSlot ==
  /\ pc = "sent" /\ pc' = "taken"
  /\ slot' = file_cache_tail /\ file_cache_tail' = file_cache_tail + 1
  /\ UNCHANGED <<worldVars, read_fd_set, cur, buffer, content_buffer, file_cache, need, reply>>

CopyContent_WithName ==
  /\ pc = "taken" /\ pc' = "round"
  /\ file_cache' = [file_cache EXCEPT ![slot] = [file_name |-> buffer, content |-> content_buffer]]
  /\ file_cache_tail' = IF file_cache_tail = CACHE_NUM THEN 0 ELSE file_cache_tail
  /\ UNCHANGED <<worldVars, read_fd_set, cur, buffer, content_buffer, slot, need, reply>>

CopyContent ==
  /\ pc = "taken" /\ pc' = "round"
  /\ file_cache' = [file_cache EXCEPT ![slot].content = content_buffer]
  /\ file_cache_tail' = IF file_cache_tail = CACHE_NUM THEN 0 ELSE file_cache_tail
  /\ UNCHANGED <<worldVars, read_fd_set, cur, buffer, content_buffer, slot, need, reply>>

Server ==
  \/ Select \/ (\E c \in Clients : Accept(c) \/ Read(c)) \/ EndRound
  \/ Lookup \/ SendCached \/ TakeTail \/ CopyName \/ ReadFile \/ TakeSlot \/ CopyContent

Next ==
  \/ \E c \in Clients : Connect(c) \/ \E n \in Names \cup {"eof", "reset"} : Send(c, n)
  \/ \E f \in Files : Write(f)
  \/ reset_cache \/ Server

Spec == Init /\ [][Next]_vars
-----------------------------------------------------------------------------
\* The tail is an index of the cache whenever a name is copied to it.
TypeOK ==
  /\ pc \in {"select", "round", "lookup", "hit", "opened", "naming", "named", "sent", "taken", "failed"}
  /\ file_cache_tail \in 0..(CACHE_NUM - 1) \/ (pc = "taken" /\ file_cache_tail = CACHE_NUM)

\* A file whose last read did not fail is answered with its own content, and not
\* with one that is older than the last reset of the cache before the request was
\* read, wherever the handler ran; a reset while the request is served may leave
\* an empty reply.  One whose last read failed may be answered with whatever the
\* slot held that its name was put on.
RepliesFresh ==
  reply.name \in Files \ spoiled /\ pc = "round" /\ cur # None /\ buffer = reply.name =>
    \/ reply.content = Empty /\ resets < need.resets
    \/ reply.content.file = reply.name /\ reply.content.version >= need.since[reply.name]

\* Every client was accepted, and everything it sent was read, or a connection
\* was reset.
Finished == pc = "failed" \/ (pc = "select" /\ Ready = {})
=============================================================================
