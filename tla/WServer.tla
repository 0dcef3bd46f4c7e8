------------------------------- MODULE WServer -------------------------------
(***************************************************************************)
(* projects/concurrency-webserver/wserver.c: a master thread accepts       *)
(* connections and puts them into a buffer of slots, worker threads take   *)
(* them out in FIFO order or smallest file first (SFF).  Labels are line   *)
(* numbers of the source.  The semaphores are the Zem_t of module Zem,     *)
(* used here through what that module shows of them.  A file descriptor    *)
(* is the lowest free one, as the kernel hands them out, so descriptors    *)
(* are reused.                                                             *)
(***************************************************************************)
EXTENDS SemThreads, Sequences, FiniteSetsExt

CONSTANTS Pools,         \* the sets of workers to consider (option -t)
          MaxBuffers,    \* bound on the slots (option -b)
          SchedAlgs,     \* the values of option -s to consider
          MaxConns,      \* bound on the connections that clients open
          MaxFds,        \* the descriptors available for connections
          Sizes,         \* the sizes of the files that clients ask for
          HeapFds        \* what malloc may leave in the field fd of a slot

ASSUME WServerConstants ==
  /\ MaxBuffers \in Nat \ {0} /\ MaxConns \in Nat /\ MaxFds \in Nat
  /\ SchedAlgs \subseteq {"FIFO", "SFF"}
  /\ \A pool \in Pools : IsFiniteSet(pool) /\ "main" \notin pool
  /\ Sizes \subseteq Nat /\ HeapFds \subseteq {0, MaxFds + 1}

VARIABLES buffers, schedalg,   \* the options
          hangups,       \* whether clients hang up inside their headers
          buffer, use, fill,
          conn_fd,       \* main's local
          useCopy,       \* the workers' local
          owner,         \* owner[fd]: the connection open on fd, or 0
          accepted,      \* number of connections accepted so far
          handed,        \* history: the connections put into the buffer
          served         \* history: the connections answered by a worker

options == <<buffers, schedalg, hangups>>
kernel == <<owner, accepted>>
slots == <<buffer, use, fill>>
vars == <<pc, sem, options, slots, conn_fd, useCopy, kernel, handed, served>>

Slots == 0..(buffers - 1)
Fds == 1..MaxFds
Conns == 1..MaxConns
Workers == DOMAIN useCopy

\* A slot of the array that malloc returned (line 86): nothing has written it.
BadFd == MaxFds + 1
Uninitialised == {[fd |-> f, size |-> 0, handling |-> 0] : f \in HeapFds}

Init ==
  /\ buffers \in 1..MaxBuffers /\ schedalg \in SchedAlgs /\ hangups \in BOOLEAN
  /\ \E pool \in Pools :
       /\ pc = [t \in pool \cup {"main"} |-> IF t = "main" THEN "106" ELSE "15"]
       /\ useCopy = [w \in pool |-> 0]
  /\ sem = [s \in {"full", "empty", "mutex"} |->
              CASE s = "full" -> 0 [] s = "empty" -> buffers [] s = "mutex" -> 1]
  /\ buffer \in [Slots -> Uninitialised]
  /\ use = 0 /\ fill = 0
  /\ conn_fd = 0
  /\ owner = [f \in 0..BadFd |-> 0]
  /\ accepted = 0
  /\ handed = <<>> /\ served = <<>>
-----------------------------------------------------------------------------
\* Line 107.  The call may fail at any time, and fails without a free descriptor.
accept ==
  /\ UNCHANGED <<options, slots, useCopy, handed, served>>
  /\ \/ /\ accepted < MaxConns
        /\ \E f \in Fds :
             /\ owner[f] = 0 /\ \A g \in Fds : g < f => owner[g] # 0
             /\ conn_fd' = f
             /\ owner' = [owner EXCEPT ![f] = accepted + 1]
        /\ accepted' = accepted + 1
        /\ LocalStep("main", "107", "116")
     \/ LocalStep("main", "107", "109") /\ UNCHANGED <<conn_fd, kernel>>

\* Lines 118-124, with pre_handle_request of request.c: a bad request is
\* answered there (and its descriptor stays open), a good one is stored.
pre_handle ==
  /\ UNCHANGED <<options, use, conn_fd, useCopy, kernel, served>>
  /\ \/ /\ LocalStep("main", "118", "125")
        /\ \E s \in Sizes :
             buffer' = [buffer EXCEPT ![fill] = [fd |-> conn_fd, size |-> s, handling |-> 0]]
        /\ fill' = (fill + 1) % buffers
        /\ handed' = Append(handed, owner[conn_fd])
     \/ LocalStep("main", "118", "119") /\ UNCHANGED <<buffer, fill, handed>>

\* request_read_headers (request.c:47-55) on a connection that ends before the
\* empty line: readline returns 0 for ever, and main loops with the mutex held.
read_headers_HungUp ==
  /\ hangups
  /\ LocalStep("main", "118", "51") \/ LocalStep("main", "51", "51")
  /\ UNCHANGED <<options, slots, conn_fd, useCopy, kernel, handed, served>>

main ==
  \/ accept
  \/ pre_handle
  \/ read_headers_HungUp
  \/ /\ \/ WaitStep("main", "106", "empty", "107")
        \/ PostStep("main", "109", "empty", "106")
        \/ WaitStep("main", "116", "mutex", "118")
        \/ PostStep("main", "119", "mutex", "120")
        \/ PostStep("main", "120", "empty", "106")
        \/ PostStep("main", "125", "mutex", "126")
        \/ PostStep("main", "126", "full", "106")
     /\ UNCHANGED <<options, slots, conn_fd, useCopy, kernel, handed, served>>

\* Lines 23-34: the unhandled slot with the smallest file, the first of equals;
\* `use` when there is none.
Waiting == {i \in Slots : buffer[i].handling = 0 /\ buffer[i].fd # 0}
Smallest ==
  IF Waiting = {} THEN use
  ELSE Min({i \in Waiting : \A j \in Waiting : buffer[i].size <= buffer[j].size})

\* Lines 17-38, with the mutex held.
TakeSlot(w) ==
  /\ LocalStep(w, "18", "39")
  /\ \/ /\ schedalg = "SFF"
        /\ useCopy' = [useCopy EXCEPT ![w] = Smallest]
        /\ buffer' = [buffer EXCEPT ![Smallest].handling = 1]
        /\ UNCHANGED use
     \/ /\ schedalg # "SFF"
        /\ useCopy' = [useCopy EXCEPT ![w] = use]
        /\ use' = (use + 1) % buffers
        /\ UNCHANGED buffer
  /\ UNCHANGED <<options, fill, conn_fd, kernel, handed, served>>

\* The place in the buffer is given back before the slot is used.
Serve_PostsFirst(w) ==
  /\ \/ PostStep(w, "44", "empty", "49") /\ UNCHANGED <<owner, served>>
     \/ /\ LocalStep(w, "49", "50")
        /\ served' = Append(served, owner[buffer[useCopy[w]].fd])
        /\ UNCHANGED owner
     \/ /\ LocalStep(w, "50", "15") /\ UNCHANGED served
        /\ owner' = [owner EXCEPT ![buffer[useCopy[w]].fd] = 0]
  /\ UNCHANGED <<options, slots, conn_fd, useCopy, accepted, handed>>

\* A worker that does not close the connection.
Serve_NoClose(w) ==
  /\ \/ /\ LocalStep(w, "44", "50")
        /\ served' = Append(served, owner[buffer[useCopy[w]].fd])
     \/ PostStep(w, "50", "empty", "15") /\ UNCHANGED served
  /\ UNCHANGED <<options, slots, conn_fd, useCopy, kernel, handed>>

\* Lines 44-50, without the mutex: the slot is read again for the answer and
\* for close, which does nothing with a descriptor that is not open.
Serve(w) ==
  /\ \/ /\ LocalStep(w, "44", "49")
        /\ served' = Append(served, owner[buffer[useCopy[w]].fd])
        /\ UNCHANGED owner
     \/ /\ LocalStep(w, "49", "50") /\ UNCHANGED served
        /\ owner' = [owner EXCEPT ![buffer[useCopy[w]].fd] = 0]
     \/ PostStep(w, "50", "empty", "15") /\ UNCHANGED <<owner, served>>
  /\ UNCHANGED <<options, slots, conn_fd, useCopy, accepted, handed>>

workerThread(w) ==
  \/ /\ \/ WaitStep(w, "15", "full", "16")
        \/ WaitStep(w, "16", "mutex", "18")
        \/ PostStep(w, "39", "mutex", "44")
     /\ UNCHANGED <<options, slots, conn_fd, useCopy, kernel, handed, served>>
  \/ TakeSlot(w)
  \/ Serve(w)

Next == main \/ \E w \in Workers : workerThread(w)

Spec == Init /\ [][Next]_vars
-----------------------------------------------------------------------------
TypeOK ==
  /\ pc \in [Workers \cup {"main"} ->
               {"15", "16", "18", "39", "44", "49", "50",
                "51", "106", "107", "109", "116", "118", "119", "120", "125", "126"}]
  /\ sem["mutex"] \in 0..1 /\ sem["full"] \in 0..buffers /\ sem["empty"] \in 0..buffers
  /\ buffer \in [Slots -> [fd : 0..BadFd, size : Sizes \cup {0}, handling : 0..1]]
  /\ use \in Slots /\ fill \in Slots
  /\ conn_fd \in 0..MaxFds /\ useCopy \in [Workers -> Slots]
  /\ owner \in [0..BadFd -> 0..MaxConns]

\* The threads that have taken a unit of empty or of full and not yet passed
\* it on.
Busy == {w \in Workers : pc[w] \in {"16", "18", "39", "44", "49", "50"}}
MainBusy == IF pc["main"] = "106" THEN 0 ELSE 1

\* Whatever main accepts, rejects or fails to accept, the places of the buffer
\* add up: each one is free, filled, or in the hands of exactly one thread.
Accounting == sem["empty"] + sem["full"] + Cardinality(Busy) + MainBusy = buffers

\* The options under which the slots are used in turn: one slot, or one worker
\* that takes them in FIFO order.
InTurn == buffers = 1 \/ (schedalg = "FIFO" /\ Cardinality(Workers) = 1)

\* From the choice of a slot at line 18 until line 50 nobody else writes it.
KeepsSlot(w) ==
  pc[w] \in {"39", "44", "49"} => buffer'[useCopy[w]] = buffer[useCopy[w]]

\* The access to the buffer is synchronised (the note at lines 112-115),
\* whatever the options: nobody writes the slot that a worker is serving.
SlotSynchronised == [][\A w \in Workers : KeepsSlot(w)]_vars

\* With one slot, or one FIFO worker, requests are answered in the order in
\* which main put them into the buffer, each on its own connection and only
\* once, although descriptors are reused.
InOrder ==
  InTurn => Len(served) <= Len(handed) /\ \A k \in 1..Len(served) : served[k] = handed[k]

\* The threads are at lines where such a thread can be and the indices within the
\* buffer; its places add up, and the requests are answered in order.
BufferRight == TypeOK /\ Accounting /\ InOrder

\* The requests in the buffer have been answered and their connections closed.
Served(c) == c \in Range(handed) => c \in Range(served) /\ c \notin Range(owner)
=============================================================================
