------------------------------- MODULE CgiWait -------------------------------
(***************************************************************************)
(* request_serve_dynamic of projects/concurrency-webserver/request.c       *)
(* (lines 100-125), run by several worker threads of one process: each     *)
(* forks a child that runs the CGI program and then calls wait(NULL),      *)
(* which returns for any child of the process.  Labels are line numbers.   *)
(***************************************************************************)
EXTENDS Integers, FiniteSets

CONSTANTS Workers,
          Children     \* process identifiers; one that was reaped is used again

VARIABLES pc,        \* pc[w]: "idle", or a line of request_serve_dynamic
          parent,    \* parent[c]: the worker that created child c
          state      \* state[c]: "none", "running" or "zombie"

vars == <<pc, parent, state>>

Init ==
  /\ pc = [w \in Workers |-> "idle"]
  /\ parent = [c \in Children |-> CHOOSE w \in Workers : TRUE]
  /\ state = [c \in Children |-> "none"]

\* A worker gets a request for dynamic content, or fails to write the first
\* line of the answer (line 110) and returns.
request_serve_dynamic(w) ==
  /\ \/ pc[w] = "idle" /\ pc' = [pc EXCEPT ![w] = "109"]
     \/ pc[w] = "109" /\ \E next \in {"112", "idle"} : pc' = [pc EXCEPT ![w] = next]
  /\ UNCHANGED <<parent, state>>

\* Line 112: fork_or_die, in the parent.
fork(w) ==
  /\ pc[w] = "112"
  /\ \E c \in Children :
       /\ state[c] = "none"
       /\ parent' = [parent EXCEPT ![c] = w]
       /\ state' = [state EXCEPT ![c] = "running"]
  /\ pc' = [pc EXCEPT ![w] = "121"]

\* A wait that does not block, as waitpid with WNOHANG.
wait_NoHang(w) ==
  /\ pc[w] = "121"
  /\ \/ \E c \in Children : state[c] = "zombie" /\ state' = [state EXCEPT ![c] = "none"]
     \/ (\A c \in Children : state[c] # "zombie") /\ UNCHANGED state
  /\ pc' = [pc EXCEPT ![w] = "idle"]
  /\ UNCHANGED parent

\* Line 121: wait_or_die(NULL) returns when some child has ended.
wait(w) ==
  /\ pc[w] = "121"
  /\ \E c \in Children :
       /\ state[c] = "zombie"
       /\ state' = [state EXCEPT ![c] = "none"]
  /\ pc' = [pc EXCEPT ![w] = "idle"]
  /\ UNCHANGED parent

\* The CGI program ends.
Exit(c) ==
  /\ state[c] = "running"
  /\ state' = [state EXCEPT ![c] = "zombie"]
  /\ UNCHANGED <<pc, parent>>

Next ==
  \/ \E w \in Workers : request_serve_dynamic(w) \/ fork(w) \/ wait(w)
  \/ \E c \in Children : Exit(c)

Spec == Init /\ [][Next]_vars
-----------------------------------------------------------------------------
TypeOK ==
  /\ pc \in [Workers -> {"idle", "109", "112", "121"}]
  /\ parent \in [Children -> Workers]
  /\ state \in [Children -> {"none", "running", "zombie"}]

Unreaped == {c \in Children : state[c] \in {"running", "zombie"}}

\* Although a wait may take the child of another worker, there is one child
\* for every worker at line 121, so the assertion of wait_or_die
\* (io_helper.h:36) does not fail, and no child is left over.
OneChildEach == Cardinality(Unreaped) = Cardinality({w \in Workers : pc[w] = "121"})

\* When no more requests come, no worker stays at line 121.  (While they come,
\* the others may take every child that ends.)
WaitsEnd ==
  <>[][\A w \in Workers : pc[w] = "idle" => pc'[w] = "idle"]_vars
    => []<>(\A w \in Workers : pc[w] # "121")

=============================================================================
