----------------------------- MODULE Processes -----------------------------
(***************************************************************************)
(* Programs of chapter 5, which fork: 3.c (the parent says goodbye after   *)
(* the child said hello: "signal" and "pipe"), 8.c ("relay": a pipe from   *)
(* one child to the other), 2.c ("file": parent and child write to one     *)
(* open file), 9.c ("subreaper": main adopts its grandchild) and 4.c       *)
(* ("exec": one program after the other).                                  *)
(*                                                                         *)
(* Fork, exit, wait, pipes, signals and stdio are modelled from how the    *)
(* programs use them.  A message is printed at once on a terminal (tty);   *)
(* otherwise it stays in the buffer of the process, which fork copies,     *)
(* exec drops and exit writes.  A child may be killed at any time, or a    *)
(* call that a program checks may fail; one such mishap in a behaviour.    *)
(* Lines with process identifiers and what 2.c reads back are left out.    *)
(***************************************************************************)
EXTENDS Naturals, Sequences, FiniteSets

CONSTANTS MaxChars,   \* characters that each process writes in 2.c
          MaxExecs    \* programs that 4.c runs

VARIABLES prog, tty,  \* which program runs, and whether stdout is a terminal
          at,         \* at[p]: the statement p executes next; "none": not forked yet
          father,     \* father[p]: who may wait for p
          ends,       \* ends[p]: the ends of the pipe that p has open
          buf, out,   \* stdio buffers, and what was written to stdout
          sys,        \* what the processes share, and how often a loop ran
          mishap      \* "none", "killed": a child was, "failed": a call did

process == <<at, father, ends>>
stdio == <<buf, out>>
vars == <<prog, tty, process, stdio, sys, mishap>>

Procs == {"main", "c1", "c2"}
Kids == {"c1", "c2"}
Dead == {"zombie", "reaped"}

Init ==
  /\ prog \in {"signal", "pipe", "relay", "file", "subreaper", "exec"} /\ tty \in BOOLEAN
  /\ at = [p \in Procs |-> IF p = "main" THEN "start" ELSE "none"]
  /\ father = [p \in Procs |-> "init"] /\ ends = [p \in Procs |-> {}]
  /\ buf = [p \in Procs |-> <<>>] /\ out = <<>>
  /\ sys = [pending |-> FALSE, sigflag |-> FALSE,   \* SIGUSR1, in main
            piped |-> 0,                            \* bytes in the pipe
            file |-> <<>>, offset |-> 0,            \* 2.txt and the offset of its open file
            count |-> [p \in Procs |-> 0]]          \* rounds of the loops of 2.c and 4.c
  /\ mishap = "none"

At(name, p, s) == prog = name /\ at[p] = s /\ UNCHANGED <<prog, tty, mishap>>
Goto(p, s) == at' = [at EXCEPT ![p] = s] /\ UNCHANGED <<father, ends>>
-----------------------------------------------------------------------------
printf(p, m) ==
  IF tty THEN out' = Append(out, m) /\ UNCHANGED buf
         ELSE buf' = [buf EXCEPT ![p] = Append(@, m)] /\ UNCHANGED out

\* c starts with copies of the buffer and of the descriptors of p.
fork(p, next, c, first) ==
  /\ at' = [at EXCEPT ![p] = next, ![c] = first] /\ father' = [father EXCEPT ![c] = p]
  /\ ends' = [ends EXCEPT ![c] = ends[p]]
  /\ buf' = [buf EXCEPT ![c] = buf[p]] /\ UNCHANGED out

\* The children of a dead process go to the nearest subreaper, or to init.
Leave(p) ==
  LET heir == IF prog = "subreaper" /\ p # "main" THEN "main" ELSE "init"
  IN  /\ at' = [at EXCEPT ![p] = "zombie"] /\ ends' = [ends EXCEPT ![p] = {}]
      /\ father' = [q \in Procs |-> IF father[q] = p THEN heir ELSE father[q]]

\* Return from main, or exit: stdout is flushed.
exit(p) ==
  /\ Leave(p) /\ UNCHANGED sys
  /\ out' = out \o buf[p] /\ buf' = [buf EXCEPT ![p] = <<>>]

\* waitpid blocks until a child among S is dead.
waitpid(p, S, next) ==
  /\ \E c \in S : /\ at[c] = "zombie" /\ father[c] = p
                  /\ at' = [at EXCEPT ![c] = "reaped", ![p] = next]
  /\ UNCHANGED <<father, ends, stdio, sys>>

\* Steps that only print, and steps that do not print.
Prints(name, p, from, to, m) == At(name, p, from) /\ Goto(p, to) /\ printf(p, m) /\ UNCHANGED sys
Does(name, p, from, to) == At(name, p, from) /\ Goto(p, to) /\ UNCHANGED stdio
Has(p, S) == ends' = [ends EXCEPT ![p] = S]
Pipes(name, p, from, to, S) ==
  At(name, p, from) /\ at' = [at EXCEPT ![p] = to] /\ Has(p, S) /\ UNCHANGED <<father, stdio>>

exits(name) == \E p \in Procs : At(name, p, "exit") /\ exit(p)
-----------------------------------------------------------------------------
\* SIGUSR1 is not blocked: it may come between the test of sigflag and sigsuspend.
sig_handler_NotBlocked ==
  /\ sys.pending /\ sys' = [sys EXCEPT !.pending = FALSE, !.sigflag = TRUE]
  /\ Goto("main", IF at["main"] = "suspended" THEN "while" ELSE at["main"])
  /\ UNCHANGED <<prog, tty, mishap, stdio>>

\* SIGUSR1 is blocked except while main sleeps in sigsuspend.
sig_handler ==
  /\ sys.pending /\ at["main"] = "suspended"
  /\ sys' = [sys EXCEPT !.pending = FALSE, !.sigflag = TRUE] /\ Goto("main", "while")
  /\ UNCHANGED <<prog, tty, mishap, stdio>>

wait_with_signal ==
  \/ Prints("signal", "main", "start", "fork", "wait with")
  \/ At("signal", "main", "fork") /\ fork("main", "while", "c1", "hello") /\ UNCHANGED sys
  \/ Prints("signal", "c1", "hello", "kill", "hello")
  \/ Does("signal", "c1", "kill", "exit") /\ sys' = [sys EXCEPT !.pending = TRUE]
  \/ ~sys.sigflag /\ Does("signal", "main", "while", "sigsuspend") /\ UNCHANGED sys
  \/ Does("signal", "main", "sigsuspend", "suspended") /\ UNCHANGED sys
  \/ sig_handler
  \/ sys.sigflag /\ Prints("signal", "main", "while", "exit", "goodbye")
  \/ exits("signal")

\* A read that does not block.
read_NoBlock(name, p, from, to) == Does(name, p, from, to)

\* read blocks until there is something to read or nobody has the other end.
read(name, p, from, to) ==
  /\ sys.piped > 0 \/ \A q \in Procs : "w" \notin ends[q]
  /\ Does(name, p, from, to)

wait_with_pipe ==
  \/ Prints("pipe", "main", "start", "pipe", "wait with")
  \/ Pipes("pipe", "main", "pipe", "fork", {"r", "w"}) /\ UNCHANGED sys
  \/ At("pipe", "main", "fork") /\ fork("main", "close", "c1", "hello") /\ UNCHANGED sys
  \/ Prints("pipe", "c1", "hello", "close", "hello")
  \/ Pipes("pipe", "c1", "close", "write", {"w"}) /\ UNCHANGED sys
  \/ Does("pipe", "c1", "write", "exit") /\ sys' = [sys EXCEPT !.piped = 1]
  \/ Pipes("pipe", "main", "close", "read", {"r"}) /\ UNCHANGED sys
  \/ read("pipe", "main", "read", "goodbye") /\ sys' = [sys EXCEPT !.piped = 0]
  \/ Prints("pipe", "main", "goodbye", "exit", "goodbye")
  \/ exits("pipe")

\* main keeps both ends of the pipe.  The message is sent without its NUL into a
\* buffer that is not initialised: printf may go on behind it.
relay ==
  \/ Pipes("relay", "main", "start", "fork 0", {"r", "w"}) /\ UNCHANGED sys
  \/ At("relay", "main", "fork 0") /\ fork("main", "fork 1", "c1", "close") /\ UNCHANGED sys
  \/ Pipes("relay", "c1", "close", "write", {"w"}) /\ UNCHANGED sys
  \/ Does("relay", "c1", "write", "exit") /\ sys' = [sys EXCEPT !.piped = 1]
  \/ At("relay", "main", "fork 1") /\ fork("main", "wait 0", "c2", "close") /\ UNCHANGED sys
  \/ Pipes("relay", "c2", "close", "read", {"r"}) /\ UNCHANGED sys
  \/ read("relay", "c2", "read", "printf") /\ UNCHANGED sys
  \/ \E m \in IF sys.piped > 0 THEN {"message", "message and more"} ELSE {"garbage"} :
       Prints("relay", "c2", "printf", "exit", m)
  \/ At("relay", "main", "wait 0") /\ waitpid("main", {"c1"}, "wait 1")
  \/ At("relay", "main", "wait 1") /\ waitpid("main", {"c2"}, "exit")
  \/ exits("relay")

\* One character per fputc and fflush, at the offset that parent and child share.
write_to_file(p, from, to, c) ==
  /\ At("file", p, from) /\ UNCHANGED stdio
  /\ LET file == [k \in 1..(IF sys.offset = Len(sys.file) THEN sys.offset + 1 ELSE Len(sys.file)) |->
                    IF k = sys.offset + 1 THEN c ELSE sys.file[k]]
     IN  sys' = [sys EXCEPT !.file = file, !.offset = @ + 1, !.count[p] = @ + 1]
  /\ Goto(p, to)

share_file ==
  \/ At("file", "main", "start") /\ fork("main", "write", "c1", "write") /\ UNCHANGED sys
  \/ \E p \in {"main", "c1"} :
       \/ sys.count[p] < MaxChars /\ write_to_file(p, "write", "write", <<p, sys.count[p] + 1>>)
       \/ sys.count[p] = MaxChars /\ Does("file", p, "write", IF p = "main" THEN "wait" ELSE "exit")
          /\ UNCHANGED sys
  \/ At("file", "main", "wait") /\ waitpid("main", Kids, "end")
  \/ write_to_file("main", "end", "exit", <<"main", MaxChars + 1>>)
  \/ exits("file")

\* The second waitpid is for third_pid, which is 0 in main: any child.
subreaper ==
  \/ At("subreaper", "main", "start") /\ fork("main", "wait 2", "c1", "fork") /\ UNCHANGED sys
  \/ At("subreaper", "c1", "fork") /\ fork("c1", "exit", "c2", "getppid") /\ UNCHANGED sys
  \/ Prints("subreaper", "c2", "getppid", "exit", father["c2"])
  \/ At("subreaper", "main", "wait 2") /\ waitpid("main", {"c1"}, "wait 3")
  \/ At("subreaper", "main", "wait 3") /\ waitpid("main", Kids, "exit")
  \/ \* no child is left: waitpid returns -1
     /\ \A c \in Kids : father[c] = "main" => at[c] \in {"none", "reaped"}
     /\ Does("subreaper", "main", "wait 3", "exit") /\ UNCHANGED sys
  \/ exits("subreaper")

\* exec replaces the program, with what it has in its buffer; ls prints and ends.
exec ==
  /\ At("exec", "c1", "exec") /\ Leave("c1") /\ UNCHANGED sys
  /\ out' = Append(out, "ls") /\ buf' = [buf EXCEPT !["c1"] = <<>>]

\* main waits for every child but the last.  When two are still to come it prints
\* a line first, while the child runs.
execs ==
  \/ Prints("exec", "main", "start", "fork", "PATH")
  \/ /\ At("exec", "main", "fork")
     /\ LET n == sys.count["main"] + 1
        IN  /\ fork("main", IF n = MaxExecs THEN "exit" ELSE IF n + 2 = MaxExecs THEN "printf" ELSE "wait",
                    "c1", "heading")
            /\ sys' = [sys EXCEPT !.count["main"] = n]
  \/ Prints("exec", "main", "printf", "wait", "GNU")
  \/ Prints("exec", "c1", "heading", "exec", "heading")
  \/ exec
  \/ Does("exec", "c1", "exec", "exit") /\ UNCHANGED sys    \* errExit
  \/ At("exec", "main", "wait") /\ waitpid("main", {"c1"}, "fork")
  \/ exits("exec")

Run == wait_with_signal \/ wait_with_pipe \/ relay \/ share_file \/ subreaper \/ execs

\* The calls that a program checks, by the statements they are part of.
Checked ==
  {<<"signal", "main", "fork">>, <<"pipe", "main", "pipe">>, <<"pipe", "main", "fork">>,
   <<"relay", "main", "start">>, <<"relay", "main", "fork 0">>, <<"relay", "main", "fork 1">>,
   <<"file", "main", "start">>, <<"subreaper", "main", "start">>, <<"subreaper", "c1", "fork">>,
   <<"exec", "main", "fork">>}
    \cup {<<"file", p, "write">> : p \in {q \in {"main", "c1"} : sys.count[q] < MaxChars}}

\* A call fails, and the process that made it exits.
errExit ==
  /\ mishap = "none" /\ mishap' = "failed"
  /\ \E p \in Procs : <<prog, p, at[p]>> \in Checked /\ Goto(p, "exit")
  /\ UNCHANGED <<prog, tty, stdio, sys>>

\* What is in the buffer of a child that is killed is lost.
Kill ==
  /\ mishap = "none" /\ mishap' = "killed"
  /\ \E c \in Kids : /\ at[c] \notin Dead \cup {"none"} /\ Leave(c)
                     /\ buf' = [buf EXCEPT ![c] = <<>>]
  /\ UNCHANGED <<prog, tty, out, sys>>

Next == Run \/ Kill \/ errExit

Spec == Init /\ [][Next]_vars /\ WF_vars(Run)
-----------------------------------------------------------------------------
NoChild == \A c \in Kids : at[c] \in {"none", "reaped"}
Before(a, b) == \A k \in DOMAIN out : out[k] = b => \E j \in 1..(k - 1) : out[j] = a

\* 3.c: on a terminal "hello" comes before "goodbye", with the signal even if the
\* child is killed.  8.c: what the second child prints begins with what the first
\* one sent, or it prints nothing: read never returns early, since main has the
\* pipe open.  4.c: on a terminal only the line that main prints comes between a
\* heading and its ls.
OutputInOrder ==
  /\ prog \in {"signal", "pipe"} /\ tty /\ (mishap = "killed" => prog = "signal") => Before("hello", "goodbye")
  /\ \A k \in DOMAIN out : out[k] # "garbage"
  /\ prog = "exec" /\ tty =>
       LET programs == SelectSeq(out, LAMBDA m : m \in {"heading", "ls"})
       IN  \A k \in DOMAIN programs : programs[k] = "ls" => k > 1 /\ programs[k - 1] = "heading"

\* 2.c: parent and child interleave, but no character is lost or overwritten, and
\* the characters of each are in order.
FileWhole ==
  /\ Len(sys.file) = sys.offset
  /\ \A p \in {"main", "c1"} :
       prog = "file" => SelectSeq(sys.file, LAMBDA c : c[1] = p) = [k \in 1..sys.count[p] |-> <<p, k>>]

\* 8.c, 2.c, 9.c: when main ends it has waited for all its children, unless in
\* the first two it exits because a call of its own failed; in 9.c it has adopted
\* the grandchild, whose parent is never init.  4.c leaves at most the last child
\* to init.  Nothing is said of 3.c, whose main never waits.
NobodyLeft ==
  /\ prog \in {"relay", "file"} /\ mishap # "failed" /\ at["main"] = "zombie" => NoChild
  /\ prog = "subreaper" /\ at["main"] = "zombie" => NoChild
  /\ prog = "subreaper" => father["c2"] # "init" \/ at["c2"] \in {"none", "reaped"}
  /\ prog = "exec" /\ at["c1"] = "zombie" /\ father["c1"] = "init" => sys.count["main"] = MaxExecs

\* main ends, but a child that is killed before it sends its signal or its message
\* leaves 3.c -s and 8.c waiting for ever; 3.c -p notices.
Finished == at["main"] = "zombie" \/ (mishap = "killed" /\ prog \in {"signal", "relay"})
Ends == <>Finished
=============================================================================
