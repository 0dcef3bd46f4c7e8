-------------------------------- MODULE Shell --------------------------------
(***************************************************************************)
(* The shell of projects/processes-shell/wish.c.  The commands of a line   *)
(* that are separated by & run in threads of their own, which share the    *)
(* array paths; main joins them before it reads the next line.  A step is  *)
(* a call or one access to paths, which nothing protects.  Redirection is  *)
(* left out, and so is cd: the directories of paths are absolute.          *)
(***************************************************************************)
EXTENDS Naturals, Sequences, SequencesExt

CONSTANTS Dirs,        \* directories that path is given; "/bin" is one
          InDirs,      \* those that hold the program that lines run
          MaxArgs,     \* bound on the arguments of path
          MaxLines,    \* bound on the lines of the input
          MaxCommands  \* bound on the commands of a line

VARIABLES lines,       \* the number of lines read
          mpc,         \* of main: "getline", "join" or "exited"
          command,     \* thread -> its command
          tpc, i,      \* thread -> where it is, and the i of its loop
          child,       \* thread -> its child: "none", "running" or "zombie"
          found,       \* thread -> the directory the program was found in
          paths,
          last,        \* history: the arguments of the path command before
          mixed        \* history: two path commands ran in one line

vars == <<lines, mpc, command, tpc, i, child, found, paths, last, mixed>>

None == "none"
Path(dirs) == [kind |-> "path", args |-> dirs]
Commands == {Path(dirs) : dirs \in BoundedSeq(Dirs, MaxArgs)}
              \cup {[kind |-> k, args |-> <<>>] : k \in {"run", "exit", "error"}}
\* paths[0] is element 1.  A path command writes up to two elements beyond.
Places == 1..(MaxArgs + 2)

Init ==
  /\ lines = 0 /\ mpc = "getline" /\ command = <<>> /\ tpc = <<>> /\ i = <<>> /\ child = <<>> /\ found = <<>>
  /\ paths = [k \in Places |-> IF k = 1 THEN "/bin" ELSE None]
  /\ last = <<"/bin">> /\ mixed = FALSE

\* main reads a line and creates a thread for every command.
ReadLine(cs) ==
  /\ mpc = "getline" /\ lines < MaxLines /\ lines' = lines + 1 /\ mpc' = "join"
  /\ command' = cs /\ tpc' = [t \in DOMAIN cs |-> "parse"] /\ i' = [t \in DOMAIN cs |-> 1]
  /\ child' = [t \in DOMAIN cs |-> None] /\ found' = [t \in DOMAIN cs |-> None]
  /\ LET pathCommands == {t \in DOMAIN cs : cs[t].kind = "path"} IN
       /\ last' = IF pathCommands = {} THEN last ELSE cs[CHOOSE t \in pathCommands : TRUE].args
       /\ mixed' = (mixed \/ \E t, u \in pathCommands : t # u)
  /\ UNCHANGED paths

Join ==
  /\ mpc = "join" /\ (\A t \in DOMAIN tpc : tpc[t] = "done") /\ mpc' = "getline"
  /\ UNCHANGED <<lines, command, tpc, i, child, found, paths, last, mixed>>

Eof ==
  /\ mpc = "getline" /\ mpc' = "exited"
  /\ UNCHANGED <<lines, command, tpc, i, child, found, paths, last, mixed>>

Goto(t, label) == tpc' = [tpc EXCEPT ![t] = label]

\* parseInput, up to the command that executeCommands chooses.
parseInput(t) ==
  /\ tpc[t] = "parse"
  /\ \/ command[t].kind = "error" /\ Goto(t, "done") /\ UNCHANGED <<mpc, paths>>
     \/ command[t].kind = "exit" /\ mpc' = "exited" /\ UNCHANGED <<tpc, paths>>
     \/ command[t].kind = "path" /\ Goto(t, "path") /\ paths' = [paths EXCEPT ![1] = None] /\ UNCHANGED mpc
     \/ command[t].kind = "run" /\ Goto(t, "search") /\ UNCHANGED <<mpc, paths>>
  /\ UNCHANGED <<lines, command, i, child, found, last, mixed>>

\* The loop of path, and the NULL behind it, which is one place too far.
SetPath(t) ==
  LET n == Len(command[t].args) IN
  /\ tpc[t] = "path"
  /\ IF i[t] <= n
     THEN paths' = [paths EXCEPT ![i[t]] = command[t].args[i[t]]] /\ i' = [i EXCEPT ![t] = @ + 1] /\ UNCHANGED tpc
     ELSE paths' = [paths EXCEPT ![i[t] + 1] = None] /\ Goto(t, "done") /\ UNCHANGED i
  /\ UNCHANGED <<lines, mpc, command, child, found, last, mixed>>

\* searchPath reads paths[i] twice, once for the test and once for the name.
TestPath(t) ==
  /\ tpc[t] = "search" /\ Goto(t, IF paths[i[t]] = None THEN "done" ELSE "access")
  /\ UNCHANGED <<lines, mpc, command, i, child, found, paths, last, mixed>>

\* access fails for a name that NULL was printed into.
Access(t) ==
  /\ tpc[t] = "access"
  /\ IF paths[i[t]] \in InDirs
     THEN found' = [found EXCEPT ![t] = paths[i[t]]] /\ Goto(t, "fork") /\ UNCHANGED i
     ELSE i' = [i EXCEPT ![t] = @ + 1] /\ Goto(t, "search") /\ UNCHANGED found
  /\ UNCHANGED <<lines, mpc, command, child, paths, last, mixed>>

fork(t) ==
  /\ tpc[t] = "fork"
  /\ \/ Goto(t, "waitpid") /\ child' = [child EXCEPT ![t] = "running"]
     \/ Goto(t, "done") /\ UNCHANGED child
  /\ UNCHANGED <<lines, mpc, command, i, found, paths, last, mixed>>

waitpid(t) ==
  /\ tpc[t] = "waitpid" /\ child[t] = "zombie" /\ Goto(t, "done")
  /\ child' = [child EXCEPT ![t] = None]
  /\ UNCHANGED <<lines, mpc, command, i, found, paths, last, mixed>>

\* The program ends, or execv fails and the child returns from parseInput, its
\* only thread.
ChildExit(t) ==
  /\ child[t] = "running" /\ child' = [child EXCEPT ![t] = "zombie"]
  /\ UNCHANGED <<lines, mpc, command, tpc, i, found, paths, last, mixed>>

Thread(t) ==
  /\ mpc # "exited"
  /\ parseInput(t) \/ SetPath(t) \/ TestPath(t) \/ Access(t) \/ fork(t) \/ waitpid(t)

Next ==
  \/ \E n \in 0..MaxCommands : \E cs \in [1..n -> Commands] : ReadLine(cs)
  \/ Join \/ Eof
  \/ \E t \in DOMAIN tpc : Thread(t) \/ ChildExit(t)

Spec == Init /\ [][Next]_vars
-----------------------------------------------------------------------------
\* paths is read and written within its bounds.
TypeOK == \A t \in DOMAIN tpc : tpc[t] # "done" => i[t] \in Places

\* When the shell reads a line, every program of the lines before has ended and
\* has been waited for.
LineByLine == mpc = "getline" => \A t \in DOMAIN child : child[t] = None

\* The directories that searchPath goes through.
Searched == LET ends == {k \in Places : paths[k] = None}
                n == (CHOOSE k \in ends : \A m \in ends : k <= m) - 1
            IN SubSeq(paths, 1, n)

\* Unless two path commands ran in one line, the directories searched between
\* two lines are those of the last path command and at most one more, which a
\* longer path left behind (line 141 clears the place after that one).
AtMostOneStale ==
  mpc = "getline" /\ ~mixed =>
    IsPrefix(last, Searched) /\ Len(Searched) <= Len(last) + (IF last = <<>> THEN 0 ELSE 1)

\* The shell ended.
Finished == mpc = "exited"
=============================================================================
