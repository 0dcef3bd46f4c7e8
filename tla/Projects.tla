------------------------------ MODULE Projects ------------------------------
(***************************************************************************)
(* Programs of projects/ and of chapters 5 and 45 under TLC: a behaviour   *)
(* shows the parallel compressor (Pzip), the shell (Shell), the threads of *)
(* xv6 (Xv6Threads), the programs that fork (Processes) or the checksums   *)
(* (Checksums); the others are idle.                                       *)
(***************************************************************************)
EXTENDS Xv6Threads, Sequences, FiniteSets

CONSTANTS NP, PageSize, Chars, MaxSize, MaxFiles,         \* Pzip
          Dirs, InDirs, MaxArgs, MaxLines, MaxCommands,   \* Shell
          MaxChars, MaxExecs,                             \* Processes
          Digits, MaxText, BUFFSIZE, Bytes, MaxFile       \* Checksums

VARIABLES program,
          zpc, sem, files, terminal, works, use_ptr, fill_ptr, made, taken, cancelled, output,
          lines, mpc, command, tpc, i, child, found, paths, last, mixed,
          prog, tty, at, father, ends, buf, out, sys, mishap,
          tool, crc, text, pos, reg

zipVars == <<zpc, sem, files, terminal, works, use_ptr, fill_ptr, made, taken, cancelled, output>>
shellVars == <<lines, mpc, command, tpc, i, child, found, paths, last, mixed>>
forkVars == <<prog, tty, at, father, ends, buf, out, sys, mishap>>
sumVars == <<tool, crc, text, pos, reg>>
projectVars == <<program, vars, zipVars, shellVars, forkVars, sumVars>>

\* The CRC of crc.c over a few texts, and one of 4 bits over all short ones.
Ccitt == [bits |-> 16, poly |-> 4129, byte |-> 8]
Nibble == [bits |-> 4, poly |-> 3, byte |-> 4]
CrcTexts(c) ==
  IF c = Ccitt THEN {<<>>, <<65>>, [k \in 1..9 |-> 48 + k]} ELSE UNION {[1..k -> 0..15] : k \in 0..2}

Zip == INSTANCE Pzip WITH pc <- zpc
Wish == INSTANCE Shell
Forks == INSTANCE Processes
Sums == INSTANCE Checksums WITH Chars <- Digits, Crcs <- {Ccitt, Nibble}

ASSUME ProjectsConstants == Zip!PzipConstants

ProjectsInit ==
  /\ program \in {"pzip", "wish", "xv6", "forks", "checksums"}
  /\ Init /\ Wish!Init
  /\ Zip!Init /\ (program # "pzip" => files = <<<<>>>> /\ ~terminal)
  /\ Forks!Init /\ (program # "forks" => prog = "exec" /\ tty)
  /\ Sums!Init /\ (program # "checksums" => crc = Ccitt /\ text = <<>>)

Compress ==
  program = "pzip" /\ Zip!Next /\ UNCHANGED <<program, vars, shellVars, forkVars, sumVars>>
RunShell ==
  program = "wish" /\ Wish!Next /\ UNCHANGED <<program, vars, zipVars, forkVars, sumVars>>
RunKernel ==
  program = "xv6" /\ Next /\ UNCHANGED <<program, zipVars, shellVars, forkVars, sumVars>>
RunForks ==
  program = "forks" /\ Forks!Next /\ UNCHANGED <<program, vars, zipVars, shellVars, sumVars>>
RunSums ==
  program = "checksums" /\ Sums!Next /\ UNCHANGED <<program, vars, zipVars, shellVars, forkVars>>

\* The kernel runs every thread and process that is not blocked, and the programs
\* that the shell starts end; the input of the shell ends as well.
ProjectsSpec ==
  /\ ProjectsInit /\ [][Compress \/ RunShell \/ RunKernel \/ RunForks \/ RunSums]_projectVars
  /\ WF_zipVars(program = "pzip" /\ (Zip!CreateJob \/ Zip!CancelAndJoin))
  /\ \A w \in Zip!Workers : WF_zipVars(program = "pzip" /\ Zip!compress(w))
  /\ WF_shellVars(program = "wish" /\ (Wish!Join \/ Wish!Eof))
  /\ \A t \in 1..MaxCommands :
       WF_shellVars(program = "wish" /\ t \in DOMAIN tpc /\ (Wish!Thread(t) \/ Wish!ChildExit(t)))
  /\ WF_forkVars(program = "forks" /\ Forks!Run)
-----------------------------------------------------------------------------
\* A worker of pzip has a chunk that is there and its own; the shell reads a
\* line when every program of the lines before was waited for, and searches the
\* directories of the last path command and at most one that is left over.
WorkInOrder == Zip!WorkIsThere /\ Wish!LineByLine /\ Wish!AtMostOneStale

\* What pzip writes is the run-length encoding of its files.
OutputIsRle == Zip!OutputIsRle

\* Parent and child of 3.c, 8.c and 4.c print in the order that their pipe, signal
\* or wait is there for, in 2.c neither loses a character of the other, and main
\* of 8.c, 2.c and 9.c has waited for its children when it ends, that of 4.c for
\* all but the last.
OutputInOrder == Forks!OutputInOrder /\ Forks!FileWhole /\ Forks!NobodyLeft

\* The CRCs are remainders of polynomial division and notice every short burst,
\* Fletcher's sums are the weighted ones, and a check against the file that
\* create-csum.c wrote is right about a file with at most one byte changed.
ChecksumsRight ==
  Sums!CrcIsRemainder /\ Sums!BurstsDetected /\ Sums!FletcherIsWeighted /\ Sums!CsumDetects

\* pzip ends unless a worker dies with the mutex, the shell ends, and so do the
\* programs of chapter 5 unless a child that is waited for is killed.
ProjectsEnd ==
  <>(/\ program = "pzip" => Zip!PzipEnded
     /\ program = "wish" => Wish!Finished
     /\ program = "forks" => Forks!Finished)
=============================================================================
