-------------------------------- MODULE Pzip --------------------------------
(***************************************************************************)
(* projects/concurrency-pzip/pzip.c, as it is compiled (ALLOW_MULTIPLE_    *)
(* JOBS is defined): main cuts the files into chunks of a page, workers    *)
(* compress the chunks into runs, main cancels and joins the workers and   *)
(* writes the runs out, joining those that continue across chunks.  Labels *)
(* are line numbers of the source; a character is a number, 0 the '\0'.    *)
(***************************************************************************)
EXTENDS SemThreads, Sequences, FiniteSets, Functions, SequencesExt

CONSTANTS NP,            \* the number of workers: processors on line
          PageSize,
          Chars, MaxSize, MaxFiles     \* bounds on the files given to pzip

\* What the program relies on.
PzipConstants ==
  /\ NP \in Nat \ {0} /\ PageSize \in Nat \ {0} /\ MaxSize \in Nat /\ MaxFiles \in Nat
  /\ Chars \subseteq Nat

VARIABLES files,
          terminal,      \* stdout is a terminal: printf writes at once, which
                         \* makes line 85 a point where a thread is cancelled
          works, use_ptr, fill_ptr,
          made,          \* jobs created so far: main's i and offset
          taken,         \* taken[w]: the chunk worker w is compressing
          cancelled,     \* the workers that have been sent a cancellation
          output         \* what writeFile has written: a sequence of runs

vars == <<pc, sem, files, terminal, works, use_ptr, fill_ptr, made, taken, cancelled, output>>

Workers == 1..NP
Main == 0
Threads == Workers \cup {Main}

\* Lines 196-209.
chunks == FoldLeft(LAMBDA n, f : n + Len(f) \div PageSize + 1, 0, files)

\* Lines 231-252: the pages of a file, the last of them cut to what is left.
Pages(f) ==
  [k \in 1..((Len(f) + PageSize - 1) \div PageSize) |->
     SubSeq(f, (k - 1) * PageSize + 1, IF k * PageSize > Len(f) THEN Len(f) ELSE k * PageSize)]
Jobs == FlattenSeq([i \in 1..Len(files) |-> Pages(files[i])])

NotDone == [done |-> FALSE, runs |-> <<>>]

Init ==
  /\ files \in UNION {[1..n -> UNION {[1..m -> Chars] : m \in 0..MaxSize}] : n \in 1..MaxFiles}
  /\ terminal \in BOOLEAN
  /\ pc = [t \in Threads |-> IF t # Main THEN "79" ELSE IF Jobs = <<>> THEN "298" ELSE "245"]
  /\ sem = [s \in {"mutex", "full"} |-> IF s = "mutex" THEN 1 ELSE 0]
  /\ works = [k \in 1..chunks |-> [filled |-> FALSE, chunk |-> <<>>, results |-> NotDone]]
  /\ use_ptr = 0 /\ fill_ptr = 0 /\ made = 0
  /\ taken = [w \in Workers |-> 0]
  /\ cancelled = {}
  /\ output = <<>>
-----------------------------------------------------------------------------
\* Lines 94-118: the runs of a chunk; a run is <<count, character>>.
AddChar(runs, c) ==
  IF runs # <<>> /\ Last(runs)[2] = c THEN Front(runs) \o <<<<Last(runs)[1] + 1, c>>>>
  ELSE Append(runs, <<1, c>>)
Runs(chunk) == FoldLeft(AddChar, <<>>, chunk)

\* Lines 79-87.
TakeWork(w) ==
  \/ WaitStep(w, "79", "full", "80") /\ UNCHANGED <<use_ptr, taken>>
  \/ WaitStep(w, "80", "mutex", "83") /\ UNCHANGED <<use_ptr, taken>>
  \/ /\ LocalStep(w, "83", "98")
     /\ taken' = [taken EXCEPT ![w] = use_ptr + 1]
     /\ use_ptr' = (use_ptr + 1) % chunks

\* Lines 98-138, with the mutex held until the post.
DoWork(w) ==
  \/ /\ LocalStep(w, "98", "138")
     /\ works' = [works EXCEPT ![taken[w]].results =
                    [done |-> TRUE, runs |-> Runs(works[taken[w]].chunk)]]
  \/ PostStep(w, "138", "mutex", "79") /\ UNCHANGED works

\* sem_wait is a cancellation point, and printf is when it writes.
Die(w) ==
  /\ w \in cancelled
  /\ \/ LocalStep(w, "79", "dead")
     \/ LocalStep(w, "80", "dead")
     \/ terminal /\ LocalStep(w, "83", "dead")

compress(w) ==
  /\ \/ TakeWork(w) /\ UNCHANGED works
     \/ DoWork(w) /\ UNCHANGED <<use_ptr, taken>>
     \/ Die(w) /\ UNCHANGED <<works, use_ptr, taken>>
  /\ UNCHANGED <<files, terminal, fill_ptr, made, cancelled, output>>
-----------------------------------------------------------------------------
\* full is posted before the chunk is there.
CreateJob_PostsFirst ==
  /\ \/ PostStep(Main, "245", "full", "247") /\ UNCHANGED <<works, fill_ptr, made>>
     \/ /\ Goto(Main, "247", "270") /\ Sem_wait("mutex")
        /\ works' = [works EXCEPT ![fill_ptr + 1] =
                       [filled |-> TRUE, chunk |-> Jobs[made + 1], results |-> NotDone]]
        /\ fill_ptr' = (fill_ptr + 1) % chunks
        /\ made' = made + 1
     \/ /\ PostStep(Main, "270", "mutex", IF made < Len(Jobs) THEN "245" ELSE "298")
        /\ UNCHANGED <<works, fill_ptr, made>>
  /\ UNCHANGED <<files, terminal, use_ptr, taken, cancelled, output>>

\* Lines 245-271.
CreateJob ==
  /\ \/ WaitStep(Main, "245", "mutex", "247") /\ UNCHANGED <<works, fill_ptr, made>>
     \/ /\ LocalStep(Main, "247", "270")
        /\ works' = [works EXCEPT ![fill_ptr + 1] =
                       [filled |-> TRUE, chunk |-> Jobs[made + 1], results |-> NotDone]]
        /\ fill_ptr' = (fill_ptr + 1) % chunks
        /\ made' = made + 1
     \/ PostStep(Main, "270", "mutex", "271") /\ UNCHANGED <<works, fill_ptr, made>>
     \/ /\ PostStep(Main, "271", "full", IF made < Len(Jobs) THEN "245" ELSE "298")
        /\ UNCHANGED <<works, fill_ptr, made>>
  /\ UNCHANGED <<files, terminal, use_ptr, taken, cancelled, output>>

\* Lines 292-303: one worker after the other is cancelled and joined.
CancelAndJoin ==
  /\ \/ \E w \in Workers :
          /\ LocalStep(Main, "298", "299")
          /\ cancelled = 1..(w - 1)
          /\ cancelled' = 1..w
     \/ /\ \A w \in cancelled : pc[w] = "dead"
        /\ LocalStep(Main, "299", IF cancelled = Workers THEN "302" ELSE "298")
        /\ UNCHANGED cancelled
     \/ WaitStep(Main, "302", "mutex", "306") /\ UNCHANGED cancelled
  /\ UNCHANGED <<files, terminal, works, use_ptr, fill_ptr, made, taken, output>>

\* The results of the chunks in the order in which lines 308-385 visit them.
Results ==
  FlattenSeq([i \in 1..chunks |->
    LET rs == works[i].results.runs
    IN  [j \in 1..Len(rs) |-> [run |-> rs[j], first |-> j = 1, last |-> j = Len(rs),
                               lastChunk |-> i = chunks]]])

Write(m, runs) == [m EXCEPT !.out = @ \o runs]
Pending(m) == IF m.count > 0 THEN <<<<m.count, m.char>>>> ELSE <<>>

\* A run that continues the one before it, written as a run of its own.
Merge_NoJoin(m, r) ==
  LET n == r.run[1]
      c == r.run[2]
      keep(k) == [m EXCEPT !.count = k, !.char = c]
  IN  IF r.first /\ ~r.last THEN Write(m, Pending(m) \o <<<<n, c>>>>)
      ELSE IF ~r.last THEN Write(m, <<<<n, c>>>>)
      ELSE IF ~r.first
      THEN IF r.lastChunk THEN Write(m, <<<<n, c>>>>) ELSE keep(n)
      ELSE IF c = m.char
      THEN IF r.lastChunk THEN Write(m, <<<<n + m.count, c>>>>) ELSE keep(m.count + n)
      ELSE IF r.lastChunk THEN Write(m, Pending(m) \o <<<<n, c>>>>)
           ELSE Write(keep(n), Pending(m))

\* Lines 323-380: what is done with one result; m holds last_count, last_character
\* and what has been written.
Merge(m, r) ==
  LET n == r.run[1]
      c == r.run[2]
      keep(k) == [m EXCEPT !.count = k, !.char = c]
  IN  IF r.first /\ ~r.last
      THEN Write(m, IF c = m.char THEN <<<<n + m.count, c>>>> ELSE Pending(m) \o <<<<n, c>>>>)
      ELSE IF ~r.last THEN Write(m, <<<<n, c>>>>)
      ELSE IF ~r.first
      THEN IF r.lastChunk THEN Write(m, <<<<n, c>>>>) ELSE keep(n)
      ELSE IF c = m.char
      THEN IF r.lastChunk THEN Write(m, <<<<n + m.count, c>>>>) ELSE keep(m.count + n)
      ELSE IF r.lastChunk THEN Write(m, Pending(m) \o <<<<n, c>>>>)
           ELSE Write(keep(n), Pending(m))

\* Lines 306-401.  A chunk that no job filled is memory nobody wrote: its list
\* may be empty, or following it ends the program.
FinalCompress ==
  /\ \/ /\ LocalStep(Main, "306", "exit")
        /\ output' = FoldLeft(Merge, [count |-> 0, char |-> 0, out |-> <<>>], Results).out
     \/ /\ \E k \in 1..chunks : ~works[k].filled
        /\ LocalStep(Main, "306", "crash")
        /\ UNCHANGED output
  /\ UNCHANGED <<files, terminal, works, use_ptr, fill_ptr, made, taken, cancelled>>

main == CreateJob \/ CancelAndJoin \/ FinalCompress

Next == main \/ \E w \in Workers : compress(w)

Spec == Init /\ [][Next]_vars
-----------------------------------------------------------------------------
TypeOK ==
  /\ \A t \in Threads : pc[t] \in (IF t = Main
       THEN {"245", "247", "270", "271", "298", "299", "302", "306", "exit", "crash"}
       ELSE {"79", "80", "83", "98", "138", "dead"})
  /\ sem["mutex"] \in 0..1 /\ sem["full"] \in 0..Len(Jobs)
  /\ use_ptr \in 0..(chunks - 1) /\ fill_ptr \in 0..(chunks - 1)
  /\ made \in 0..Len(Jobs) /\ cancelled \subseteq Workers

\* A worker that compresses (line 98) has a chunk that main has filled and that
\* nobody else has compressed or is compressing, cancellations included.
WorkIsThere ==
  \A w \in Workers :
    pc[w] = "98" => /\ works[taken[w]].filled /\ ~works[taken[w]].results.done
                    /\ \A v \in Workers \ {w} : pc[v] = "98" => taken[v] # taken[w]

Text == FlattenSeq(files)
Expand(runs) == FlattenSeq([k \in 1..Len(runs) |-> [i \in 1..runs[k][1] |-> runs[k][2]]])
AllDone == \A k \in 1..chunks : works[k].results.done

\* When every chunk was filled and compressed, the output is the run-length
\* encoding of the files: it expands to their text, and no run continues the
\* one before it, although workers saw one page at a time (lines 306-388).
OutputIsRle ==
  pc[Main] = "exit" /\ AllDone =>
    /\ Expand(output) = Text
    /\ \A k \in 1..(Len(output) - 1) : output[k][2] # output[k + 1][2]

\* "use semaphore instead of mutex ... pthread_mutex_lock() is not a
\* cancellation point" (lines 75-78): main can join every worker, and when printf
\* is not a cancellation point inside the critical section no worker dies with
\* the mutex, so main gets it at line 302.
PzipEnded == pc[Main] \in {"306", "exit", "crash"} \/ (terminal /\ pc[Main] = "302")
=============================================================================
