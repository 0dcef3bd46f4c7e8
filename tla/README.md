# Verification of the OSTEP homework solutions

TLA+ specifications of the programs in this repository, which holds solutions to the homework and the projects of
*Operating Systems: Three Easy Pieces*. TLC checks them on small instances; TLAPS proves theorems about
fifteen of them for every value of the constants. `PROJECT.json` lists components, runs, mutants, findings, hazards and theorems,
and maps every definition to the source lines it stands for.

## 1. The system

The repository is a collection of independent programs. Nothing is shared between two programs but a header or two,
so a component is a program, and components interact in a few places only:

- every program of chapter 31 uses the semaphore wrappers of `31/common_threads.h`;
- the web server synchronises through `Zem_t` of its `thread_helper.h`, and its workers call `request.c`;
- the four file servers of chapter 33 serve the same client;
- `UDP-client.c` and `UDP-server.c` meet in `UDP-lib.h`;
- the xv6 system calls meet in the process table of `proc.c`; so do `clone` and `join` of the threads.

| Part | Sources | State | Modelled |
|---|---|---|---|
| semaphore programs | `31/*.c`, `31/common_threads.h` | semaphores, counters, queues, names in `/dev/shm` | yes |
| concurrent data structures | `29/*.c` | nodes, locks, counts | yes; the counter under one lock is not |
| web server | `projects/concurrency-webserver` | buffer of requests, `Zem_t`, descriptors, children | yes, without the texts of replies |
| parallel compressor | `projects/concurrency-pzip` | chunks, semaphores, cancellations | yes |
| shell | `projects/processes-shell` | `paths`, threads, children | without `cd`, redirection, word splitting |
| file servers | `33/server_*.c`, `client.c`, `connection.h` | connections, cache, requests under way | yes |
| datagrams | `48/UDP-lib.h`, client and server | semaphore, datagrams under way | yes; the two asynchronous drafts are not |
| xv6 scheduler | `projects/scheduling-xv6-lottery/src` | process table, locks, CPUs | without memory, files and `getpinfo` |
| file-system checker | `projects/filesystems-check/xcheck*.c` | the image, marks, counts, maps | the four versions; debug copies are not |
| xv6 threads | `projects/concurrency-xv6-threads/*.patch` | process table, page tables, the ticket lock | without sizes and user stacks |
| processes | `5/2.c`, `3.c`, `4.c`, `8.c`, `9.c` | processes, pipes, signals, a shared file | yes |
| checksums | `45/*.c` | running sums, registers, the checksum file | yes |
| null page, counter | other patches under `projects/` | page tables, a counter | no |
| utilities, file tools | `projects/initial-*`, `39` | none, sequential filters | no |
| other exercises | the rest of `5`, `6`, `13`, `14`, `19`, `21` | none | no |

The other directories hold written answers, plots and simulator parameters, and no program.

## 2. Conventions

- A label in `pc` is the line number of the statement that the thread executes next. A step is one access to shared
  state or one blocking call. Steps are merged only where a lock makes the merge invisible, and the module says so.
- A definition `Op_Slip` before `Op` is a mutant: a plausible slip in that code (a dropped guard, a swapped order). Every
  property of a passing run has one that violates it.
- A module without a configuration of its own is checked inside a *suite*: a module with a variable that selects which
  program a behaviour shows (`program`, `part`), and an `INSTANCE` of each program with its own variables.
  The other programs keep their initial state. A property of a suite is a conjunction of properties of its
  programs that say the same kind of thing, and holds exactly if each of them holds of its program.
- Fairness is stated in the suite, per thread, on the variables of the program that runs.

## 3. Modules and how they correspond to the code

### Chapter 31: semaphores

`SemThreads` has the steps `WaitStep`, `PostStep` and `LocalStep` all programs are made of; a semaphore is its value.
`NamedSem` has `Sem_open` with `O_EXCL`, its `EEXIST` branch and `Sem_unlink`, and a kill that leaves names behind.

| Module | Program | Worth knowing |
|---|---|---|
| `NoStarveMutex` | `mutex-nostarve.c` | rooms and turnstiles are the fields of `ns_mutex_t`; every access to `room1` and `room2` is a step, and `room2++` and `room2--`, which no lock of their own guards, are a load (into `reg`) and a store (`MutexSpec`). `Kill` ends a run at any point and starts the next over the names it left (`stale`): `Sem_open` then gives all three semaphores 1. `WeakSpec` adds POSIX's rule that a post lets one of the *blocked* threads return, which one being open, and the history `overtaken` |
| `ReaderWriter`, `ReaderWriterNoStarve` | `reader-writer.c`, `reader-writer-nostarve.c` | the four operations, called for ever |
| `RWLock` | abstract | `SafeSpec`: readers or one writer; `Progress`: everybody enters again and again. Without readers it is a mutex that starves nobody |
| `Locks` | suite of the two reader-writer locks and of `TicketLock` | |
| `Barrier` | `barrier.c` | every child passes the barrier `Rounds` times; main opens, creates, joins and unlinks. The proofs about it are in this module |
| `Rendezvous`, `ForkJoin` | `rendezvous.c`, `fork-join.c` | with runs that are killed and started again; in `ForkJoin` the orphaned child still posts |
| `Smokers`, `Savages` | `cigarette_smokers.c`, `dining_savages.c` | all orders of agents; all numbers of savages and pot sizes in bounds |
| `Barbershop`, `FifoBarbershop`, `HilzersBarbershop` | the three barbershops | entries are allocated and freed; main's cancel in the first. The proofs about the last two are in these modules |
| `SemPrograms` | suite of the eight programs from `Barrier` on | with the proofs about them; `ThreadCount` has the counting that these proofs use |

### Chapter 29: data structures

| Module | Program | Worth knowing |
|---|---|---|
| `ApproxCounter` | `approximate_counter.c` | every mapping of threads to CPUs, every threshold |
| `HandOverHandList`, `CoarseList` | the two lists | line by line; nodes come from a bounded heap, and `malloc` may fail in the second |
| `KeySet` | abstract | a set whose operations take effect at one moment between call and return |
| `Queue` | `concurrent_queue.c` | freed nodes can be handed out again; `Queue_Print` frees as it prints |
| `BTree` | `btree.c` | the threads hold the lock around all their puts, so a put is one step; keys are numbers |
| `ThreadPrograms` | suite of these five and of the eight programs of `SemPrograms`, which it extends | |

### Servers

| Module | Program | Worth knowing |
|---|---|---|
| `Zem` | `thread_helper.h` | mutex, condition variable, spurious wake-ups |
| `Semaphore` | abstract | a wait takes one unit that is there, a post adds one |
| `WServer` | `wserver.c`, `pre_handle_request`, `request_read_headers` | the semaphores are used through what `Zem` shows of them. Descriptors are the lowest free ones. A slot that was never written holds any value (`HeapFds`) |
| `CgiWait` | `request_serve_dynamic` | `fork` and `wait(NULL)` of several workers in one process |
| `SelectServer` | `server_select.c` | the handler of `SIGUSR1` runs between any two steps; the index of the cache is read before the copy. The content of a file is a version. A client may come back, reset its connection (the server exits), and a read of a file may fail with its name already in the cache (`spoiled`) |
| `EpollServer` | `server_epoll.c` | a batch is a set of descriptors served in any order; numbers are reused within the batch |
| `LibeventServer` | `server_libevent.c` | the callbacks of a round run in any order; `errorcb` runs for the end of the input and for an error; the loop of the library is external |
| `UringServer` | `server_io_uring.c` | the kernel completes operations in any order; `NO_DUP_ZERO` and `PARALLEL_ACCEPT_RECV` as compiled |
| `Udp` | `UDP-lib.h`, client and server | `calls` is the stack of the calls of `UDP_Write`, which `wait_ack` calls again at a timeout; datagrams keep their order on one machine and can be lost; a timeout can be early |
| `Servers` | suite of these but `Zem` | |

### Projects

| Module | Program | Worth knowing |
|---|---|---|
| `Pzip` | `pzip.c` | as compiled (`ALLOW_MULTIPLE_JOBS`); cancellation points are `sem_wait`, and `printf` if stdout is a terminal |
| `Shell` | `wish.c` | one thread per command of a line; the two reads of `paths[i]` in `searchPath` are two steps |
| `Xv6Threads` | `threads_asm.patch`: `clone`, `join`, `wait`, `exit` | what is done under `ptable.lock` is one step, the writes of `fork` and `clone` to the slot they fill are steps of their own. `fork`, `kill` and `allocproc` are xv6's and external. `pgdir` of a slot that `join` gave back stays as it was |
| `TicketLock` | the ticket lock of both patches | one action per instruction; ticket and turn wrap; a build may read `turn` once and keep it in a register, so progress is asked only of one that reads it again |
| `Projects` | suite of `Pzip`, `Shell`, `Xv6Threads`, and of the two modules below | |
| `Xv6Proc` | `proc.c`, `sysproc.c`, `syscall.c` | what a CPU does with `ptable.lock` is one step up to `swtch`; `fork`'s unlocked writes are steps. The draw is any number from 0 to the total, both included; the loop does not stop at the winner. The clock interrupt is external, `left` stands for the ticks a sleeper has to go. `kill(1)`, and exit and `settickets` by init, are left out |
| `Xcheck` | `xcheck.c` and the three contest versions | the version is a variable; one action is one iteration over the inodes, the scan of the bitmap, or one iteration of the second loop. The images for TLC are at the end of the module. A run starts with the image mapped, that of `xcheck_contest_3.c` with `-r` |

### Chapters 5 and 45

| Module | Program | Worth knowing |
|---|---|---|
| `Processes` | `5/3.c`, `8.c`, `2.c`, `9.c`, `4.c` | processes `main`, `c1`, `c2`; `fork` copies descriptors and the stdio buffer, which `exit` writes and `exec` drops; stdout is a terminal or not. One mishap per behaviour: a child is killed, at any time, or a call that the program checks fails and its process exits (`errExit`). `SIGUSR1` is blocked but in `sigsuspend` |
| `Checksums` | `45/crc.c`, `crc_orig_mod.c`, `check-xor.c`, `check-fletcher.c`, `create-csum.c`, `check-csum.c` | registers with their width, C's signed `%` and `char`; `create-csum.c` does not truncate its output; reads and writes of the last two may fail |

The versions of the checker share most of their text. The map therefore gives lines of the version in which a
definition is easiest to compare; where versions differ the definition has the variable `variant`.

## 4. Runs

`tlc -config <cfg> <module>` in this directory. Eight runs pass; four have a counterexample that is a finding (section 5).

**`mutex`** (`NoStarveMutex`, three workers). `TokenInv`: the tokens that a run starts with, one, or two when it found the
names of a killed run (section 5), are in `t1`, `t2` or a thread's hands; none is lost or made. `MutualExclusion`: as many threads
are let in. The rest is about runs that created their semaphores, but for `room1`, which is guarded in all of them. `RaceFree`: the
counters of the rooms, which different semaphores guard at different times, are never touched by two threads at once.
`BoundedBypass`: a thread counted in the first room sees each other thread enter
at most twice before it does, once with the batch that is leaving and once with its own. `ImplementsMutex`: refinement
of `RWLock` without readers, liveness included, which is what question 6 of the chapter asks for.

**`rwlock`** (`Locks`, three readers, two writers; three threads on the ticket lock). `WriterAlone`; `ImplementsRWLock`: `reader-writer.c` refines
`RWLock!SafeSpec`; `ImplementsFairRWLock`: so does `reader-writer-nostarve.c`, and it lets everybody in again and again. The
first lock does not promise that, and the run does not ask it. `InTicketOrder`: the tickets in use are distinct and follow
`turn`, also when they wrap. `TicketsAreMutex`: the ticket lock refines `RWLock` without readers, with
its progress if the build reads `turn` in every iteration.

**`zem`** (four threads). `NoLostWakeup`: while a thread sleeps, every unit of the value, but the one whose signal is still to
come, has an awake thread that will take it, although wake-ups can be spurious. `IsSemaphore`: refinement of `Semaphore`.
`UnitsAreTaken`: once no more calls are made, no sleeper stays next to a positive value.

**`thread_programs`** (`ThreadPrograms`). `NobodyEarly`: nobody passes a rendezvous, a barrier or a join on the token
of another round or an earlier run; the order of messages is asked of runs that found no names left behind. `HandshakesMatch`: smokers, cook, barbers and their semaphores, which name nobody,
serve the one that is meant. `EntriesValid`: entries of the barbershops' queues are there when announced and not used after
`free`, and FIFO means the order of arrival. `NothingLost`: global and local counts of the approximate counter add
up, the global one is behind by less than the threshold per CPU, and no node of the two-lock queue is used after `free`. `ListsAreSets`: both lists refine `KeySet`.
`TreeIsSearchable`: the B-tree is balanced, ordered, half full, and `search` finds what was put.
`AllFinish`: each program ends, and each call of a list or of the queue returns; `rendezvous.c` and `barrier.c` leave
`/dev/shm` clean. `barrier.c` does *not* end in some runs that find names left behind by a killed run: the comment at
`barrier.c:45` tells of threads stuck like this, and the property excludes it.

**`servers`** (`Servers`). `BufferRight`: each place of the web server's buffer is free, filled or held by one thread; with
one slot, or one FIFO worker, requests are answered in the order of the buffer, each once and on its own connection, although
descriptors are reused (`InOrder`). `Accounted`: there is one child for every worker in `wait(NULL)`, whoever created it;
the epoll server finds input at every descriptor of its batch, so that no call blocks it; an open connection has one descriptor, an element of `data_arr` one operation under way.
`RepliesRight`: a client gets the file it asked for, nothing of another request, and from the select server not older than the
last reset of the cache, unless the last read of that file failed (section 5); a message in datagrams arrives whole if none is lost and no timer is early, and an early timer makes pieces of
it arrive again and skips none. `AllServed` and `ServersRest` are the liveness properties; `ServersRest` says that no
`wait(NULL)` hangs and that the file servers and the writer of datagrams come to rest. It excepts a
client of the datagrams that reads an ack that was lost, since `UDP_Read` has no timeout.

**`projects`** (`Projects`). `WorkInOrder`: a worker of pzip has a chunk that is filled and its own, cancellation or not; the
shell waits for all programs of a line before the next. `OutputIsRle`: the output is the run-length encoding of the
concatenated files when every chunk was compressed, checked against a reference definition. `SpacesKept`: no slot of the
xv6 process table, in use or not, names a page table that was freed. `ExitsNoticed`: nobody sleeps in `wait` or `join`
through an exit or a kill. `OrphansAreThreads`: in xv6 only threads are left with a dead parent. `OutputInOrder`: parent and child of `3.c`, `8.c` and `4.c` print in the
order their signal, pipe or `wait` is there for (with the signal and in `8.c` even if a child is killed), and in `2.c` no character is lost;
what `8.c` prints begins with what was sent. When main of `8.c` or `2.c` ends without an error, and always in `9.c`, it has
waited for all its children; that of `4.c` leaves at most the last one. `3.c` never waits, and nothing is said of its child.
`ChecksumsRight`: both CRCs are remainders of polynomial division (defined by the remainders of monomials) and have the
values that the head of `crc_orig_mod.c` gives; the CRC notices every burst that fits in its register; Fletcher's sums are
the weighted sums modulo 255, C's negative remainders included; `check-csum.c` accepts a file that did not change,
whatever was in the checksum file before, and reports every single changed byte, when no read or write failed. `ProjectsEnd`: the shell ends, pzip ends
unless a worker is cancelled inside `printf` with the mutex, which can only happen when stdout is a terminal, and so do the
programs of chapter 5, but `3.c -s` and `8.c` wait for good for a child that is killed before it sent its signal or message.

**`xv6`** (`Xv6Proc`). `RunsOnce`: no process on two CPUs. `FamilyKept`: every process that has started has a parent
that is neither free nor dead, a slot that is being filled belongs to one fork, and pids are distinct, so that `kill` and
`settickets` mark no process but the one with the pid (a free slot they may mark, see section 5). `WakeupsKept`:
no sleeper has missed its wakeup. `LockPassedOn`: `ptable.lock`, which one process takes and another releases, is free
again and again.

**`xcheck`** (`Xcheck`). `AcceptedIsSound`: an image that is accepted has its blocks in use marked and used once, its
dot entries right and its inodes in use listed (the comment in the module has the whole list; it is what the
checks amount to together, defined on the image and not on the checker's arrays, and it names what they pass over, see section 5). `RejectedIsFaulty`: every error
message but the two of section 5 is true of the image, and the program aborts or runs out of stack only at a directory of
several blocks or a circle of `..`. `RepairSticks`: where there is a `lost_found` with room in its block, the repair
writes only there, and gives each lost inode one entry, so that none is left.

### Bounds, and why they are enough to be interesting

| Run | Bounds | Cases they reach |
|---|---|---|
| `mutex` | 3 workers, any number of kills, `room2` within `RoomLimit` = 3 of 0 (lost updates would let it drift after a kill) | two in one room while a third arrives: the last to leave a room hands over the token; two tokens in one run |
| `rwlock` | 3 readers, 2 writers; 3 threads, tickets of 2 bits | first and last reader differ, with one between; a writer waits while another writes; tickets that wrap with two waiting |
| `zem` | 4 threads, initial value 1, at most 2 | two sleepers, a poster and a thread that overtakes a woken one |
| `thread_programs` | 3 children × 2 rounds; 3 runs, 2 kills; 4 savages, pot ≤ 3; 4 customers on 2 and 3 chairs; Hilzer's 3 customers, 1 usher, 2 barbers, capacity 2 | a child a round ahead; a run after a killed one; a pot not dividing the number of savages; a customer that balks; entries freed while others queue |
| `thread_programs`, structures | 3 threads on 2 CPUs, threshold ≤ 3; lists: 2 threads, 2 keys, 3 nodes; queue: 3 threads, 4 nodes, 3 values; tree: order 4, keys 1–4, 12 puts | two threads on one local count; insertion beside a lookup; both ends at one node; a tree of height 2 |
| `servers` | pools of 1 and 2 workers, 1–2 slots, 3 connections, 2 descriptors, 2 sizes; 3 CGI workers and pids; 2 libevent clients; select: 1 client, 4 requests, 2 cache slots, 1 reset; others 3 clients, 2 files; datagrams: pieces of 5, 2 lost, 1 early timeout | a full buffer, descriptors reused, a child waited for by another worker; a full cache, a reset in the middle of a fill, a connection after a failed read; a descriptor reused in a batch; a message in pieces with loss and repetition |
| `projects` | 2 workers, pages of 2, ≤ 2 files of ≤ 3 characters; 2 directories, 2 lines of ≤ 2 commands; 4 slots, 3 page tables; 3 characters each, 4 `exec`s; texts of ≤ 3 bytes of 7 values, CRCs of 16 bits (3 texts) and 4 bits (all texts of ≤ 2 nibbles), files of ≤ 3 bytes in blocks of 2 | a run over a page or file boundary, an empty file, a short last page, more jobs than slots; `path` beside a search; a process with a thread and a child, each dead or alive, and slots used again; a child killed or a call failed at every step; sums that get negative and wrap; a short last block over a longer old checksum file |
| `xv6` | 2 CPUs, 3 slots, 3 pids, sleeps ≤ 1 tick | parent and child on two CPUs, orphans, a full table, slots used again |
| `xcheck` | 5 inodes, 9 blocks, directories of 5 entries | each error message, lost files, lost directories, cycles, marks before, in and behind the scan of the bitmap |

Counters that the programs do not bound (`MaxKills`, `MaxRuns`, `MaxPid`, `MaxVersion`, ...) are bounded in guards, each under
the name it has in the module.

### Fairness, and why the code justifies it

- A thread that is not blocked runs: weak fairness of each thread's steps. Weak fairness suffices where the number of waits
  in a run is finite (`thread_programs`, `servers`, `projects`).
- `mutex` loops for ever, so weak fairness would let a thread starve in `sem_wait`. Strong fairness is more than POSIX
  gives. The run uses the rule of POSIX itself, that a post wakes one of the blocked threads (`Discipline`), and weak fairness.
- `rwlock`: strong fairness of each reader and writer of the second program, that is, semaphores that starve nobody.
  The chapter's question is about the lock and not about its semaphores. Threads at the ticket lock run; strong fairness
  of `xchg` says that one that finds the spin lock free again and again gets it.
- `zem`: threads inside a call; nobody has to call.
- `servers`: threads and the kernel's completions, CGI programs end, timers fire; nothing of clients and signals.
- `projects`: main, workers, threads, children; the input of the shell ends. Nobody has to kill a child.
- `xv6`: only a CPU that holds `ptable.lock`, which has interrupts off. Nothing of the lottery or of who gets a free spinlock.

`CHECK_DEADLOCK FALSE` is set where a program ends or where clients may stop sending.

## 5. Where code and comments disagree

With a run that has a counterexample:

- **`wserver_overwrite`**, `SlotSynchronised` (2 workers, 2 slots, FIFO). `wserver.c:114` says that accesses of master and
  workers to the buffer are synchronised. A worker reads its slot after it released the mutex, and `empty` counts free
  slots without saying which: the post of a faster worker lets main overwrite the slot that a slower one is serving.
  With one slot or one worker this cannot happen, which is the condition `InTurn` of `InOrder` (in `BufferRight`) and `AllServed`.
- **`queue_empty`**, `EmptyMeansEmpty`. `concurrent_queue.c:47` says "queue was empty". Line 49 moves past one node too many,
  so that a dequeue removes two values and a later one says "empty" though a value was never taken.
- **`udp_ack`**, `AckMeansReceived` (no loss, no early timeout). `UDP-lib.h:266` says that after the post the receiver has succeeded.
  The receiver of a message in pieces posts six times for five waits, so the next `UDP_Write` does not wait.
- **`threads_leak`**, `LastReferenceFreed`. `threads_asm.patch:263` says "free page table if this is last reference to it" and
  line 274 that `join` leaves `pgdir = 0`. It does not, so `wait` takes the slot of a joined thread for another reference and
  never frees the page table of a process that had a thread. (`wait` of `threads.patch` starts with `last_ref = 0` and frees none.)

Met while modelling, without a run of their own. The models do what the code does, and properties that would fail for
these reasons say so in their comments:

- `common_threads.h:64` says "Remove shm to ensure init success without skipping". Compiled with `CHECK_ERRNO`, line 75 opens a name that
  was there with 1 in place of the value asked for. `mutex-nostarve.c:29` asks for 0: after a killed run the second turnstile is open, and
  every run of the mutex has two tokens, lets two threads in at once and races on `room2`. The other programs of chapter 31 that are
  modelled with kills are `barrier.c`, `rendezvous.c` and `fork-join.c`; the rest is modelled from names that are not there.
- `pzip.c:213` says that `empty` starts at 1 so that workers are not cancelled before they do the work. Line 298 can
  still cancel workers with a job pending; `OutputIsRle` is about runs in which every chunk was compressed.
- `wish.c:140` sets `paths[i + 1]` where the arguments end at `paths[i]`, so a directory of the `path` command before
  can be left in the search (`AtMostOneStale` says that it is at most one).
- `request.c:50`: the loop over headers ends for an empty line or an error, and not for the end of input; a client that
  hangs up inside its headers keeps a worker busy. `AllServed` is about clients that send whole requests.
- `wserver.c:30`: with SFF the slot that main fills next need not be one that was given back, and requests are lost.
  `BufferRight` counts the places under SFF too, and asks for order and answers only of one slot or one FIFO worker.
- `pzip.c:208` counts a chunk too many for a file that ends with a page; the merge reads it though nobody filled it.
- `wish.c:91` reads an entry of `paths` twice, and a `path` command of the same line can make it NULL in between.
- `server_select.c:223` names a slot of the cache before the file is read. When the read fails (line 270) the name stays, and the next
  request for it is answered from the slot with what was there before. A client that resets its connection ends the server (line 157).
- `server_libevent.c:40` does not count a connection that ends with an error, so that the server does not end after its last request.
- `server_select.c:172` starts at 1, so the first of `forbidden_files` is served.
- `xcheck.c:261` counts the `..` of subdirectories, so a directory with two of them is reported as appearing twice; line 314
  notices a link count that is too high and not one that is too low. `xcheck_contest_1.c:286` assumes that a parent has a
  lower inode number than its children.
- `xcheck.c:264` asks only a directory to be the root, so that an image whose inode 1 is a file passes. Line 268 counts dot entries, and two
  of a kind pass for the `.` and `..` of the comment at line 235. Line 285 starts at the byte after that of the first data block, and
  compares a bound counted in bytes with a block number: marks outside are not looked at.
- `xcheck_contest_2.c:156` does not end when `..` leads to a circle that the directory it started from is not on.
- `xcheck_contest_3.c:194` gives a `lost_found` that is full, or inode 0 when there is none, the block `data_end_block`, which line 122 set
  to the last block seen in use. Without `-r` line 307 takes the length of `argv[2]`, which is NULL; this is not modelled.
- `proc.c:549` (xv6) also finds the pid of a slot that is not in use and sets its `killed`, which `allocproc` does not clear: the
  next process in that slot is killed at once.
- `5/8.c:39` sends the text without its NUL, and line 58 prints an uninitialised buffer up to one: more may follow the text.
- `check-csum.c:24` ends its loop also when a read fails, and then says "The file is fine."; `create-csum.c:25` takes a read that fails for
  the end of the file. `CsumDetects` is about executions without an error.
- `Hilzers_barbershop.c:201` prints `e->index` after the post that lets the customer free `e`. `EntriesValid` is about the
  semaphores that are posted and not about this message.
- `pstat.h:10`: the ticks of a slot are not reset for its next process. They are not in the model (see the plan).
- `btree.c:290` says that a put overwrites the value of a key that is there; `insert` adds a second entry.

## 6. Proofs

`tlapm <module>` in this directory; all obligations are proved. The theorems are about the safety part of the
specifications (`Init /\ [][Next]_vars`), for every value of the constants that satisfies the assumption named.

**`SyncProofs`** has the proofs about `NoStarveMutex`, `ReaderWriter`, `TicketLock` and `Zem`.

For `mutex-nostarve.c`, from `WorkersFinite` (a finite set of workers) and `RoomLimitFits` (the bound on `room2` is at least their number):
`TypeCorrect`, `MutualExclusionHolds`, `RaceFreedom`, `TokenConserved`. `MutualExclusion` is not inductive: who may enter depends on
the turnstiles, and these on who decided, from `room1` and `room2`, which one to open. The invariant is
`IInv == MutexTypeOK /\ TokenInv /\ RoomsInv`: the tokens of the run are in `t1`, in `t2` or with a thread each, at a line between taking and
passing one; so is the unit of the semaphore `mutex`; `room1` is the number of threads in its room, and, as long as there is one token, so is
`room2`, and what a thread has loaded of it is still there when it stores. `Occupancy` and `Moves`
have the facts about cardinalities, `TokenStep` and `RoomsStep` the steps, and `KillIInv` says that a run over names left behind starts in `IInv`
as well. `CleanToken` is what follows for one token: at most one thread has it. `RefinesMutex`: acquire and release implement `RWLock` without
readers, its progress left aside. `BypassBounded` is `BoundedBypass` for any number of workers. It is about `WeakSpec`, and the lemma `WeakIsProgram` says that
the theorems on `MutexSpec` hold there too. The bound depends on the phase (`BypassInv`): a thread in room 1 that sees the
second room drain came during this drain, in which each other thread passes it once; a thread in room 2 may have seen one
drain before its own.

For `thread_helper.h`, from `ZemConstants` (finitely many threads, an initial value within the bound): `ZemTypeCorrect`,
`WakeupsKept`, and `ZemRefinement`: `Zem_wait` and `Zem_post` implement `Semaphore`. `NoLostWakeup` needs the mutex
(`LockInv`), that only a thread in `Cond_wait` sleeps, and that the value seen at line 53 is still there at line 55
(`ZemLocal`); `Bounded` takes care of posts under way. `WServer` uses its semaphores as this theorem describes them.

For `reader-writer.c`, from `ReadersWriters` (finitely many readers, none of them a writer): `RWTypeCorrect`,
`WriterExclusion`, and `RWRefinement`: the program implements `RWLock`. The difficulty is that `writelock` is taken by
the first reader and released by another. `RWInv` says that it is held by nobody, one writer, or the group of readers
(`GroupHolds`), that the group's count is exact, and that what `readers == 1` and `readers == 0` told a reader still
holds at the next line (`RWAlone`).

For the ticket lock, from `EnoughTickets` (finitely many threads, at most 2^`Width`): `TicketsInOrder`, and `TicketsRefineMutex`: the
lock implements `RWLock` without readers, its progress left aside; both for the two versions and both kinds of build. Tickets that wrap are compared by how far they are ahead of `turn`
(`TAheadIsMod`: it is the remainder that `InTicketOrder` speaks of). `TInv` says that the n tickets in use are the n values
from `turn` on (`TLine`, with the thread that has read `ticket` and not yet increased it), that one thread at a time is
between `xchg` and `movl`, and that a value of `turn` which a thread has read and which is its own ticket is not stale (`TTurns`),
from which it follows that nobody else is inside.

**`SemPrograms`** has the proofs about the programs of chapter 31 side by side: `EveryoneWaits`, `HandshakesAreRight` and
`EntriesAreValid` are `NobodyEarly`, `HandshakesMatch` and `EntriesValid` for any number of threads, rounds, runs, kills and
chairs, and any pot. They are about `SemSpec`. `ThreadPrograms` extends the module, and its `Spec` has `SemSpec`'s steps and steps that leave
`semVars` alone. Semaphores name nobody, so each invariant is an account of tokens: who holds them, or still has to post them.

- `barrier.c` (`BInv`, in `Barrier`; at least one child, which `barrier.c:131` asserts, and at least one round). A round is in one of four phases: children gather, the last
  one posts `turnstile1`, they drain, the last one posts `turnstile2`. In each the tokens in the turnstile and
  those still to be posted are as many as the children that have to pass it, and the children's rounds differ as the
  phase allows. A run over names left behind has only the mutex; that is what the properties ask of it.
- `rendezvous.c`, `fork-join.c` (`RInv`, `JInv`): a token is posted by the other thread of this run or is the one token that a
  name left behind can have.
- `cigarette_smokers.c` (`SInv`): the agents' turn, the table's lock, and which of the two ingredients are announced, pushed
  or matched are one state per agent.
- `dining_savages.c` (`VInv`): the servings in the pot and those that the cook still owes are the hungry savages, up to less
  than a pot (`VFood`), which is why the fillings counted at the start suffice.
- `barbershop.c` (`CInv`): each of the four semaphores is the number of customers at the lines between a post and its wait;
  nobody is pending when main has joined all.
- `FIFO_barbershop.c` (`FInv`, in `FifoBarbershop`): the queue is as long as the arrivals that are not yet announced, announced or
  heard of (`FArrivals`); whoever is called or in the chair is the barber's `e` (`FTurn`); a customer that waits is in the queue
  once or in the barber's hands (`FOwned`), so its entry is not freed (`FLive`); arrivals are haircuts, the one that is due, and the queue, in this order (`FOrder`).
- `Hilzers_barbershop.c` (`HInv`, in `HilzersBarbershop`): one invariant `HPlace(q)` for the sofa with its ushers and the chairs with their barbers. A
  server that serves has called one customer that has not left, though it takes the leaving post or payment of any (`HSeats`).

`barrier.c` and the last two are proved in the modules of the programs from `Setting`, a hypothesis on their constants and, in
the last two, on counting (`CountingLaws` of `ThreadCount`). `SemPrograms` proves these hypotheses from its assumptions and from
the theorems on finite sets (`Laws`, `BSetting`, `FSetting`, `HSetting`). All assumptions say that sets of threads are finite, kinds of threads distinct, and sizes
natural numbers.

**`WServerProofs`**, from `WServerConstants` (finite pools, none with a thread called `main`): `BufferIsRight` (`BufferRight`, put together from `TypeCorrect`,
`PlacesAddUp` and `AnsweredInOrder`) and `SynchronisedInTurn`. The first part of the invariant, `Accounting`, says that every place of the buffer is
free, filled or held by one thread, for all pools and both ways of scheduling. The second, `TurnInv`, is about one slot, or one FIFO worker
(`InTurn`): the slots filled are those from `use` to `fill`, main's handing over and the answers so far are the same list up to what
is in them, and a descriptor in use is that of its connection. `InOrder` follows, and what the comment of `wserver.c:114` says: main never
overwrites a slot that is being served. Without `InTurn` that is refuted by `wserver_overwrite`.

**`Xv6Threads`**, from `TableSize` (there is a slot): the table and the memory have any size. `SpacesAreKept`: no slot has a page
table that was freed. `wait` frees the one that no other slot names, so the invariant has to be about all slots, those that
are not in use and those that are being filled included: a slot between `allocproc` and the write of `fork` or `clone`
still has the `pgdir` of whoever was there before. `IInv` adds the types and `OneFiller`: a slot in state `EMBRYO` is
filled by one process, which is alive, and every process that has started has a page table. `ExitsAreNoticed`: nobody
sleeps through an exit or a kill. `exit` wakes its parent whichever call it sleeps in, so the proof is about what else may
change the set of children a sleeper looks at: `fork` and `clone` write `parent` and `pgdir` of a slot that is not yet a
ZOMBIE, `wait` and `join` of another process reap only their own children (`SleepInv`, with `Parents`), and an exit gives
children to init and wakes it if one of them is dead. `OrphansStayThreads`: a process that has
started and whose parent is dead is a thread of that parent (`Family`: also, init does not die, and a slot that is being filled has the filling process as its parent).

**`Xv6Proc`**, from `Sizes` (the sizes are positive, `Free` is no CPU and no slot): `EachRunsOnce`, `FamilyIsKept` and
`NoWakeupMissed` are `RunsOnce`, `FamilyKept` and `WakeupsKept` for any number of CPUs, slots, pids and tickets. None of them is
inductive. `IInv` has one part for each, and they lean on each other: `OneCpu` (whoever is `c->proc` is RUNNING, on one CPU; a
scheduler in the middle of a round has the lock), `OneFork` (a slot in EMBRYO is `np` of one process, which is RUNNING or
RUNNABLE in the middle of `fork`), without which `fork` writing UNUSED or RUNNABLE without looking could hit a running process;
`Family` (also: a free slot has no parent, init neither exits nor has a parent, nobody is its own parent), `Pids` (below
`nextpid`) and `Sleepers` (who is about to sleep for the clock has `tickslock`). There is one lemma per action. TLC checked
`IInv` before it was proved.

Model-checked only:

- all liveness properties, and the refinements that include them: fairness and `ENABLED` are beyond the prover;
- what recursive definitions compute (`TreeIsSearchable`, `OutputIsRle`, `ChecksumsRight`, the messages in pieces of
  `RepliesRight`), which needs induction over data;
- `ListsAreSets`: where an operation on a list takes effect depends on what is reachable from the head, which is a recursive definition again;
- the three properties of `Xcheck`, and `NothingLost`, `WorkInOrder` and `OutputInOrder`, for which see the plan;
- `Accounted`, and `RepliesRight` beyond the messages in pieces: the invariants of the file servers are conjunctions over a dozen variables,
  most of which each handler changes, and the proofs that were tried took the prover too long to be kept;
- `ImplementsFairRWLock`, which includes progress.

The theorems about `Xv6Threads` and `WServer` hold for these modules by themselves; their suites reach recursive and bitwise operators, in the
presence of which the prover cannot be used.

## 7. Not modelled, and why

- *Data*: texts of HTTP replies, prompts, formatting, names of files beyond being equal or different; bytes of images beyond
  the fields that checks read.
- *Sequential programs without state between calls*: `wcat`, `wgrep`, `wzip`, `wunzip`, `reverse`, file tools of chapter 39, the other
  exercises of chapter 5, those of chapters 6, 13, 14, 19 and 21 (`6/1.c` passes empty messages through its pipes, whose
  reads never block), clients and `spin.c` of the web server.
- *Copies and drafts*: debug copies of `xcheck_contest_3.c`, experiments with `aio_read`, the asynchronous versions of the
  datagram library (unfinished, which the answers of the chapter do not use), `crc_orig.c`, the counter under a single lock.
- *Parts of modelled programs*: `cd` and redirection in the shell; `List_Free` of the two lists; cancel and destruction at the
  end of two barbershops; `growproc`, `getpinfo` and `procdump` of xv6, `exec` beside its threads; images that make the checker index out of its arrays; the checks of the command line and
  of the calls that open or map a file at the start of the checkers and the checksums; the counter of `mutex-nostarve.c:68`.
- *Patches*: `readcount.patch`, `not-map-null.patch`, `protect-my-balls.patch`; the rest of xv6 is not in the
  repository.

## 8. Plan

In this order:

1. `growproc` of `threads_asm.patch`: the sizes of the threads of one page table, which it updates only downwards, from parent
   to child.
2. `getpinfo` with the history of ticks in `Xv6Proc`; `readcount.patch`.
3. `wzip` and `wunzip`: one after the other as the identity, and against `Pzip`'s output.
4. `List_Free`, the ends of the barbershops, `cd` and redirection in `Shell`.
5. Theorems: `ReaderWriterNoStarve` (exclusion and refinement), `ApproxCounter` (`NothingLost` for every threshold and mapping),
   `CgiWait` (`OneChildEach`), the file servers (`RepliesRight`), then `Pzip` and `Shell` (`WorkInOrder`),
   `Processes` (`OutputInOrder`) and `Xcheck`. TLC checks each invariant before it is proved.
