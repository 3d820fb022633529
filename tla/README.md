# TLA+ verification of nlib

nlib is a Linux C++ class library: threads, events and a thread pool, TCP and
CAN sockets, a TCP server, time values, bit strings and CRCs, configuration and
argument parsing, wrappers of SQLite, PostgreSQL, ZeroMQ and libxml.  Headers
are in `src/`, implementations in `src/src/`, tests in `src/test/`.

This directory holds TLA+ modules that model it, TLC configurations that check
the models on small instances, and proofs, checked by TLAPS, of the theorems
that hold for every instance.

## 1. The system

### 1.1 Components

| Component | State it keeps | Operations | Interacts with |
|---|---|---|---|
| **Nevent** `nevent.h` | `m_eventUnion` (a boolean or a count), a pthread mutex and condition | `signal`, `unsignal`, `reset`, `currentState`, `wait` with or without a timeout | whoever shares it |
| **NthreadPool** `nthreadPool.h` | `m_closing`, `m_pool` (one context per thread: `idle`, `startThread`, `userProc`), `m_idleCountEvent`, `m_poolOwner`, default affinity | `submitJob`, `waitForIdle`, `getPoolSize`, `updatePoolAffinity`, the destructor; `threadProc` on each thread | Nevent, Nmutex, Nthread; user jobs, which may call the pool back |
| **Nthread** `nthread.h` | `m_created`, `m_detached`, `m_joined`, `m_tid` and the event `m_tidGot` | constructor, `getTid`, nice/affinity/scheduling, `getReturnValue`, destructor (joins for one second, then detaches) | Nevent, kernel |
| **Nmutex** `nmutex.h` | a pthread mutex | `lock`, `unlock`, `trylock`, the destructor (retries while busy) | pthread |
| **Nsocket** `nsocket.h` | `m_status`, read buffer, close pipe, auto-buffer thread and its two events | `listen`, `accept`, `connectTo`, `read`, `write`, `waitForSocketEvent`, `setAutoReadBuffering`, `closeSocket`, `notifyReady` | Nevent, Nmutex, Nthread, kernel, signal handlers |
| **NtcpServer** `ntcpServer.h` | `m_serverSocket`, `m_clientList`, `m_collectGarbage` | `start` (accept loop), `stop`, a thread per client, a garbage collector | Nsocket, Nthread, Nevent, Nmutex |
| **Ntime** `ntime.h` | seconds and nanoseconds, with a sign | arithmetic, comparison, conversion, `sleep` | everything with a timeout |
| **Nbinary, Ncrc** | bits and a length; a CRC table | set/get bits and integers; build a table, compute a CRC | Nthread (core masks) |
| **Nargs, Nconfig, Ntokeniser** | option table; sections and values; token position | parse and look up | |
| **Nsqlite, Npsql** | database handle; result and row cursor | queries with a retry while busy; COPY; waiting for notifications | the databases |
| **Nserial, NsocketCan, Nzmq, Nprocess, Nxml** | a handle | system and library calls | kernel, libraries |
| **Nrandom, Nerror** | | random numbers; error reporting | |

### 1.2 What is hard, and what makes each part correct

* **Nevent.** A waiter leaves the condition's queue, and only then competes for
  the mutex: others signal, reset or take the event in between, and its
  deadline may pass.  Correct: a signal wakes somebody as long as somebody
  waits; `wait()` succeeds only on a signalled event and takes exactly one
  signal; only a wait with a timeout fails, and takes nothing.
* **NthreadPool.** The idle flag of a thread and the count in
  `m_idleCountEvent` are changed separately and without a lock by the threads,
  and read and taken by callers; a thread is filled with a job after
  `m_poolOwner` has been released; jobs call the pool; the destructor runs
  against all this.  Correct: flags and count agree, whoever has got a count
  finds a thread, nobody else is given that thread, each accepted job runs
  exactly once on at most `m_poolMaxSize` threads, calls return.
* **Nsocket.** `closeSocket()` runs against a buffer thread that is about to
  poll a pipe which may be closed, or created again, in the meantime.  Correct:
  closing ends the buffer thread; bytes are read in order, each once.
* **NtcpServer.** `stop()`, the accept loop, client threads and the garbage
  collector communicate through the socket's status, a list and one event, part
  of which they read without a lock.  Correct: a context is in one pair of
  hands, and deleted once, after its thread has ended; finished clients are
  reaped; after `stop()` the collector ends, and `start()` too unless `stop()`
  meets it on its way to `poll()`, as far as nobody throws.
* **Nthread.** The thread writes its tid and signals on its own time, while the
  owner joins or destroys the object, or gives up joining just when the thread
  ends.  Correct: no zombie, the id is the thread's, nobody writes to an object
  that is gone when the owner could know better.
* **Ntime.** Signs of seconds and nanoseconds after carrying and borrowing.
  Correct: canonical form, exact arithmetic, the order of the numbers; a sleep
  that is told the remaining time sleeps its time through signals.
* **Nserial.** Settings share bits of one word, are changed in `m_attr` and
  committed later, while bytes are on their way.  Correct: what was committed
  is what was asked for, and a byte is sent with the settings it was written
  under, unless the program asked otherwise.
* **Nsqlite, Npsql.** A query that finds the database busy is run again; the
  result object is used for many queries; each `PGresult` must be cleared once
  on every path; the connections of all threads are made one at a time.
* **Nbinary, Ncrc.** Edges: zero bits, powers of two, a double's `log2()`,
  bits cut off, short and failing reads.  Correct: a number is kept as long as
  it fits; a CRC does not depend on the pieces the file came in.
* **Nargs, Ntokeniser, Nconfig.** Character-driven parsers in which the order
  of the tests decides.  Correct: what a command line or a file meant, by the
  rules of the headers, is what is found there.

`PROJECT.json` lists each hazard at its line, with the properties that watch it.

## 2. The modules

| Module | What it is |
|---|---|
| `EventContract` | What `nevent.h` promises, without mutex or condition variable. |
| `Nevent` | `nevent.cxx`: one action per stretch of code that holds `m_accessMutex`. |
| `NeventProofs` | Proofs about `Nevent`. |
| `JobExecutor` | What `nthreadPool.h` promises of `submitJob()`. |
| `NthreadPool` | `nthreadPool.cxx`, step by step: threads, callers, destructor. |
| `NthreadPoolInv` | The inductive invariant behind the pool's safety properties. |
| `NthreadPoolProofs` | Proofs about `NthreadPool`: structure, hand-out of threads, accounting, jobs, refinement, growth. |
| `MCNthreadPool` | Constants for TLC. |
| `Nsocket` | The reading side of a connected `Nsocket`, with its auto-buffer thread and `closeSocket()`. |
| `NsocketProofs` | Proofs that bytes stay in order and that the thread is gone when the socket forgets it. |
| `Ntime` | The arithmetic of `ntime.cxx`. |
| `NtimeSleep` | `Ntime`, composed with `Ntime::sleep()`. |
| `NtcpServer` | `ntcpServer.cxx`: the accept loop, client threads, garbage collector and `stop()`. |
| `NtcpServerProofs` | Proof that every client is accounted for. |
| `Nthread` | `nthread.cxx`: creating, asking for the id, joining, destroying; priority and affinity. |
| `Npsql` | `npsql.cxx` and `npsqlResult.cxx`: connecting, queries, who owns a result. |
| `Nsqlite` | `nsqlite.cxx` and `nsqliteResult.cxx`: `query()` with its retry while the database is busy. |
| `Nserial` | `nserial.cxx`: settings, `commitChanges()`, bytes, suspending and resuming. |
| `NsystemProofs` | Proofs about `Nthread` (every thread is accounted for, and has the attributes asked for), `Npsql` (every result has one owner), `Nsqlite` (a query does what its text says once) and `Nserial` (the line has the settings asked for, and bytes are sent with those they were written under). |
| `Nbinary` | `nbinary.cxx`: setters and getters on bits. |
| `Ncrc` | `ncrc.cxx`: CRCs of memory and files, against a reference definition. |
| `Nargs` | `nargs.cxx` and `ntokeniser.cxx`: allowed options and command lines. |
| `Nconfig` | `nconfig.cxx`: configuration files. |
| `Folding` | What `FoldLeft` and `FlattenSeq` compute for a text of any length, and induction. |
| `NdataProofs` | Proofs about `Nconfig`, `Ncrc` and `Nargs`, for data of any length. |
| `NnumberProofs` | Proofs about `Ntime`, `NtimeSleep` and `Nbinary`. |
| `MClibrary` | The modules `NtimeSleep`, `Nthread`, `Nserial`, `Nsqlite`, `Npsql`, `Nbinary`, `Ncrc`, `Nargs` and `Nconfig` on small instances, for TLC. |

`NthreadPool` uses events as `EventContract` has them, which `Nevent` is shown
to implement.  `NtimeSleep` extends `Ntime`: it sleeps for a time that the
operations of `Ntime` have made.  `Nsocket` uses two events, a mutex and
`getReturnValue()` of a thread, each as one step; so does `NtcpServer`, which
has the listening socket with its status, descriptor and close pipe, and of the
clients' sockets keeps the status.  The parts of `MClibrary` share no state: a
behaviour is one of a single part (`part`), while the others rest in their
initial state, so TLC explores the sum of their state spaces and not the
product.  It extends the parts, so that a run and a theorem speak of the same
property.

Every module gives the mutants of its actions next to them: an operator named
for a mistake (`ScanWithoutTaking`, `KeepIdle`, ...) is not part of `Next`; it
is the action with one plausible bug, and each property is known to fail when
the action is replaced by one of them.

### 2.1 Nevent

`kind`, chosen in `Init`, says what the constructor was told: counting or not,
manual reset or not; the count may begin anywhere up to `MaxState`.
`state` is `m_eventUnion`; a boolean event is 0 or 1.  Every method takes
`m_accessMutex` first and holds it until it is done, except that
`pthread_cond_wait` lets go of it, so one action is the code between taking and
releasing the mutex.  `pc[t]` says where thread `t` is: outside, in the
condition's queue (`blocked`), woken and on its way back to the mutex
(`awake`), or out of the queue because its deadline passed (`expired`).
`Resume` and `GiveUp` are what a thread does when it has the mutex again.
pthreads wakes an arbitrary waiter (`CondSignal`), and may wake one for no
reason (`SpuriousWakeup`).

`timed` and `result` record whether the wait had a timeout and what it
returned; the program keeps them in locals.

### 2.2 NthreadPool

| TLA+ | C++ |
|---|---|
| `closing`, `owner`, `size`, `idleCount` | `m_closing`, holder of `m_poolOwner`, `m_pool.size()`, `m_idleCountEvent` |
| `idle`, `started`, `job` | `idle`, `startThread`, `userProc`/`userParams` of each `THREAD_CONTEXT` |
| `wpc` | where each thread is in `threadProc()` |
| `cpc`, `at`, `got`, `cjob` | where each caller is in `submitJob()`, `waitForIdle()` or the destructor, its loop index, `idleThread`, its job |
| `call`, `runs`, `waited` | history: what became of each call, how often each job was called |

Callers are client threads, the thread that runs the destructor, and the pool's
own threads, whose jobs may call `submitJob()` and `waitForIdle()`.  Each line
that touches shared state is an action: `m_closing` and the `idle` flags are
read and written without a lock, so their accesses interleave freely.  The
events of the pool are atomic here: `Nevent` is checked to implement
`EventContract`, which is how they behave.

Not modelled: core affinity, thread names, and `new` or `pthread_create`
failing.  The constructor has finished in `Init`; no other thread can reach the
pool before, except its own threads, which touch only their own context.

`Status` maps the pool to `JobExecutor`: a job is `accepted` when its
`submitJob()` returns, `running` while a thread is in its `userProc`, `done`
after that, and `refused` if `m_closing` was set when `submitJob()` looked.

### 2.3 Nsocket

| TLA+ | C++ |
|---|---|
| `status`, `fdOpen`, `buffer` | `m_status`, whether `m_socket` is an open descriptor, `m_readBuffer` |
| `pipeFlag`, `pipeNo`, `closedPipes` | `m_closePipeCreatedFlag`, which pipe `m_closePipe` holds, the pipes closed so far |
| `thread`, `stop`, `done` | `m_autoBufferThread`, `m_autoBufferThreadStop`, `m_threadDoneUpdate` (a counting event, as its constructor's argument makes it) |
| `block` | `m_socketReadBuffer`: not made, there, deleted; left locked by an error; used after its deletion |
| `peerOpen`, `sent`, `inbox` | the peer, and the kernel's buffer |
| `pc`, `mode`, `polled`, `raw`, `flags`, `found`, `taken` | where each thread is, through which call it got there, and its locals |
| `consumed` | history: all that `read()` has returned |

The peer sends bytes, numbered in order, and may close.  A reader calls
`read()`, a waiter `waitForSocketEvent()`, the owner `setAutoReadBuffering()`
and `closeSocket()`; the auto-buffer thread runs `autoBufferProc()`.
`m_status`, the pipe and the thread pointer have no lock, so every test and
every change of one of them is a step: the loop test of `read()` is `ReadSize`,
`ReadTest` and `ReadStatus`, and what it does inside is `TakeBuffered`,
`ReadMore` and `ReadThread`.  `waitForRawSocketEvent()` is `TestPipe`,
`MakePipe` (the second test of the flag), `NewPipe`, `FlagPipe`, `Poll` and
`Wake`: that a thread polls the pipe that `m_closePipe`
held when it got there, and not the one it holds now, is the point of `polled`.
`poll()` watches a descriptor that another thread closes without noticing, as
Linux does, and a `recv()` that has blocked keeps the socket alive.

`closeSocket()` deletes `m_socketReadBuffer` whoever uses it (`DeleteBlock`).  A
thread that then reads bytes from it meets undefined behaviour (`Misuse`), after
which the model stops (`Running`); a thread that has to make the buffer of a
socket that is closed already cannot tell its size, and throws with
`m_socketReadbufferOwner` locked (`MakeBlock`).

Not modelled: timeouts, `write()`, `notifyReady()` and its signal handler,
`listen()`, `accept()`, `connectTo()`.  There is one reader at a time, and the
owner switches buffering on only when nobody reads: two threads that fill
`m_socketReadBuffer` at once would be the user's mistake.

### 2.4 Ntime and NtimeSleep

`time` is `m_time`; `value` is the number of nanoseconds that exact arithmetic
gives for the same operations.  `rationalise` is `Borrow` after `Carry`, with
division that rounds towards zero as in C (`Quot`, `Rem`).  The length of the
units is a constant, so that TLC can use short ones and the theorems hold for
those of the code.  `NtimeSleep` adds a call of `sleep()`: `call` has its
arguments and locals, and counts how long it has slept.  `time_t` does not
overflow in the model.

### 2.5 NtcpServer

| TLA+ | C++ |
|---|---|
| `status`, `fdOpen`, `pipeFlag`, `pipeOpen` | of `m_serverSocket`: `m_status`, whether `m_socket` is open, `m_closePipeCreatedFlag`, whether the pipe in `m_closePipe` is open |
| `knocking`, `socketOwner` | connections that wait to be accepted, who holds `m_serverSocketOwner` |
| `socket` | the status of each context's `clientSocket` |
| `list`, `listOwner` | `m_clientList`, who holds `m_clientListOwner` |
| `collect`, `done`, `reaped` | `m_collectGarbage`, `imDoneFlag` of each context, the contexts deleted |
| `newest`, `index` | `start()`'s `context`, each thread's place in the list |
| `exited` | `NERROR_HANDLER` has ended the process |

`start()` is `Listen` and `StartStep`, the collector `CollectorStep`, a client's
thread `ClientStep`, `stop()` is `Stop` and `StopStep`.  `start()` waits as
`nsocket.cxx` does: it tests the status (`WaitForSocketEvent`), makes a close
pipe if there is none (`CreateClosePipe`), polls (`Poll`, `Wake`) and tests the
status again (`AcceptIsAvailable`), while `stop()` sets the status, closes the
pipe and then the descriptor (`StopClose`, `ClosePipe`, `CloseFd`) with
`m_serverSocketOwner` held.  The status, the size of the list and `imDoneFlag`
are read without a lock, each in a step of its own; what is done under
`m_clientListOwner` is several steps with the lock held.  An exception leaves
the locks of `stop()` as they are.  `accept()` returns a context that is not
connected when the socket has been closed meanwhile, as the code goes on after
the exception is caught.  For a client's socket `closeSocket()` is one step,
which throws if it is closed.

### 2.6 Nthread, Nserial, Nsqlite, Npsql

* **Nthread.** `object` and `detached`, `joined`, `tid`, `tidGot` are the
  object, `run` the thread, `storage` what the kernel keeps until the thread is
  joined or detached.  `stray` becomes true when the thread writes to an object
  that is no more.  The owner's calls and `killThread()` go through the places
  `callerAt`; `kernel` and `adjusted` are the attributes the thread has and
  those the setters that returned were asked for.  A mask of cores is the set of
  the positions of its bits.
* **Nserial.** A `termios` is a baud rate and a set of flags.  `attr` is
  `m_attr`, `line` what the line has; every setter is an operator that gives
  the attributes it leaves, also when it throws half-way.  A port comes with
  settings of its own, among them flags that no setter changes.  A byte carries
  what was promised when it was written.
* **Nsqlite.** `sqlite3_exec()` is external: it runs the statements of a text
  one by one, and stops at one that is locked out or wrong.  `query()` starts
  again from the first after a sleep, with the same `NsqliteResult`.
* **Npsql.** Each user opens a connection under `m_notReentrant` and makes
  queries; `PGresult`s are numbered; `held` is the one in the user's
  `NpsqlResult`, `result` that of the query under way, `live` those that have
  not been cleared.  `PQconnectdb()` and `PQexec()` return when the server
  answers (`ServerStep`), which it need not do.

### 2.7 Nbinary, Ncrc, Nargs, Nconfig

These are functions more than processes.  A behaviour of `Nbinary` makes one
call after the other on one object; of `Ncrc` it reads a file in chunks, with
short reads and errors, and compares with the CRC as the remainder of a
polynomial division; of `Nargs` it reads the allowed options token by token and
then a command line word by word; of `Nconfig` it reads lines from a writer who
means a tag and a value by each (`meant`).  He takes the meaning from characters
by `\` and quotes with `"`, as `parseLine()` reads them and not as the header
has it (section 3.4).
A text is a sequence of characters, from a set that is a constant; the runs give
a small one in which each character that the code tests for occurs.  In `Ncrc`
a byte, a CRC and the table's entries are the sets of the positions of their
bits: `^` is the symmetric difference, a shift takes 1 from each position.
`computeCrc()` is not modelled, for what it writes past its result (section 3.4).

The loops over a text (`Parsed`, `Crc32`, `crcTable`,
`parseAllowableString`, `addOptions`, `Number`, `ValueOf`, `HexBits`,
`BinaryBits`) are written as a fold of what one turn of the loop does with a
letter.  The two of `Nargs` that consume their
text from the front are folded over `Rests`, what is left of it turn by turn,
with a field (`whole`, `consumed`) that says that the code has emptied it.

## 3. What TLC checks

Runs that must pass:

| Run | Module | Checks | Bounds |
|---|---|---|---|
| `event` | `Nevent` | all four kinds of event: no lost wakeup; refinement of `EventContract` with its liveness; types | 3 threads, a count up to 3 |
| `pool_fixed` | `MCNthreadPool` | a full pool: accounting, hand-out, accepted jobs kept, refinement of `JobExecutor`, calls return | 2 threads, 2 clients, 3 jobs, one `waitForIdle()` |
| `pool_growing` | `MCNthreadPool` | a pool of size 0 whose jobs submit jobs: it never waits for an idle thread, and its calls return | up to 3 threads, 2 clients, 3 jobs |
| `pool_destroy` | `MCNthreadPool` | the destructor at any moment: what survives it, and that it ends when it begins in a settled pool | 2 threads, 1 client, 3 jobs that may submit each other |
| `socket_buffered` | `Nsocket` | the auto-buffer thread against a reader and an owner that switches it off and on and closes: bytes in order, thread joined, reads end, the thread keeps up, a settled close returns | 3 bytes, reads of 2 (408,469 states) |
| `socket_raw` | `Nsocket` | the same socket without the thread, reads of every kind next to `waitForSocketEvent()` | 2 bytes, reads of 2 (1,226,096 states) |
| `server` | `NtcpServer` | clients accounted for; those that finish are reaped; `stop()` ends the collector, and `start()` unless it meets it on its way to `poll()` | 2 peers, 2 threads that call `stop()` (318,738 states) |
| `library` | `MClibrary` | the parts that stand by themselves: times and sleeps (`ValueKept`, `ReadsExactly`, `NothingLost`), CRCs of files, threads, serial lines, databases, command lines, files, bit strings, and that calls end, those named at `CallsEnd` | see below (92,338 states) |

Runs that must find a violation; each checks a statement of the documentation:

| Run | Statement | What happens |
|---|---|---|
| `pool_waitForIdle` | `waitForIdle()` returns only when all threads are idle (`nthreadPool.h:68`) | one idle thread is counted once per thread of the pool |
| `pool_stuck` | the destructor waits, and completes (`nthreadPool.h:42`) | a thread that was told to start leaves at its loop test, and never gives its count back |
| `socket_hangs` | closing the pipe keeps a thread from blocking for ever (`nsocket.cxx:441`) | the thread makes a new pipe after the close, and `closeSocket()` waits for it for ever |
| `sleep_ignored` | `sleep()` ignores signals (`ntime.h:29`) | after one signal `repeat` stays true |

### 3.1 Why the bounds are enough

* Three threads on an event are one that signals and two that wait, the least
  for a wakeup to go to the wrong one; a count of 3 lets signals pile up while
  both wait.  The proofs cover any number.
* Two pool threads, two clients and three jobs make a full pool: somebody waits
  at line 149 while both threads become idle behind the scan.  With three
  threads a growing pool is extended while another caller scans.
* Three bytes against reads of two leave a remainder in the read buffer and
  make one read take from it twice; with two bytes a raw read is still
  interrupted half-way.  `MaxDone` only has to be more than the one count a
  reader can use up.
* Two clients are one that finishes while the other is accepted, listed or
  scanned, and the least list from which one is erased at an index; with a
  second thread that calls `stop()` both get past the test of the status, and
  the second throws with its locks held.  One more context is there for an
  `accept()` that fails.
* With a second of 12 nanoseconds, times up to 60 either way carry and borrow
  several seconds, and `tv_nsec` up to 26 carries two; two signals interrupt
  a sleep again after it has been resumed.
* `Nthread`: two cores among the four a mask can name, so that a mask can name
  cores that are not there, or none that is; an owner and one other caller.
* `Nserial`: each setting with its legal values and one that is refused, ports
  that come with no flag set or with one of each kind that a setter must clear
  or leave; one setter changes them, which is
  enough for it to disturb any other, and one byte is in flight.
* `Nsqlite`: texts of one and two statements, a table of three rows, and
  another process that locks and changes it between any two statements.
* `Npsql`: two users, two queries each, with and without a result object, so
  that an object is used again while it holds an older result.
* `Nbinary`: words of 5 bits of which `log2()` is exact for 3, so that rounding
  happens; texts of two characters; lengths beyond the width.  `Ncrc`: files of
  three bytes read two by two, bytes of no bit, of one and of four.
* `Nargs`: options without a parameter, with one, with two, words of several
  letters, one of which is spelt like a whole-word option; command lines of up
  to three words, so that a parameter is missing, taken from the next word, or
  from the rest of the same one.  `Nconfig`:
  files of two lines, for duplicates.

### 3.2 Fairness

* `Nevent`: a thread that is awake or has timed out gets the mutex (weak
  fairness).  A timeout is strongly fair: `endTime` is computed once, so a
  waiter that is woken and blocks again and again reaches its deadline.
* `NthreadPool`: every thread that can go on does, and a user's job ends.
  Nobody has to submit or destroy.
* `Nsocket`: every thread that can go on does, as long as nobody has used a
  deleted buffer (`Running`); `ReadEndsWithPeer` lets off a `read()` that did,
  or that waits for the mutex an error left locked (`Cursed`).  The peer need neither send nor
  close, and nobody has to call anything.
* `NtimeSleep`: a call that can go on does; no signal has to come.
* `NtcpServer`: as long as a thread that has been called can go on, one of them
  does, and a user's client process returns.  That is less than fairness for
  each thread, and enough, as a thread takes finitely many steps for each peer.
  No peer has to come, and nobody has to call `stop()`.
* `Nthread`: the thread gets as far as its procedure, which need not return;
  the second of `DEATH_WAIT_TIME_MS` passes; callers go on.
* `Nsqlite`: the query goes on.  The other process need not let go of its lock;
  that the query returns is claimed if it leaves the database alone in the end.
* `Npsql`: the users' calls go on.  The server need not answer; that calls
  return is claimed if the servers of all users do so sooner or later.

### 3.3 Deadlock

It is checked, except in these runs.  In `pool_destroy` and
`pool_stuck` the destructor can hang, which is the finding; what must still
happen is stated as a leads-to property.  In the runs of `Nsocket` everything
stops when the socket is closed and nobody calls, in `server` when it has been
stopped or has failed, and in `library` when a program has made its calls.

### 3.4 Further disagreements

Statements of the documentation that are defined in the modules, that the code
does not keep either, and that no regular run checks.  TLC shows each in
less than two minutes when it is the only property of a configuration like the
one named.

| Definition | Statement | How it fails |
|---|---|---|
| `NthreadPool!DestructorRunsJobs` | the destructor waits for user tasks (`nthreadPool.h:42`) | a job is accepted, then `m_closing` is set before line 84 is reached (as `pool_stuck`) |
| `NthreadPool!NoContextFreedInUse` | the same | a job is at line 197 of `submitJob()` when the context it was given is deleted (as `pool_destroy`, with three threads) |
| `NthreadPool!SubmitReturns` | `submitJob()` of a pool of size 0 never blocks (`nthreadPool.h:37`) | `waitForIdle()` holds `m_poolOwner` while it waits for the job that wants it (as `pool_growing`, with a client that waits) |
| `Nsocket!ClosedStaysClosed` | `CLOSED` means the socket is closed (`nsocket.h:26`) | `rawRead()` overwrites it with `REMOTE_CLOSED` (as `socket_hangs`) |
| `Nsocket!WaitersReleased` | nobody blocks for ever (`nsocket.cxx:606`) | with two waiters: one signal of a counting event frees one of them (as `socket_buffered`, with `Waiters` {w1, w2} and one byte) |
| `Nsocket!ReadBufferUsable` | `m_socketReadBuffer` is a valid buffer, its mutex free after use (`nsocket.h:227, 234`) | `closeSocket()` deletes it between `recv()` and the copying (462-468, 787); the first buffered `read()` of a closed socket throws at 715 with the mutex locked (as `socket_raw`, or `socket_buffered`) |
| `Nsocket!WaitReturnsForReason` | `waitForSocketEvent()` returns for data, the end or a close (`nsocket.h:174-179`) | a reader takes the data between push and signal |
| `Nsocket!ShortReadMeansEnd` | `read()` is short only if too little was received (`nsocket.h:91-95`) | the status changes before the last bytes are pushed |
| `Nsocket!JustAvailableEnds` | such a `read()` does not block (`nsocket.h:90-91`) | buffering is switched off between the tests of the buffer and of the thread (as `socket_buffered`, with `MayJustRead` {TRUE}) |
| `NtcpServer!StartReturns` | `start()` returns after `stop()` (`ntcpServer.h:70-71, 80-81`) | `stop()` closes the pipe after `start()` has tested the status; `start()` makes a new one and polls until a peer comes (as `server`) |
| `NtcpServer!NoneLeftBehind` | `start()` waits for all clients to end (`ntcpServer.h:20`) | the collector reads the size of the list, a client is listed, `stop()` closes the socket, the collector reads the status and leaves (`ntcpServer.cxx:33`) (as `server`) |
| `Nserial!RawIsUntranslated` | raw mode means no translation of data (`nserial.h:77`) | `setRawMode()` changes `c_lflag` and `c_oflag` (437-443); `ICRNL` and its like stay as the port had them (as `library`) |
| `Nserial!HardwareFlowEnds` | without hardware flow control there is none (`nserial.h:67-69`) | `CRTSCTS` is cleared in `c_iflag` (389), where it is not (as `library`) |
| `Npsql!ConnectsAlone` | (no statement; what one would expect of `npsql.cxx:82-87`) a user connects whatever becomes of the others' servers | `PQconnectdb()` has no timeout and blocks with `m_notReentrant` locked (`PsqlSpec`, with two users) |
| `Ntime!TimeoutsEnd` | the timeout 0 alone means for ever (`nsocket.h:112`) | timeouts below a millisecond, and negative ones, do too |

The following are read off the code while modelling it; where it matters, the
modules behave like the code, and the properties are worded so that they say
what does hold.

**NtcpServer** (`ntcpServer.cxx`)
* A client whose context is pushed (127) after `stop()` has gone through the
  list is told by nobody; `start()` waits for its process to return by itself.
* `closeSocket()` at 159 throws for a client whose socket is closed already.
  The exception leaves `m_clientListOwner` locked and the rest of the clients
  untold, and the collector never gets the list again (`Failed`).  At 148 it
  throws for a second `stop()`, and leaves `m_serverSocketOwner` locked.
* A client's thread that has tested its socket (at the end of
  `safeClientThread()`) when `stop()` closes it gets an exception, and
  `NERROR_HANDLER` ends the process (`exited`).
* `start()` leaves by an exception when `stop()` closes the socket between two
  of its tests; the collector then runs on without being joined.

**Nthread** (`nthread.cxx`)
* A constructor that throws after `pthread_create()` (a name that is too long)
  leaves a thread that writes to an object that never was.
* A detached thread that starts late writes to an object its owner has
  destroyed, unless somebody has called `getTid()`.

**Nserial** (`nserial.cxx`)
* `setDataBits()` (323) and `setFlowControl()` (389) clear the old setting
  before they refuse the new one.
* `setRawMode(false)` does not set `ISIG` again.
* `suspendFlow()` and `resumeFlow()` exchange what they send when told to send
  a stop.
* `rx()` reports that nothing has arrived on a non-blocking port as an error.
* A constructor that throws after `open()` leaks the descriptor; with neither
  direction enabled the port is opened for reading.

**Nsqlite** (`nsqlite.cxx`)
* A text of several statements that is locked out half-way is run again from
  its start: writes are made twice, and rows delivered twice into the same
  result.  `QueryRunsOnce` is about the queries to which this does not happen.
* SQLite's message is lost at every retry, and `rowsAffected` is that of the
  last write of the connection, also for a query that writes nothing.

**Npsql** (`npsql.cxx`, `npsqlResult.cxx`)
* A `COPY` keeps `query()` in its loop for ever: the status of a `PGresult`
  does not change (130-134).
* `params += thePort` (70) appends one character, not the number.
* An exception loses the `PGresult` of a query without `NpsqlResult`, and the
  connection of a constructor.
* `NpsqlResult(PGresult*)` clears what it finds in an uninitialised member, and
  a copy of an `NpsqlResult` clears the same `PGresult` a second time.

**Nbinary, Ncrc**
* `getMinBitLength()` is one too high just below large powers of two, where
  the double rounds up.
* `computeCrc()` is to return a CRC of `nbits - 1` bits (`ncrc.h:39-50`), but
  `result.initialise( nbits - 1 )` (`ncrc.cxx:66`) makes `result` the number
  `nbits - 1`, of `getMinBitLength( nbits - 1 )` bits, and the loop at 87-88
  writes beyond them.

**Nargs** (`nargs.cxx`)
* In `-vf x` the parameter `x` is filed under an option `vf` (267, 328).
* If `--vf` is allowed as well, that makes `-vf x --vf` a duplicate, and
  `getOptions()` tells of a `vf` that was not given.  `ArgsFollowTheRules` is
  about command lines without such a word (`IsMistaken`).
* A number in the allowed options that is too large for an `int` throws what
  the caller does not expect, and a negative one is taken.

**Nconfig** (`nconfig.cxx`)
* `nconfig.h:11` says that whitespace is trimmed, but in `a , b` the blank ends
  the tag and the comma is an error.
* `'` does not quote (`nconfig.h:12`), and it is `\` and not `/` that takes the
  meaning from the next character (`nconfig.h:13`).
* A commentor ends the line anywhere, not only at its start (`nconfig.h:30`).
* Terminators and commentors are static: those of the first object of a
  program are used for all.

**Nzmq**: `dontWait` is ignored.

## 4. What is proved

TLAPS proves these for every value of the constants that meets the assumptions:
finitely many threads (`ThreadsFinite`); a pool whose size does not exceed its
bound, whose callers are not numbers, and whose jobs are not `NoJob`
(`SizeAssumption`, `CallerAssumption`, `JobAssumption`); on the socket, threads
with one role each and one reader at most (`ThreadAssumption`,
`ParameterAssumption`); units of at
least 1 (`UnitAssumption`, `BoundAssumption`); a bound on the signals in a sleep
(`SleepAssumption`); a server whose threads have one role each
(`ThreadAssumption` of `NtcpServer`); texts of the three kinds of statement
(`QueryTextsAssumption`); constructors of a serial port that are given what setters
may be given (`OpeningsAssumption`); cores that a `cpu_set_t` can name
(`CoresAssumption`); texts over the characters, which include those the code
tests for, and lines of noise that mean no pair
(`FileTextsAssumption`, `CharactersAssumption`, `NoiseAssumption`); bytes of 8
bits (`CrcAssumption`); lists of allowed options
whose numbers have no sign and fit an `int`, any words of a command line, and
limits of the types the constructor takes (`AllowablesAssumption`,
`WordsAssumption`); an `unsigned long long` of at least 1 bit, and characters of
a text of bits that are a hex digit, a space or another (`BinaryAssumption`).  The theorems about `Npsql` assume nothing.  Two theorems
have a hypothesis of their own, named below.

* **Nevent.** Types (a count never goes below 0), `NoLostWakeup`, and
  `ContractKept`: every step is a step of `EventContract` or a stutter, for all
  four kinds of event.  `NoLostWakeup` is inductive with `TypeOK`; the refinement also needs that
  only a wait with a timeout expires.  A spurious wakeup only helps; a waiter
  that times out was still in the queue, so it takes no wakeup with it.
* **NthreadPool.** `TypeOK`, `IdleAccounting`, `IdleThreadFound`,
  `ExclusiveHandout`, `AcceptedJobKept`, and the invariant they come from,
  `IInv` in `NthreadPoolInv`: structure (who holds the lock, who may be where),
  hand-out, open calls and jobs.  It has to say three things that are easily
  missed: `Debt`, the count that the lock's holder has taken and not paid for;
  `ScanCovers`, that idle threads behind the scan's index have their own
  counts, so that one is left ahead of it; and that all of it ends (`Intact`)
  when the destructor wakes the threads, which then become idle twice.
  - `ImplementsExecutorSafely`: the initial state maps to that of `JobExecutor`,
    and each step to one of its steps or a stutter, with the destructor and
    with jobs that submit jobs.  It needs `RunningKept`, that a thread in
    `userProc` has a job that was called once and is not refused, and that no
    two threads have the same: this is what bounds the jobs that run.
  - `GrowingPoolNeverWaits`, with `Growth`: a pool that grows never has more
    threads than jobs that are past the count or past `extendPool()`
    (`PlacedJobs`), so that one more job finds a thread or room for one.  Its
    hypothesis is that there are no more jobs than `MaxThreads`: the code puts
    no limit to a pool of size 0, so the model's must not be met.
* **Nsocket.** `TypeOK`, which says that no `read()` gets more than it asked
  for; and `NoThreadLeftBehind`.  The invariant of the latter adds where the
  owner and the thread can be (`Places`), and that while the thread is being
  joined it has either ended or has still to see the request (`Stopping`).
  - `BytesInOrder`, for sockets of which one of three things is true
    (`NeverSwitchedOff`): every read goes through the read buffer, or buffering
    is not switched off, or it is never on.  The runs meet one each.  For other
    sockets it is false: a read past the buffer may find the buffer empty, or
    the thread gone, before older bytes get into the buffer (the hazard at
    `nsocket.cxx:368`).  The invariant follows each byte: what `read()` has
    taken, what is in the read buffer, what one thread has in its hands and
    what is in the kernel are one sequence (`ByteChain`).  That holds because
    one thread at a time fills the buffer (`OnlyFiller`, from `Alone`), and
    because a read past the buffer goes on only while there is nothing in it
    (`DirectReads`); `Modes` says what call a thread is in at each place.
* **Ntime.** `StaysCanonical`, `ValueKept` and `ReadsExactly` (comparisons and
  conversions say what exact arithmetic says), from lemmas about division that
  rounds towards zero and about `rationalise`.  With `sleep()`: `NothingLost`,
  for any number of signals, from `Sleeping`, that what was slept and what is
  still to be slept add up to the delay at each turn of the loop; and
  `SleepKeepsTimes`, that `SleepSpec` implements `Spec`.
* **NtcpServer.** `ClientsAccounted`.  The invariant adds that `start()` holds
  a context exactly between `accept()` and `push_back()` (`Newest`), that
  nobody has one that was not accepted (`Unaccepted`), and that the collector's
  index begins with the first (`Scanning`).  Two lemmas say what `push_back()`
  and `erase()` do to a list without duplicates.  No lock is needed for it:
  what the lock protects is that the list does not change under the index.
* **Nthread.** `ThreadAccounted`.  The invariant says who can be inside a call
  of the object (`InCalls`), and how the kernel's thread, the thread and the
  flags agree (`Storage`, `Written`): a thread that has not signalled yet has
  neither been joined nor had its id told.
  `AttributesAsAsked`, for masks of any width: a mask read back as the code
  reads it, bit by bit from the highest, is the set of the cores that was asked
  for.
* **Npsql.** `ResultsHaveAnOwner`, with `UnderWay`: until it is handed over, a
  query's result is not the one its `NpsqlResult` holds, so that clearing
  either leaves the other.
* **Nsqlite.** `QueryRunsOnce`, with `OnceSoFar`: as long as no statement has
  been run again, the writes done and the rows delivered are those of the
  statements before `next`; a database that is busy at the first statement runs
  nothing again.  Two lemmas count the statements of a kind.
* **Nserial.** `SettingsAsAsked`: the invariant says it of `m_attr` and of the
  line (`SettingsInv`), and six lemmas, one for each setter, say that a setter
  leaves the attributes with what it was asked for and with everything that was
  asked of the others, whatever other flags the port came with.  The constructor is these six, one after the other.
  `SentAsWritten`, with `InFlight`: the bytes on their way were written under
  the settings the line has, or the last commit did not wait for them.
* **Data of any length.** No prover here does induction by itself.  `Folding`
  proves it as a fact about sets: a set of numbers that holds 0 and, with each
  of its numbers, the next, holds all, as otherwise there would be a least
  number it does not hold (`WFMin` of the library); and the same of sequences.
  From it, `FoldLeft` of a text with one more letter is one more step
  (`FoldOfAppend`), which starts with the proof that the recursive function in
  the definition of `FoldLeft` exists; so does `FlattenSeq`.  The operator that
  is folded is a constant of `Folding`: each loop is an `INSTANCE` of it.
  - `FileSaysWhatWasMeant`, for any tags and values, in any of the ways they
    may be written, and any noise.  What `parseLine()` has in hand after a
    slashed, quoted or bare text is that text (`SlashedReads`, `QuotedReads`,
    `UnadornedReads`), by induction over it; a line is these one after another
    (`PairReads`); and the invariant says it of the lines read so far.
  - `FileCrcIsCrc`: a file's CRC is that of its bytes, however `fread()` cuts
    it, as a CRC goes on where another ended (`CrcGoesOn`), and it is the
    bit-by-bit remainder that defines CRC-32: the table's entry for a byte is
    eight steps of the shift register (`TableIsPower`), which are linear
    (`PowerLinear`).
  - `ArgsFollowTheRules`.  The rules are stated of the whole command line, and
    the invariant (`Reading`) says how what has been read so far stands to
    them: how far the parameters of the last option reach, which options are
    in the map, and where each argument is.  One lemma for each part of the
    rules says what one more word changes (`OptionsGrow`, `ParameterGrows`,
    `ArgumentsGrow`); `AddStep` is the invariant of the loop over the letters
    of a word.  The guard `IsMistaken` was found by the proof: without it the
    duplicate that the code reports need not be one.
  - `NumbersSurvive`, for integers of any width and texts and bits of any
    length.  A power of two (`TwoTo`) is the value of a one and zeros, from
    which its laws follow (`PowersOfTwo`, `PowersMultiply`).  The low bits of a
    number are one bit of it and the low bits of its half (`LowGrows`), so they
    stand for its remainder (`LowValue`) and are the string they were taken
    from (`LowOfValue`); hex digits likewise, four bits at a time
    (`DigitsRead`).  What `setBitLength()` cuts off is 0 exactly if the number
    has not changed (`CutIsHonest`).

Every safety property that the passing runs check is stated by a theorem.  What
is only model-checked is all liveness: `CallsReturn`, `KeepsUp`,
`ReadEndsWithPeer`, the two `Settled...` properties, `FinishedAreReaped`,
`StopEndsCollector`, `StopEndsStart`, `CallsEnd`, and the liveness parts of
`ImplementsContract` and `ImplementsExecutor`.  Fairness and `ENABLED` are
beyond TLAPS.  Of the latter two all steps are proved (`ContractKept`,
`ImplementsExecutorSafely`).

## 5. Not modelled

`PROJECT.json` says for each component what is left out.  In short:

* **NthreadPool**: core affinity, and the reads of `m_pool` without the lock in
  `getPoolSize()` and `updatePoolAffinity()`; thread names; `new` and
  `pthread_create()` failing.
* **Sockets**: that the kernel may give the number of a closed descriptor to
  another file.
* **Nsocket**: `listen()`, `accept()`, `connectTo()`, `write()`, timeouts,
  `notifyReady()` and its signal handler.  `write()` and the ways to connect
  are system calls in a row; the notification depends on signals that the
  kernel sends for reasons the code does not see.
* **Ntime**: reading the clocks, text, microseconds and units above the
  second, overflow of `time_t`.
* **Nthread**: the nice value.  **Nserial**: control signals, breaks, the
  timing of blocking reads.  **Npsql**: notices, debug traces, reading rows and
  columns.  **Nbinary**: `operator[]`.  **Ncrc**: the caching of a table, and
  `computeCrc()`.
* **Nmutex**: its `lock()` and `unlock()` are steps of the other modules; its
  destructor, which tries again while the mutex is locked, only runs on objects
  that nobody uses any more.
* **NsocketCan, Nzmq, Nprocess, Nxml**: their state is the kernel's or a
  library's, and each call is one of theirs.
* **Nrandom, Nerror**: no state and no protocol.  That `ERROR` throws is part
  of every module.
