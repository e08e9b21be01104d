# A verification of Favorite-Assignments

The repository collects programs of several systems courses. They share no code
except where one directory's objects are linked into another program: the
reader/writer lock and the queue of `cse130mrlynch/rwlockthreads` are the lock
and the queue of the threaded HTTP server. That server is the one concurrent
system of the repository and the core of this project; the data-compression
pair `encode`/`decode`, the banana emulator and the get/set tool are three more
systems with state worth following; the sorts, the number theory and cipher, Life
and the emulator's filters are functions of their input, checked as such. Paths below are relative to `src/`.

## Inventory

| Component | State | Operations | Hard parts | What makes it correct |
|---|---|---|---|---|
| Reader/writer lock, `cse130mrlynch/rwlockthreads/rwlock.c` | four counters, `served_readers`, priority, `n_way`, two condition variables | `rwlock_new`, `reader_lock`, `reader_unlock`, `writer_lock`, `writer_unlock` | signals lost or sent to the wrong side, barging, spurious wake-ups, the N_WAY batch | exclusion, no sleeper left on a free lock, bounded overtaking, progress |
| Bounded queue, `rwlockthreads/queue.c` | ring, `front`, `rear`, `size`, three semaphores | `queue_new`, `queue_push`, `queue_pop` | counting semaphores and mutex are passed in different orders; wrap-around | a bounded FIFO, nothing lost or doubled |
| Threaded server, `httpserver_with_locks_and_threads/httpserver.c` | queue, table URI -> lock, files, descriptors, audit log | dispatcher, workers, GET, PUT | check-then-act on the table and on the file, error paths, transfers that break off | one lock per URI, isolation, a log that replays, everything accepted is closed |
| LZ78, `LZ78compression/*.c` | trie, word table, code counters, two buffered streams, the pipe between them | `encode`, `decode` | two programs side by side must grow, drop and number dictionaries alike; bit widths; block boundaries; short reads; a killed encode | decode restores the file, or its beginning |
| Emulator, `cse111EmulatorFinalProject/src` | RAM, registers, PC, saved states, filters | instructions, memory map, frame loop, save/load, rendering | 16-bit arithmetic, address checks at boundaries, files cut short, hues | permissions, frame discipline, save and load are inverse, frames show the video memory |
| Sorts, `SortingAffairsInOrder` | an array | quick, heap, shell, batcher | index arithmetic at boundaries | the result is sorted and a permutation |
| Schmidt-Samoa, `SCHMIDT-SAMOA_.../numtheory.c`, `ss.c` | big numbers | `pow_mod`, `gcd`, `mod_inverse`, primes, key and block handling | padding, block size | decryption inverts encryption |
| Life, `TheGameOfLife` | a grid | `uv_census`, a generation | edges of flat and toroidal grids | neighbours are counted as on a torus or plane |
| Single-threaded server, `cse130mrlynch/httpserver` | one connection | parse, GET, PUT | text parsing | - |
| File tool, `cse130mrlynch/PlayingWithMemory/memory.c` | the files; a run's position in its input and file | get, set | short and failing calls, kills between calls, lines as long as their buffers | a get prints what the last set was given; a failure does not pass for success |

How they interact. The dispatcher (`main`) accepts a connection and calls
`queue_push`; a worker calls `queue_pop`, parses the request, takes the global
mutex to find or attach the URI's lock, takes that lock as a reader (GET) or a
writer (PUT), opens the file, transfers it, logs a line to stderr while it still
holds the lock, releases it, answers and closes. Workers share the table, the
locks, the file system and the log, and nothing else.

## Modules

* `RWLockOps` - `rwlock.c` as operators on the struct. All its functions run
  under one mutex from start to end or to the `pthread_cond_wait` that releases
  it, so a section is a function from struct to struct and its signals are the
  set of sets of sleepers they may wake.
* `RWLock` - threads on one lock. A step is one mutex section. `pc` tells
  `blocked` (asleep on the condition variable) from `woken` (signalled, mutex
  not yet retaken): barging between the two is a step of another thread.
  `SpuriousWakeup` is what POSIX allows `pthread_cond_wait`.
* `RWLockSpec` - the promise of `rwlock.h`, without condition variables or
  counters. `RWLockHistory` adds two history variables to `RWLock` and the
  refinement mapping.
* `RWLockOps_proofs`, `RWLock_proofs` (also about `RWLockHistory`), `BoundedQueue_proofs`,
  `HttpServer_proofs`, `Memory_proofs`, `Console_proofs`, `LZ78_proofs`,
  `Algorithms_proofs` - the theorems, each extending the module it is about.
* `BoundedQueue` - `queue.c` with a step for every `sem_wait`, `sem_post` and
  each half of a critical section; `FIFO` is the queue it implements.
* `HttpServer` - dispatcher, workers and files. It composes the abstract queue
  (a sequence, justified by `BoundedQueue`'s refinement of `FIFO`) with the
  locks of `RWLockOps`, one per node of the table, as the server does. `conn_*`
  and `listener_*` are an object file of the course: a transfer proceeds by
  chunks and may break off.
* `LZ78IO` - `io.c`: buffered symbol and bit streams, including what a buffer
  still holds beyond a short read, and reads that a pipe answers in pieces.
  `LZ78` - `encode < input | decode > output`: the loops of `encode.c` and
  `decode.c` over it, with `trie.c` and `word.c`. The two programs run side by
  side. A step of the encoder handles a symbol, and what its buffer lets go of
  is in the pipe; a step of the decoder is one `read`, taking bits out of its
  buffer, or decoding a pair. `Killed` is a signal, or the exit after a failed
  read: what the encoder had in its buffer is lost.
* `Memory` - `memory.c`. A step is a system call on a file or on the output, or the
  parsing of the command. A run of the program may be killed before each, and
  calls may fail or do less than asked; the files survive to the next run. History
  variables keep a run's input and output, the files at its start, and what the
  last set that said OK was given.
* `BananaCpu` - `cpu.cpp` and the memory of `console.cpp` as operators on a
  machine: every instruction with its 16-bit arithmetic, the table of permissions,
  the I/O addresses. A step that reads beyond `RAM_` is `OutOfBounds`.
  `Console` - the reset, `setup`, the frame loop, `controllerInput`, saved states. A
  step is an instruction, an event of the keyboard, or the work at the end of
  either. Saved states are files and survive `Restart`; they may hold only the first
  of their fields, when the disk was full or the emulator killed. Four history
  variables tell which buttons are down and what a slot ought to hold.
  `Gpu` - `gpu.cpp` and `duck.h`: the cells a frame's pixels are read from, and
  each filter as the set of colors a color may become (the noise is random, and
  doubles may fall just short of a whole number).
* `Sorts`, `NumberTheory`, `SchmidtSamoa`, `Life`, `Gpu` - the sequential parts as
  operators with the names of the functions. `Algorithms` runs them: a task is
  chosen, one step computes its result, and the properties compare the result with
  a definition that has nothing of the program's (sorting by TLC's `SortSeq`, the
  greatest common divisor as a maximum, Conway's rule on sets of cells, the color
  wheel in one formula, ...). A frame starts from any `current_column_` (`Columns`), which
  `gpu.cpp` keeps from the frame before.
* `MC*` - the instances TLC checks.

Definitions named for a mistake (`WriterLeavesNoReset`, `AttachAlways`,
`PopFreeForgotten`, ...) stand before the correct definition and belong to no
specification. Each is a plausible bug; put in the place of the correct one it
breaks the property PROJECT.json pairs it with, which shows that the property
depends on that line of the code.

## Runs

| Run | Instance | Shows |
|---|---|---|
| `rwlock` | 4 threads, each priority, `n_way` 1 and 2, `served_readers` -2, 0 or 2 at first, spurious wake-ups | exclusion, counters, no stranded sleeper, bounded overtaking, refinement of `RWLockSpec`, writers' and readers' progress |
| `rwlock_stranded` | N_WAY 1, 4 threads | `ReaderNeverStranded` fails: `n_way + 1` signals do not reach a third sleeping reader |
| `queue` | 2 producers, 2 consumers, 2 slots | slots accounted for, mutual exclusion, refinement of `FIFO`, the front moves |
| `http` | 3 workers, 3 connections, 2 URIs of which one cannot be written, 2 chunks, every error path, broken transfers, garbage in new locks | one lock per URI, a stable file while sending, unmixed uploads, a log that replays, descriptors given back |
| `http_closes` | 4 workers, 4 connections, 1 URI, absent or forbidden | every connection closes, unless a worker is stuck in one of the two ways of `rwlock_stranded` and `http_leak` |
| `http_leak` | PUTs of a file that cannot be opened | `PutReleases` fails: `goto finish` skips `writer_unlock` |
| `http_created` | PUTs of a new URI | `CreatedOnce` fails: both are answered 201 |
| `lz78` | all files of up to 11 symbols over 2, 3-bit symbols, blocks of 3, MAX_CODE 6; every interleaving at the pipe, `encode` killed anywhere, `decode` going on with up to 2 old blocks | what `decode` has written of what came is a beginning of what `encode` read, and in the end all of it; in step across several dictionaries; no read runs over its buffer |
| `lz78_width` | 2-bit symbols, 4-bit codes (as 8 and 16 in the code) | `EveryFileComesBack` fails once a code is wider than a symbol |
| `memory` | 3 runs, 2 names, files of up to 3 symbols, line buffers of 3, commands cut off anywhere | a get prints what the last set was given; a failure changes nothing, or leaves a beginning of its content |
| `console` | every instruction on both sides of every border of the address space (434 programs); two games with buttons, switches, two slots, files cut short or not opened, and restarts | permissions hold cell by cell, fetches are aligned, the controller's cell tells the buttons that are down, a load restores what was saved, or all that was written of it, quitting ends |
| `algorithms` | small arrays, numbers, keys, files, worlds and colors | three sorts sort, heap sort does odd lengths, arithmetic is right, the primality test errs one way only, decryption inverts, flat Life is Conway's, a frame shows the video memory and filters keep gray gray |

### Bounds, and why they are enough

* Lock: with 4 threads there can be a holder, a sleeper of each kind and one that
  barges; `n_way` 1 and 2 make the batch end while readers still wait. `MaxServed`
  (4) stops `served_readers` and is larger than any `n_way`. The theorems hold for
  every finite number of threads and every `n_way`.
* Queue: two slots and two threads a side let producers race for the last slot,
  consumers for the last element, and both indices wrap.
* Server: three workers allow a writer, a reader and a third that barges or waits.
  Three connections allow an upload, another and a download around them; a second
  URI lets requests of two locks interleave. `Chunks` is 2, so that a file can be
  seen half written. `IntRange` stands for 2^32: an `int` makes 1 of the size of the
  file with 9 pieces, and a negative number of that with 4. `http_closes` has the
  four workers of the server's default, because a reader is left asleep by one PUT
  and three GETs; with four connections every worker has one and there is none to
  wake it. Transfers do not break off there and have one chunk: no worker waits for
  another's. Idle workers are alike, so in that run the lowest takes the
  next connection (`InTurn`; no worker's fairness is lost, for the lowest is itself
  fair), and `http` uses them as a symmetry. A spurious wake-up of a worker is left
  to the runs of the lock.
* LZ78: `BITS`, `BLOCK` and `MAX_CODE` are scaled so that blocks of symbols and of
  bits both end inside a file, codes have two widths, and the dictionary is
  dropped up to twice in eleven symbols; eleven are the fewest of which the last,
  pending pair completes a dictionary whose decoder reads on (see Findings). `lz78` keeps `MAX_CODE` below `2^BITS`, which
  stands for files of fewer than 254 pairs; `lz78_width` keeps the real proportion,
  codes twice as wide as symbols, and was reproduced with the compiled programs
  (2000 random bytes make `decode` dereference NULL). A symbol is as wide as the
  file's header, which decode reads and looks at no more. After a
  kill `decode` takes the block before for the next one, or zeros if there was none, as
  often as it comes to its end and perhaps for ever: `MaxStale` (2) such blocks are
  followed. `lz78_width` needs none and has 0.
* File tool: three runs are enough for a set, another that breaks off, and a get.
  Names of one and two symbols, and lines of up to three, are shorter than,
  as long as, and longer than a line buffer of 3 (which holds 2); contents of up to three
  need two chunks of 2 and reach the largest size. Every command also comes cut
  off after each of its symbols. `get` and `set` count as one symbol each.
* Emulator: a program loads two registers in `setup` and runs one to three
  instructions in `loop`. Values are taken from either side of every border that
  `console.h` names and of 0, so each permission and each sign is met; all
  instructions and an unknown opcode occur. These are called for one frame and, if
  SDL_QUIT comes, for one more. The two games (one counts frames in RAM, one stores
  to the controller's cell) are called for one frame with three events and a
  restart, and for two frames with two events, besides the frame after SDL_QUIT:
  enough to save, change, load and go on, also from another slot or after a
  restart. The
  buttons are the lowest and the highest bit. `Cuts`: a saved state ends after the
  registers, or amid RAM before the controller's cell, or is whole.
* Algorithms: all arrays of up to six elements over three values (repetitions) and
  all permutations of three to six; that range holds odd and even heaps, batcher's
  sizes on both sides of a power of two, and the gaps 4, 3, 2, 1. Numbers from 2 to
  120, each against all smaller ones, contain primes, powers of primes,
  products of several, and composites that some bases do not expose. Keys have up to 16 bits with
  bytes of `BYTE` = 2 bits, because TLC squares in 32 bits; files of up to four
  symbols end inside a block, at its end, and are empty. Worlds are a glider in
  5 x 5 cells, with zero to two pairs out of range and the pair one beyond the edge,
  and all of the 512 worlds of 3 x 3 cells for three generations. The column before a frame
  is the first, the last, or one beyond. Colors take five
  levels in each channel, so that every sector of the color wheel, every border
  between two, and grays occur; the rotations are within a turn and beyond two.

### Fairness

A woken thread retakes the mutex and a holder releases the lock (weak fairness):
the code holds neither across anything that waits for the other. Nobody is made
to call `reader_lock`, push or connect. In `queue` consumers call again for ever,
as workers do. In the server every worker is weakly fair; a transfer ends because
`listener_accept` gives the sockets a timeout. `EveryConnectionCloses` excepts
connections whose worker is `Stuck`: it waits for the lock of a URI of which a PUT was
refused, which is never free again, or it is a reader that the `n_way + 1` signals of
`writer_unlock` did not reach while no writer comes any more. Connections still in the queue
are excepted when all workers are.
The emulator is one thread that runs on (weak fairness of `Run`); nobody has to
press a key, and `QuitEnds` speaks of programs whose `loop` returns, as all of the
run's do.

`CHECK_DEADLOCK FALSE` stands where the system may stop: nobody connects any more,
the programs have ended.

## Theorems

All are of the form `Spec => []Inv`, `Spec => [][A]_vars` or `Spec => Abstract!Spec`,
for every value of the constants that the named assumption of the module allows.
Each rests on an inductive invariant, which TLC checked before it was proved.

**The lock** (`RWLock_proofs`, with cardinality lemmas and the lemmas about sections
in `RWLockOps_proofs`). For every finite set of threads, every priority, every integer
`n_way`, every initial `served_readers` and with spurious wake-ups, under
`RWLockAssumption` (the threads are finitely many, the constants have their types):

    IInv == TypeOK /\ CountersMatch /\ MutualExclusion /\ NoStrandedWriter
            /\ NoStrandedReader /\ Handover

1. every section changes the place of one thread and moves others only from
   `blocked` to `woken`, so each counter and the set it counts change together
   (`StepShare`, `CountersStep`); that needs cardinality lemmas, because the code
   tests counters where the properties speak of threads;
2. given the counters, the guards give exclusion (`ExclusionStep`);
3. no stranded writer: every exit signals `write`, or leaves woken readers whose
   exit will. Under N_WAY a writer also sleeps because readers wait and
   `served_readers` is 0; that these readers are awake is `Handover`, which is not
   implied by the others and makes the invariant inductive;
4. no stranded reader: when the last writer leaves, its signals reach all the
   sleeping readers, which under N_WAY needs `AllReadersReached`.

**What the lock promises** (`RWLock_proofs`, about `RWLockHistory`). `OvertakeBound`, and that the
lock implements `RWLockSpec`, from any initial `served_readers`. From the garbage of an
uninitialised counter that is negative more than `n_way` readers do overtake (see Findings):
as many more as it is below 0 (`slack`), until the first writer leaves. The invariant
adds to that of the lock how the
history follows the code's counter: `served_readers` and the slack are at least the number of readers
that overtook, so that the code's test of it bounds what nobody counts; and the counter is
0 from the exit of a writer that passed waiting readers until a reader gets in,
without which a writer could pass them a second time, as the specification forbids.

**The queue** (`BoundedQueue_proofs`). For any finite sets of threads and any capacity:
the semaphores account for every slot, the ring has one thread in it, and
the ring implements `FIFO`. The invariant counts threads at each place against the
three semaphores, and `front`, `rear` and `size` against each other; the used slots, read
from `front` around the end of the array, are the abstract queue.
A push or pop of `FIFO` is the second half of a critical section, all other steps stutter.

**The server** (`HttpServer_proofs`). For any finite set of workers, any connections,
URIs and files found, any number of chunks and any garbage in a new lock: `OneLockPerUri`, `StableWhileSending`,
`OneUploadPerFile`, `LogReplays`, `FilesClosed`. The locks come from
`RWLockOps`, and what is needed of them from `RWLockOps_proofs`. The invariant says who is in
which lock of the table: a node's counters count the workers that hold it; a
worker in a transfer or about to log is in the lock of its own URI; one that creates a node
holds the global mutex and its URI has none. From this, a writer is alone with its file from
before it is opened until its line is in the log, which gives the others. For the log, a part
of the invariant says that a file is what replaying the log and the uploads that broke
off leaves (`FilesFollow`), but for the upload in progress, and that what a worker knows of a file it holds (`Opened`, `Existing`)
stays true until it has logged; `Matches` is their conjunction for one choice of the files found at the start.

**The file tool** (`Memory_proofs`). For any inputs, names, contents and buffer
sizes, and any number of runs that fail or are killed: `Remembers` and
`FailuresKeepPrefix`. The invariant says, at each place of the program, which part of the input was
parsed, what of the file was printed or of the content written, and that a
file whose last set said OK holds what was remembered of it; only runs that have
opened the file for writing and have not said OK are excepted.

**The emulator** (`Console_proofs`). For any slugs, that is any program, any typed
characters, keys, slots and restarts, and files cut anywhere: `TypeOK`, `StoresPermitted`,
`FetchesAligned`, `LoadRestores` and `ControllerShowsButtons`. `ConsoleAssumption` says that a
slug is bytes that fit in RAM_ and that what reset copies lies in RAM_. The run has
434 small programs; here every instruction is executed on every machine (`Executed`).
The invariant is

    IInv == Types /\ Files /\ Loads /\ LoadRestores

where `Files` says that a slot's file is what was saved there, in the frame loop (that is
why a load cannot leave it), and `Loads` which slots may just have been loaded. `StoresPermitted`
and `FetchesAligned` follow for each step from the types alone. The bits of the
controller need that adding or subtracting a power of 2 changes one bit (`PowerFlips`).
`ControllerRight` has a hypothesis: the data of the slugs (`DataFits`) is not copied onto
the controller's cell by the reset, which would show buttons that nobody pressed; the
code has no test for it, and the slugs it is meant for have far less data.

**LZ78** (`LZ78_proofs`). For symbols of any width, buffers of any size, any `MAX_CODE`
that fits in twice the bits of a symbol, any file, and an encoder that may be killed at
any moment: `NeverOverruns` and `InStep`; and as long as no pair had a code wider than a
symbol (`Narrow`), `Restores` and `RoundTrip`. `Narrow` is the finding of
`EveryFileComesBack`: such a code is written from the wrong bits. It is a condition on
the pairs written, not on the constants, so that the theorems speak of the real program
(`BITS` 8, `MAX_CODE` 65535) on files of fewer than 254 pairs, which drop no dictionary.
A killed `encode` makes `decode` go on with its old block: `Restores` and `InStep` are about what
came before that, and `RoundTrip` about an `encode` that was not killed, or of which `decode`
was done before. The argument:

1. the history `marks` has an entry for each pair of the encoder: the bits written, the
   symbols taken, the code that names the pair. They number the words of the file:
   the k-th word is the symbols between two marks (`WordAt`), and a code names, after k
   pairs, one of the last k words (`Named`);
2. the encoder's invariant says that an edge of the trie leads from a word to that word
   and a symbol, so that the k-th pair is the code of all but the last symbol of the k-th
   word, and that symbol; that the bits of the k-th pair are where the marks say,
   whatever the buffer has let go (`SentAll`); and what follows the last
   pair: nothing, or the STOP pair's zeros, of which the flush leaves enough for its code
   unless the last pair filled the dictionary;
3. the decoder's says that after d pairs its counter and table are those of the marks
   after d pairs, what it has written is the first d words, its buffer holds what the
   pipe had from bit `BitsAt(marks, d)` on, and the bits it took are the first of the
   next pair. What the encoder adds later changes none of this (`DecoderKept`), so that each
   program can take its step alone;
4. from the first old block on (`Astray`) only types are kept, and that what was written
   before it stays;
5. the lengths of what is in the pipe are the header and whole buffers until the encoder has
   exited, so a read that asks for too much is never given it.

The loops over symbols and bits (`PutAll`, `ValueOf`, `RShift`) are recursive functions;
`Recursion` shows once that such equations have a solution, and `Induction` that a set
with 0 and all successors has every number: with sets in the place of predicates, induction
over a loop is within the provers' reach.

**The sequential programs** (`Algorithms_proofs`). Three of the six properties of
`algorithms`, for all inputs: `ArithmeticRight`, `LifeEvolves` and `FramesShown`. The
assumptions give the inputs their types: numbers above 1, colors and coordinates that
are natural numbers, degrees that are whole. What an earlier step computed plays no part
in these invariants, so the step that computes is all there is to show; the work
is in the loops. A loop is a recursive function of its variables
(`GcdLoop`, `InverseLoop`, `PowLoop`, the generations of `life`). `LoopEnds` shows that its
equation has a solution when a measure goes down with each round, and `LoopInduction` that what
holds where the loop ends, and in a state when it does after the next round, holds in
every state; each loop supplies its round and its measure.

1. `gcd`: a round keeps the common divisors (`CommonRound`), and where the loop ends the
   number that is left is the greatest of them. `mod_inverse`: each round keeps
   `Euclid`: r and r0 are t * a and t0 * a but for multiples of n, t and t0 differ in sign
   and have `|t0| * r + |t| * r0 = n`. So t ends between -n and n, which is why adding n once
   is enough. `pow_mod`: squares of the base are every other power
   (`PowerOfSquare`), whatever is reduced on the way (`Product`);
2. `life`: `uv_census` counts the neighbours of Conway's rule (`CensusNear`). A generation
   writes every cell of the other universe, so that nothing of what it held is left
   (`OneGeneration`) and the two take turns (`GenerationsConway`). The two calls of
   `uv_populate` set the pairs in range up to a second one that is not (`PopulatedPairs`);
3. `hsv2rgb`: its six sectors and the formula of the wheel have the same value in each
   sector (`Sector`, `Swung`, `Wheel`), and every hue the filters make lies below the end of the wheel
   (`HuesOnWheel`). A gray comes out of each filter gray (`GrayScale` to `GrayTurned`), because
   equal channels have no chroma and take the same noise. A frame's addresses are the
   video memory, one by one (`FrameShows`).

Only model-checked, and why:

* everything about liveness (`WriterProgress`, `QuitEnds`, `EveryConnectionCloses`, ...):
  out of the prover's reach;
* `SortsSort`: `shell_sort` and `batcher_sort` sort for reasons that no invariant of their
  loops tells (the gaps of `gaps.h`, the network), and one needs the 0-1 principle;
* `PrimalityTest` and `DecryptInverts`: they rest on theorems about primes (Fermat's, Euler's,
  and Rabin's bound on the bases that pass) that no library of the prover has.

## Findings

Each of the four `violation` properties states what the repository says of itself,
with its quote in PROJECT.json: the stranded reader, the lock a refused PUT never
releases, 201 twice, and the codes wider than a symbol.

Further disagreements are part of the models of passing runs, where a property is
stated around them:

* Lock: `served_readers` is not initialised. From a negative value that many more readers than
  `n_way` overtake the first writer; `OvertakeBound` and `RWLockSpec` say so
  (`slack`), and safety is proved for all values. `n_way + 1` signals instead of `n_way` and three
  identical branches in `reader_unlock` are harmless.
* Server: an upload that breaks off leaves a prefix in the file and no line in the log;
  a GET after it is answered 200 with the prefix (`httpserver.c:533`), which
  `LogReplays` explains by the history `broken`. The size of a file goes through an
  `int` (`httpserver.c:459`) and is wrong from 2 GiB on (`Declared`). The descriptor of a
  directory stays open, which `FilesClosed` counts.
* LZ78: after a killed `encode`, `decode` does not end with an error: it goes on with its old
  block, meets a code without a word and dereferences NULL, writes the old words for ever, or, if no block
  had come, reads zeros as the STOP pair and exits with 0 and an empty output
  (`io.c:28`, `io.c:155`). A file one symbol short of a block comes back one longer (`io.c:92`;
  reproduced: 4095 equal bytes give 4096), so `Restores` speaks of what `encode`
  read. When the last, pending pair is the one that completes the dictionary,
  `encode.c:110` wraps `next_code` to 0, and the STOP pair has a code of no bits, where
  `decode` reads `bitlen(START_CODE)`; the flush drops up to 7 of what is left. If only
  one bit is, the other comes from the block before, and a 1 there is code 2,
  which has no word: `decode` dereferences NULL. `RoundTrip` excepts these files. Reproduced with
  the compiled programs and a `MAX_CODE` of 101; with the real one the wide codes go wrong
  before.
* File tool: a line that fills its buffer leaves its newline, or its rest, to the next read, so
  that a size of 19 digits shifts the content by one (`memory.c:151`); a content
  cut short by the end of the input is still answered OK (`memory.c:71`); a failed
  or interrupted read ends a get with exit code 0 (`memory.c:102`), and one of the byte
  after the name of a get counts as its newline (`memory.c:202`). `Remembers` is
  stated around the first and the last, and calls what did arrive the content.
* Sorts: `build_heap` starts at `(last - 1) / 2` and misses the parent of the last
  element of an even number (`heap.c:40`): `0 1` is sorted to `1 0`. `SortsSort` asks
  heap sort for odd lengths only.
* Emulator: hues are not wrapped to 0-360 as the comments at `gpu.cpp:95` and
  `gpu.cpp:142` say, because `fmod` keeps the sign; `FramesShown` compares the others
  with the color wheel. A pixel's column is assigned after it is decoded
  (`gpu.cpp:252`), so the duck lags by one. The disassembler chooses the name of an
  R type by the opcode and not the function (`cpu.cpp:287`).
* Emulator: `SRL` sign-extends (`cpu.cpp:126` against `cpu.h:59`). `writable` has an
  off-by-one that lets programs write the controller's cell (`console.cpp:427`
  against `console.h:89`), which `StoresPermitted` excepts. `LW` at 0xffff and a fetch
  beyond 0xfffc read past `RAM_`. The custom image's switch is not saved
  (`gpu.cpp:275`). `event_` is read before it is assigned. SB compares an `int`
  address with the I/O addresses but stores to 16 bits of it (`cpu.cpp:64`).
* Life: `uv_populate` accepts a coordinate equal to the size and writes beyond the
  grid; the result of its first call is ignored (`life.c:38`), so one pair out of
  range is skipped and a second refused; `toroidal` is uninitialised without `-t`
  (`life.c:16`); a torus misses the diagonals across an edge (`universe.c:107`), so
  `LifeEvolves` is about flat universes.
* Cipher: `ss_decrypt_file` keeps the zeros that filled the last block (`ss.c:202`);
  `mpz_divexact_ui` is given odd exponents (`numtheory.c:27`).
* `shell_sort` compares a value it has overwritten and moves an element once per gap at
  most. The gaps of `gaps.h` make up for it; gaps that halve would not.

## Not modelled

* `rwlock_delete`, `queue_delete`, `freeHT`, `checkMeth`, `checkVers`, `no_coverage`,
  `checkForExtraInput`: no caller.
* The texts of requests, responses and log lines, and which of the error codes is
  sent; the code logged is kept where a property reads it. A thread or node that
  cannot be allocated.
* LZ78's options, statistics and swaps on big-endian machines. `encode` reading its
  input from a pipe.
* File tool: two runs at once. Their sets would write over each other's file; the
  program has nothing against that, and nothing it says of itself is about it.
* The single-threaded server: `is_valid_method` compares the token "GET" with "GET "
  (`httpserver.c:31`) and refuses every request with 400, so that no state
  behind it can be reached and a property of it would hold of nothing. PDFs, the zip
  archive, the lists of Life patterns.
* Emulator: a saved state that ends inside a field other than RAM; where in the duck a pixel lies, the image, the frame rate, the menu and
  the disassembler, which print and change nothing; slugs of more than 0x8000 bytes.
  SDL is external.
* Drawing primes and the text of key files (GMP is external), the screen of Life, the
  counts of moves and compares and the options of `sorting`.

## Plan

The order was: the lock, its proofs, the queue, the server, LZ78, the emulator, the
algorithms; then the pipe between `encode` and `decode`, `memory.c`, saved states cut
short, and the filters; then the proofs of the queue, the server, the file tool, the
lock's refinement, the emulator, LZ78, and the arithmetic, Life and the filters. What is
left are the number theory behind `PrimalityTest` and `DecryptInverts`, and the sorts.
