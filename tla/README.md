# g-tools: models, checks and proofs

TLA+ models of g-tools: the runtime that puts files into RAM behind the POSIX
calls of an unmodified program (`runtime/`), and the parallel file-scanning
tools (`tools/`) with the core they share (`core/`). `PROJECT.json` lists the
runs, the source lines behind every definition, the findings and the hazards.

## 1. The system

### Inventory

| Component | State | Operations | Modelled in |
|---|---|---|---|
| `MmapCache` (`g_runtime.hpp`) | `slices_`: key -> slice and references; `next_id_`, `mmaps_`, `bytes_`; a mutex | `ingest`, `release`, `clear` | `GRuntime` |
| `FdTable` (`g_runtime.hpp`) | `handles_`: fd -> slice and position; `next_fd_`; a mutex | `open_read`, `read`, `pread`, `lseek`, `mmap_slice`, `set_pos`, `close` | `GRuntime` |
| `MmapFile` (`mmap_ingest.h`) | one mapping | `open`, `close` | inside `GRuntime` |
| hooks of `libg_io.so` (`g_io_posix.cpp`) | a re-entry flag per thread; `FILE*` cookies | `open`, `open64`, `openat`, `read`, `__read_chk`, `pread`, `lseek`, `close`, `fstat`, `fcntl`, `mmap`, `munmap`, `posix_fadvise`, `ioctl`, `fdopen` | `GIoPosix` over `GRuntime`, against `PosixFile` |
| `real()` of `libg_io.so` | 18 libc pointers and a flag | look up on the first call | `RealInit` |
| `Vfs` (`g_runtime.hpp`) | platform, root | `normalize`, `cache_key` | `Vfs`, with the open hooks and a changing directory |
| `ChunkAllocator` (`chunk_allocator.h`) | one atomic counter | `next` | `ChunkAllocator` |
| `FlatArena` (`flat_arena.h`) | a growing buffer | `reserve`, `append`, move, destroy | inside `Pipeline` and `CAbi` |
| `simd_scan.h` | - | `find_byte`, `printable_mask64`, `zero_mask64` | `SimdScan` |
| `g_grep`, `g_strings`, `g_hist`, `g_unicode` | an arena and a counter per worker | scan a chunk, merge, sort | `GTools`, `Pipeline` |
| `g_scan` | a trie, a state, a position | build, gate a block, feed a byte | `GScan` |
| `g_entropy_profile`, `g_bytes`/`g_xor`, `g_diff`, `g_recon` | an arena per thread; a run list | stride over blocks, clamp, group, sample | `Analyze` |
| `g_sections` | - | check the headers, list the sections | `Sections`, `Analyze` |
| C ABI (`g_result`, `g_result_free`) | an arena on the heap | return, free | `CAbi` |
| Rust, Python, command lines | a `g_result` each | decode, free | `AnalyzeClient`, `ToolClients` |
| `g_hash` | - | - | not, see 7 |

Interaction. A hooked `open` calls `FdTable::open_read`, which calls
`MmapCache::ingest`, which calls `MmapFile::open` under the cache's mutex; the
`open` in there re-enters the hook and is passed to the kernel by the re-entry
flag. `FdTable::close` calls `MmapCache::release` under the table's mutex.
When `open_read` fails, the hook goes on with the kernel's `open`. A tool maps
a file, starts n threads that take chunks from one `ChunkAllocator`, each into
an arena of its own, joins them, concatenates the arenas and, for `g_strings`
and `g_unicode`, sorts the records. The arena moves to the heap behind a
`g_result`; the Python or Rust function or the command line tool that called
decodes it and gives it back with `g_result_free`.

### What is hard here, and what makes each part correct

* **Two mutexes, three critical sections per open/close pair.** Between
  `ingest` and the table insertion of one thread anything may happen.
  Correct: references are exact (`RefsExact`), nothing mapped is lost or mapped
  twice (`MappingsOwned`), a descriptor's memory is there (`HandlesBacked`),
  readers of one path see one version of the file (`OneVersion`), a descriptor
  number means one open file for ever (`FdIdentity`), every call returns
  (`EveryCallReturns`).
* **A first call without synchronisation.** Correct: a hook finds its libc
  function (`CallsFindTheirFunction`).
* **Paths as keys.** Correct: the program gets the file its path names
  (`RightFile`), rooted once (`RootedOnce`), under one key where case does not
  count (`CaseBlind`).
* **Unsigned arithmetic at file ends.** Correct: no access outside the slice
  (`AccessInBounds`), positions stay words (`IInv`).
* **Pretending to be the kernel.** Correct: the hooks implement the calls they
  replace (`Transparent`), and what is cached stays cached (`StaysInRam`).
* **Independent decisions about shared borders.** Every worker computes the
  edges of its chunk alone. Correct: chunks are disjoint, on line boundaries
  and cover the file (`Disjoint`, `LineAligned`, `Covered`), the call returns
  (`CallReturns`), and the merged answer is that of one pass over the file
  (`GrepExact`, `StringsExact`, `HistExact`, `UnicodeExact`). A last line
  without a newline is where they do not agree (`GrepCounts`).
* **Allocations that fail silently.** Correct as far as it goes: what
  `g_strings` still reports is true, once and in order (`StringsExact`).
* **Answers that cross a C ABI.** An empty answer, a failed one and one with
  lost records look alike or disagree with their count. Correct: the caller
  decodes what the tool found and no more (`ClientExact`, `RustExact`), and no
  buffer is lost (`BuffersFreed`, `RustFrees`).
* **Headers that point anywhere.** Correct: no read leaves the file. This holds
  for the headers, tables and contents (`TablesInFile`), within the limits of
  section 4, and not for all reads (`SectionsInFile`).
* **A gate in front of an automaton.** Correct: skipping blocks does not show
  (`ScanExact`, `CountsExact`), because the automaton is never behind what it has
  read (`ScanIInv`).
* **Blocks at the end of a file.** Correct: every block is profiled once and in
  order (`EntropyExact`, `ReconExact`), a slice is clamped without wrapping
  (`SliceExact`), changed blocks are grouped exactly (`DiffExact`).

## 2. Modules

`GRuntime` - `MmapCache` and `FdTable` with any number of threads. A method is
one action, except where the code lets go of a mutex or waits for one:
`open_read` is `OpenRead`, then `IngestHit` or `IngestMiss` followed by `MapOk`
or `MapFail`, then `Insert`; `close` is `Close`, then `Release`. A thread at
"mapping" holds the cache's mutex, a thread at "closing" the table's. A slice
carries the identity of its file in place of `st_dev`/`st_ino`; contents are
not modelled, a byte is its file and offset. `size_t` and `off_t` are numbers
modulo `WordSize`. `last` is the latest result, `clearMark` a history variable.
Other processes replace, extend and remove files (`Environment`).

`PosixFile` - what a program may expect of the calls the hooks replace.
`GIoPosix` - the hooks over `GRuntime` and a small kernel. `Habits` names what
a program does beyond opening, reading, seeking and mapping inside a file and
closing: a run without habits shows transparency for the programs the shim is
meant for, runs with habits show what holds for any program, and where it
breaks. The kernel (`Kernel...`, `PosixFile`) is external: modelled from how
the hooks use it. A program has at most one stream per descriptor.
`RealInit` - the first hooked calls of several threads. Flag and pointers are
plain statics, so this is a data race; the model has what an x86 build can make
of it: `dlsym` may call back into the hooks, which keeps every store on its
side of the call, but the last store and the flag's come in either order.
`dlsym` is taken to find every symbol and not to re-enter the hooks.
`Vfs` - `normalize` and `cache_key` character by character, because which
characters a path has is what they are about. On Linux, in the default
configuration, the open hooks use it under a directory that changes; the other
configurations are those of a port that uses the class directly, as its comments
describe (`Translate`). The resolution of a path is the kernel's and external.

`ChunkAllocator` - `next()` by any number of workers; a turn of its loop is one
action because the counter is the only shared state. Two conditions on a file
name what `next()` copes with. `ShortLines`: from every border the bytes it
looks at reach the next newline or the end of the file; this excludes the lines
longer than the lookahead, the limit that `chunk_allocator.h:22-24` states.
`LastLineWhole`: no border lies inside a last line without a newline; nothing in
the source states this one.
`SimdScan` - `find_byte` and the masks: whole registers of 64 bytes, or two of
32, and the rest byte by byte. `NextZero` is the mask arithmetic with which
`unicode_worker` looks one byte past its block.
`GTools` - the loops of `g_grep`, `g_strings`, `g_hist` and `g_unicode` over
one chunk, on the masks of `SimdScan`. Shannon entropy is a predicate `Dense`
over the bytes. For `g_hist` a record stands for one increment.
`Pipeline` - a call of one of the four tools: workers, arenas and merge, over
`ChunkAllocator` and `GTools`, with the reference answers. An `append` that
cannot grow stores nothing and is counted; this is faithful to the tools with
one append per record (`g_strings`, `g_unicode`), while `g_grep` makes two per
line, so `MayFail` leaves it out. An empty file is answered before any worker
starts.
`CAbi` - `g_result`, who owns the arena behind it, `g_result_free`.
`ToolClients` - the callers of `g_grep` and `g_strings`: Python, the command
line, Rust and the counting calls, over `Pipeline` and `CAbi`. `raw.size`
counts what the buffer holds in bytes of the model or in records.
`GScan` - the automaton and its gate. A trie node is the string that leads to
it, and the fail links are a recursive function over the nodes. It is sequential:
the automaton's steps are the actions. `Occurred(n)` is the reference: the
occurrences of the patterns in the first n bytes.
`Analyze` - one call of `g_entropy_profile`, `g_bytes`/`g_xor`, `g_diff` or
`g_recon`. The threads of the profile share nothing but the file, so a turn of
`entropy_worker`'s loop is an action; the other tools are sequential, an action
being a turn of their loop. A profile record keeps the bytes of its block in
place of their entropy. `lost` is a history variable: an `append` has failed.
`Sections` - `g_sections`: the checks in front of every read, what it reads
(`TableReads`, `NameReads`) and the records. An image is the size of a file, its
header fields, which take every value, and how many bytes a name has with its
NUL: `strncpy` reads as many, or `NameMax`.
`AnalyzeClient` - the Rust functions over `Analyze` and `CAbi`: `RawResult`,
the decoding of each answer and the drop.
`Sorting` - the sort by offset of `Pipeline` and `Analyze`: a record's place is
the number of records that go before it. Records with one offset, which
`std::sort` may swap, keep their order; no tool makes two. `Ordered` is the order
in which a loop visits the threads or the ends of the strings.

The `MC...` modules hold the values for TLC; `..._proofs` the theorems. Two of
them check parts side by side that share no state, one part standing still while
the other runs: `MCHookEntry` has `RealInit` and `Vfs`, what a hook does before
it reaches the runtime; `MCWholeFile` has `GScan` and `AnalyzeClient`, the tools
that take a file as a whole.

## 3. Runs

| Run | Question | Result |
|---|---|---|
| `GRuntime_cache` | two threads, two files, every call, `clear()`, changing disk, word arithmetic | holds |
| `GRuntime_seek` | "positioning inside the slice" | violated: `read` after a seek past the end |
| `GIoPosix_transparent` | do the hooks implement `PosixFile`, and does every call return? | holds without habits |
| `GIoPosix_careless` | references and numbers under every habit | holds |
| `GIoPosix_munmap` | "stays in RAM" | violated by `munmap` of a mapped slice |
| `HookEntry_start` | does a racing first call find its function? Which file, and which key, does a path stand for? | holds, but for `fdopen` and within the limits of section 4 |
| `Pipeline_exact` | do the chunks partition the file, is each answer that of one pass, does the caller get and free it, does the call return? | holds |
| `Pipeline_odd` | odd UTF-16 strings are not lost | violated at the end of a chunk |
| `Pipeline_lastline` | "lines are never split": is every line with the needle counted? | violated in a last line without a newline |
| `WholeFile_exact` | is `g_scan` equal to the naive search, also beside an empty pattern? Do the block tools give the reference answers, through Rust too? | holds |
| `GScan_lanes` | `g_scan` with more first bytes than lanes | violated |
| `Analyze_bounds` | "every read through `within()` mmap bounds checks" | violated by a section's name |

Every property of a passing run has a mutant in `PROJECT.json`: a plausible bug
(an operator `Mutant_...` beside the definition it replaces) that breaks it.

### Bounds

* `GRuntime`: `WordSize = 16` with sizes 0 and 2 and counts up to 15 puts every
  wrap-around within reach of two calls. Two threads, two paths, two addresses
  and five calls are enough for two opens of one file, a `clear()` between
  them, the reuse of an address, and a close of the stale descriptor.
  `MaxCalls` and `MaxChanges` bound the counters; the theorems are for every
  value of them.
* `GIoPosix`: four calls, which include open, two further calls and close.
  Files do not change under a program that expects transparency.
* `HookEntry_start`, `RealInit`: three threads; the theorem is for any number.
* `HookEntry_start`, `Vfs`: every path of two characters over both separators, the colon and a
  letter in two cases, and longer ones in a directory, under a root, behind a
  drive or a double slash; three calls, which are an open, a `chdir` and an
  open.
* `Pipeline`: 6 bytes are three chunks, the first, an inner and the last, two
  workers, and every file over a newline, a printable byte and a zero; the
  lookahead is a chunk. A needle of two bytes; strings of at least two bytes and
  a filter that rejects some; UTF-16 strings of one character and more, in SIMD
  blocks of two registers of one byte, so that a chunk has blocks and a tail.
  The theorems on the chunks are for every size. With 6 bytes every last line
  without a newline that crosses a border is among the files, which
  `Covered`, `Disjoint` and `HistExact` include.
* `Pipeline_lastline`: two chunks and a lookahead shorter than a chunk, as in
  the tools.
* `WholeFile_exact`, `GScan`: patterns of up to three bytes over two byte values, a third byte
  that begins none, blocks of two bytes, files of up to five. Lists with an
  empty pattern first or between two others; a length read past the end of
  `pat_len` is any number up to the size of a file.
* `WholeFile_exact`, `Analyze`: files of up to five bytes in blocks of one to three give up to
  three blocks (five for `g_diff`), whole and partial last ones, and block
  counts that differ; two threads; offsets and lengths of a 3-bit word, so that
  their sum wraps; a cap of one string, and files with two. Headers of
  executables take every combination of small values, below, at and past the
  size of the file; names have one byte or three where at most two are copied.

`GRuntime_cache`, `GIoPosix_careless` and `HookEntry_start` use symmetry of
threads, paths and addresses, which no definition tells apart; the runs with a
liveness property use none.

### Fairness

`GIoPosix!FairShimSpec` assumes weak fairness of each thread's `HookStep` and
`KernelOpen`: a thread that is inside a call and can go on does. The mutexes are
held only across system calls that return, and a thread blocked on a mutex is
not assumed to make progress. Nobody is assumed to make calls. A mutex is not
fair, but each waiting thread waits for at most `MaxCalls` critical sections;
starvation by an endless stream of other callers is outside the claim.
`ToolClients!FairClientSpec` assumes weak fairness of the process as a whole:
while some thread can go on, some thread does. No thread waits by looping, so
that is all `CallReturns` needs.

## 4. Findings

The violated runs are places where a comment, the README or a test states
something the code does not do; `PROJECT.json` quotes each: `read` after a seek
past the end copies memory behind the file; `munmap` takes the file out from
under the cache; `g_unicode` loses a string that ends with its chunk; a short last line
without a newline is cut at a chunk border, and `g_grep` misses what it holds;
`g_scan` misses matches with more than 32 first bytes; `g_sections` reads a
name from behind the file.

Met while modelling, with no run of their own:

* `open_read` returns -1 for an empty file ("an empty file is valid too",
  `g_runtime.hpp:213`) and keeps its reference; the hook then opens the file
  through the kernel, so a program does not notice. `RefsExact` leaves empty
  files out.
* `clear()` does not reset `bytes_` ("total size of the cached mmaps",
  `g_runtime.hpp:199`).
* FIONREAD reports the size from position 0 ("from the current position",
  `g_io_posix.cpp:368`). `Transparent` asks it at position 0 unless the program
  has the habit.
* The cache serves a file as it was at the first open, also to a program that
  has written to it since. `OneVersion` is what holds: nobody sees two versions.
* The key of a relative path does not name the directory (`g_io_posix.cpp:156`):
  after `chdir` a program gets the file of the directory where the name was
  first opened. `RightFile` asks for a directory the program has been in.
* `openat` of a relative path in the root directory builds `//name`
  (`g_io_posix.cpp:189`), from which `normalize` cuts both slashes; the key is
  relative again. `//name`, `a:b` and names with a backslash are changed on Linux
  too, and may be answered with another file. `RightFile` is for other paths.
* `normalize` puts its result in upper case on Vita and Win32, where the
  comments (`g_runtime.hpp:53-54`) show lower case, and looks for the root
  letter by letter and behind a drive it has cut off: with the root that the
  source gives as an example for Vita (`g_runtime.hpp:37`) a path that has been
  through `normalize` gets the root twice ("idempotent", `g_runtime.hpp:67`).
  `RootedOnce` asks for a root in upper case that does not begin like a drive or
  a double slash (`SafeRoot`). On Win32 `/` stays as it is, so
  `a/b` and `a\b` have two keys.
* The store of `fdopen`, the last function looked up, and that of the flag may
  be swapped (`g_io_posix.cpp:101-102`), so a thread that sees the flag can find
  `fdopen` missing and get a null stream.
* A process with more than 24576 descriptors gets numbers from the kernel that
  the hooks take for theirs (`g_runtime.hpp:206`); `KernelFds` stays below
  `Base` in the runs.
* Bytes of a line longer than the lookahead can be in no chunk, so that the sum
  of the bars of `g_hist` is less than the size of the file
  (`tests/fuzz_api.cpp:10`); `ShortLines` is the condition in the properties.
  With a lookahead longer than a chunk, bytes can be in two chunks
  (`tests/test_core.cpp:65` expects that only past the lookahead).
* Where a border cuts the last line (the run `Pipeline_lastline`), `g_grep` also
  reports the two halves as lines of their own, a needle in each half counts
  twice, and `g_strings` drops the part of a run in front of the border
  (`g_strings.cpp:95`) and reports the rest as a string, against the maximality
  that `tests/fuzz_api.cpp:6` asks for. `LineAligned`, `GrepExact` and
  `StringsExact` exclude this case and no other with `LastLineWhole`; the bytes
  themselves are all in chunks (`Covered`), and `g_hist` is right.
* After a failed `append` the count of `g_strings` exceeds its records
  (`c_abi.h:44`).
* A UTF-16 string at the end of a file can have an odd length (`c_abi.h:74`),
  and in a chunk that begins at an odd offset the tail of the scan takes the
  two detectors for each other (`g_analyze.cpp:255`).
* `g_scan` does not add an empty pattern (`g_scan.cpp:115`), and indexes the
  lengths of the added patterns by the number in the caller's list
  (`g_scan.cpp:174`): the patterns after an empty one are reported at offsets
  computed from another length, and the last index is past the vector's end.
  `CountsExact` is what still holds.
* `within()` computes the distance to the end of the file in `size_t`
  (`g_analyze.cpp:327`): a PE header or section table that begins past the end
  makes it huge, and the check passes. `SectionsInFile` is violated by this as
  well as by the names that the run `Analyze_bounds` meets first: with the ELF
  files taken out of `MCImages`, TLC finds a PE table past the end.
  `TablesInFile` leaves out the PE files whose header or table begins past the
  end, and of a name is only about where it begins.
* An answer without records has `data == NULL`, as a failed call has; the Rust
  `is_error` ("true if the node reported an error", `lib.rs:43`) does not tell
  them apart, `read_bytes` at or past the end of the file is `None`, and the
  command line tools say that the file could not be opened when there is no
  match (`g_grep_cli.cpp:47`, `g_strings_cli.cpp:65`).
* The Python functions return early without `g_result_free` when there is no
  data (`g_grep.py:54`, `g_strings.py:45`), which loses the empty `FlatArena`.
  `strings()` reads `count * 16` bytes (`g_strings.py:48`), too many after a
  lost record. Lines with a NUL in them are split by every caller of `g_grep`,
  and Python drops empty ones. The texts are read from a second mapping of the
  file (`g_strings.py:52`, `g_strings_cli.cpp:69`), which may have changed.
* A failed `append` drops a block from `g_entropy_profile` without a trace, and
  makes `n_strings` of `g_recon` exceed its records (`g_analyze.cpp:51, 545`).
* The lengths of `g_diff` are 32 bits wide: a run or a tail of 4 GiB or more is
  truncated (`g_analyze.cpp:479, 486`). The last CHANGED range may reach past
  the end of the files, because a partial block counts as a whole one.

## 5. Proofs

All from the constants' named assumptions, which say that sizes and counts are
words, the null pointer is no address, a chunk, a block and a string are not
empty, there is a worker and finitely many, and the characters include the
separators, the colon and the letter in its two cases. `RealInit` has none.

`GRuntime_proofs` - `Invariance` proves `IInv`, the conjunction of
`TypeOK`; `LockInv` (a thread at "mapping" is alone, and its key is not cached;
one at "closing" is alone, and its descriptor is in the table); `IdInv` (ids
are never reused, everything cached is younger than the latest `clear()`, and a
slice in use is the cached one of its id unless older); `NullInv` (the empty
files, and only these, are cached without an address); `MemInv` (cached
non-empty files and live mappings correspond one to one); `KeyInv` (a file is
cached under the path it was created at). The parts that do not speak of the
mappings are `CoreInv`, and are preserved without the others. None of the properties is inductive
alone: that a close finds its descriptor needs the mutex, that a descriptor's
memory is there needs the history of ids, because addresses are reused. From it
follow `TypeCorrect`, `BackedHandles`, `SingleVersion`, `DescriptorIdentity` (an
action property) and `BoundedAccess`. The proof goes action by action; calls
that touch no more than a position are handled once (`TableCallEffect`,
`QuietStep`). `ExactReferences` is inductive relative to `IInv`: the users of an
id are the descriptors and the opens on it, two finite sets, and each action
adds or removes one element (`OneMoreUser`, `InsertUsers`, `ReleaseUsers`) as it
changes the count. `OwnedMappings` adds that `mmaps_` counts the entries.

`GIoPosix_proofs` - seen from the runtime, a hook is one of the runtime's own
steps (`Called`), leaves its tables alone (`Passes`), or is a `munmap` or a write
by the program (`RuntimeSteps`). `munmap` breaks `MemInv` and nothing else, so
`CoreInv` is inductive under every program, and `ShimReferences` and
`ShimIdentity` hold for all `Habits`; `KeptInRam` needs only that the program
does not unmap, which is what the run `GIoPosix_munmap` shows to be necessary.
`Implements` is the refinement `Transparent`, under three hypotheses: the
program has no habits; the kernel's descriptors are below `kFakeFdBase`
(`KernelBelow`: the code tells the two kinds apart by that comparison alone);
and a position inside a file plus an offset of `lseek` fits `off_t`
(`OffsetsFit`: the code adds them unchecked). TLC evaluates the last two on the
runs' constants (`InstanceFits`). The invariant it needs is `ShimIInv`
(`ShimInvariance`): besides `IInv`, every cached slice, every slice an
unfinished open holds and every descriptor's slice is a file as it is on disk,
and no position is past its end (`DiskInv`). Without it the slice an open
delivers in its second critical section could be another file than the one
`PosixFile` opens, and `read`'s `size - pos` could wrap. The descriptors the
program sees are a function of the two tables and the disk (`View`); one lemma
per table says what adding, removing and moving a descriptor does to it, and
one per call takes the hook to the step of `PosixFile` (`StepRefines`,
`ReadRefines`, `SeekRefines`, ...). An open takes effect where its descriptor
enters the table, a close where it leaves it; the other steps inside a call
stutter.

`Pipeline_proofs` begins with `ChunkAllocator`, over which the pipeline is
built. `ChunkInvariance` proves `IInv`: every chunk is the `Chunk(s)` of a
fetched counter value `s`, two such values are a chunk size apart, and every
multiple of the chunk size below the counter has been fetched (`FetchInv`).
`DisjointChunks` follows with `WindowsMeet`: the right edge of one
chunk and the left edge of any later one look for the same newline, or the one
window lies within the other. `AlignedChunks` needs in addition that counter
values are multiples of the chunk size (`FetchInv`), hence borders, and that an
edge at a border is behind a newline (`CutsBehindNewline`): under `ShortLines` a
newline is found unless none is left in the file, which `LastLineWhole` allows
only at the beginning of the last line. `CoveredFile` does without
`LastLineWhole`, because both edges at a border look at the same bytes and agree
(`NoGap`); it takes a byte, the window it lies in, and the edges of the chunks of
that window and of its neighbours: one of them has the byte.

Then it goes on to what the tools answer, and what their callers make of it.
First the loops: `MaskIs`, `NextZeroIs` and their like show that the vector
primitives compute what a byte loop would, and then that `GrepScan`,
`StringsScan`, `HistScan` and `UnicodeScan` find in one chunk the lines, runs,
bytes and UTF-16 strings of that chunk, in ascending order. `PipeInvariance`
proves `PipeIInv`, under any interleaving: a worker at "chunk" holds a chunk that
was handed out and that no one else holds (`WorkInv`, `HeldOnce`); the arenas
hold records of the chunks that are finished, no offset twice, all of them unless
an `append` failed, and the counters add up to their number whatever failed
(`ArenaInv`); an answer is the merge of those arenas (`AnswerInv`). None of the
answers is inductive alone: that a record is there once needs that its chunk was
scanned once, which needs that the chunks are disjoint, hence `IInv` of
`ChunkAllocator` and the hypothesis `Apart` (the lookahead is no larger than a
chunk, or the lines are short), which `GrepExact`, `StringsExact` and
`HistExact` contain as `ShortLines`. When all workers are through, the finished
chunks are all chunks, and `Covered`, `Disjoint` and, under `LastLineWhole`,
`LineAligned` put what was found in them together to what one pass over the file
finds: `GrepLines`, `StringsRuns`, `HistBytes`. The last needs no lines, only
bytes, and so has no `LastLineWhole`.
`UnicodeStrings` has two hypotheses: `Lookahead <= ChunkSize`, as the tools have
it (1 MiB and 4 MiB), and `NoneDense`, that no UTF-16 string exceeds the entropy
limit, as when the filter is off: the reference answer of `UnicodeExact` does not
filter.
`ClientInvariance` and `BuffersGivenBack` follow the `g_result` through the
stages of a call. `CallersExact` says what is decoded: a NUL behind each line
cuts the buffer where the lines were joined (`FlatCuts`, `ZeroEnds`), and the
positions of the NULs have one ascending enumeration (`EnumeratedOnce`).

`RealInit_proofs` - `Invariance` (of `RealIInv`) and `FunctionsFound`, for any
number of threads. The property alone is not inductive: `ResolvedBehind` adds that the
flag, or a thread past the look-ups, vouches for every pointer but the last, and
that what a thread has stored stays stored.

`Vfs_proofs` - `Invariance` proves that every key names the file cached under it
(`KeysNameFiles`), from which `RightFiles` follows because `normalize` leaves
plain paths alone in the hooks' configuration; `RootsKept` and `CaseBlindKeys`
are about `normalize` itself, for paths of any length over any alphabet.

`Sorting_proofs` - what the sort does to records: `SortRecords` shows that the
result has the records of the argument and ascends, because ranks are distinct
(`RankGrows`) and take every value (`RankOnto`). `FlattenRecords` shows the same
of the concatenation of the arenas. `FlattenSeq` is a recursive function; what
it returns is proved by looking at the least length where it would fail
(`LeastNat`), which stands in for induction.

`Analyze_proofs` - `Invariance` proves `ClientIInv`: the tools' `IInv` and the
stages of a Rust call. `ResultInv` says what every answer is once the call is
over (`Due`). `EntropyInv` says that a thread has recorded, in ascending order,
the blocks of its stride up to where it stands, all of them unless an `append`
failed (`Visited`); that the strides of all the threads partition the blocks
gives `EntropyBlocks` through the sorting lemmas. `DiffInv` says that the run list
is the changed blocks so far, grouped, and gives `Differences`. `ReconInv` says
that the detector (`Detector`) is inside the run that the bytes in front of the
position form and that the records are the first maximal runs that ended there
(`Collected`); it gives `Reconnaissance`, whose count is a cardinality. `Slices`
and `SectionTables` are arithmetic in words, `RustValues` and `RustDrops` follow
the buffer through the C ABI.

`GScan_proofs` - `ScanInvariant` proves `ScanIInv`, for every list of patterns,
every file and every size of a block. Its first half needs no condition: the
automaton stands at a node that the bytes read end with, and a record of a pattern
in `Located` (those before the first empty one) is an occurrence in them. Its
second half has the hypothesis `Sees`: the build has no AVX2, or there are no more
first bytes than lanes. `GScan_lanes` shows that it is necessary. Under `Sees` the
node is the longest end of the bytes read that is one (`LongestEnd`), and the
records are exact for them (`Emitted`). `ScanExact` and `CountsExact` are
not inductive alone: they speak of the end of the file only, and without
`LongestEnd` a byte could complete a match the automaton has lost track of.
The argument has three parts.
(1) The automaton. The links that `build` computes are what the textbook says: the
fail link of a node is its longest proper end that is a node. `Fails` is a
recursive function, whose value is not at hand: `SolutionExists` gives a solution
of its equation and `FailIs` its meaning, by looking at the shortest node
where it would fail. From it `ChainIs` says that the chain of links from a node
visits all its ends that are nodes, longest first; `FallbackStep`, that one byte
takes the longest end to the longest end; and `MatchedAre`, that the outputs
on the chain are the patterns the text ends with, each once.
(2) A byte. The patterns the text ends with are those that the byte completes
(`OccurredNext`), so that reading it keeps the records exact (`FeedSound`,
`FeedExact`); the counts are cardinalities of two disjoint sets (`NewCounted`).
(3) A skipped block. In the root, with no first byte in the block, no node begins
in it or before it and ends in it (`NoneUnderWay`), so nothing occurs there and
the root is still the longest end (`SkipKeeps`).
The results: `ScanIsExact` and `CountsAreExact` under `Sees`, `PortableScanIsExact`
without AVX2 under no condition, and `NoFalseMatch`, which needs none: the gate
makes the scan miss matches and never invent one.

## 6. Only model-checked

Liveness (`EveryCallReturns`, `CallReturns`), which needs fairness. Every safety
property of the passing runs is the subject of a theorem.

## 7. Not modelled, and the plan

Not modelled: `shannon_entropy` (floating point) and `count_byte` (used by a
test only); `g_hash` (FNV-1a and CRC32C: arithmetic on 64-bit words without
control); the classification of sections; failed allocations
of `g_grep`, which makes two appends per line; the Rust `hash`, `scan` and
`hist`, which decode as the modelled functions do; argument parsing, the
statistics of the shim, demo and benchmarks.

Next: the callers of the tools that have none here, and `g_hash`, once there is a
property about it that is more than its arithmetic.
