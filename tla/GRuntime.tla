------------------------------ MODULE GRuntime ------------------------------
(***************************************************************************)
(* The slice cache and the fake-descriptor table of g-runtime:             *)
(* grt::MmapCache and grt::FdTable (runtime/include/grt/g_runtime.hpp),    *)
(* used by several threads of the host program.                            *)
(*                                                                         *)
(* Both classes have one mutex.  Every method is one critical section but  *)
(* two: open_read() enters the cache (ingest), leaves it, and only then    *)
(* enters the table; close() holds the table's mutex while it waits for    *)
(* the cache's (release).  A thread inside MmapFile::open holds the        *)
(* cache's mutex ("mapping"), a thread inside close() holds the table's    *)
(* ("closing"): those two program counters are the two mutexes.            *)
(***************************************************************************)
EXTENDS Integers, FiniteSets, FiniteSetsExt

CONSTANTS
    Threads,     \* threads of the host program
    Paths,       \* cache keys: paths after Vfs::cache_key
    Addrs,       \* addresses the kernel may map a file at
    Null,        \* nullptr, and "no path"
    Sizes,       \* sizes a file on disk may have
    Counts,      \* unsigned arguments: byte counts, positions
    Offsets,     \* signed arguments of lseek
    Base,        \* kFakeFdBase
    WordSize,    \* 2^64: the modulus of size_t and uint64_t
    MaxCalls,    \* bound: calls the threads make altogether
    MaxChanges   \* bound: changes other processes make to the files

ASSUME GRuntimeAssumption ==
    /\ Null \notin Paths /\ Null \notin Addrs
    /\ Sizes \subseteq Nat /\ Counts \subseteq Nat /\ Offsets \subseteq Int
    /\ Base \in Nat \ {0}
    /\ WordSize \in Nat \ {0} /\ WordSize % 2 = 0
    /\ \A n \in Sizes \cup Counts : n < WordSize
    /\ MaxCalls \in Nat /\ MaxChanges \in Nat
    /\ IsFiniteSet(Threads)

VARIABLES
    disk,      \* existing files: path -> [file, size]; written by other processes
    changes,   \* number of changes made to the files; stamps new ones
    mem,       \* live mappings: address -> file it shows
    slices,    \* MmapCache::slices_: key -> [slice, refs]
    nextId,    \* MmapCache::next_id_
    mmaps,     \* MmapCache::mmaps_
    bytes,     \* MmapCache::bytes_
    handles,   \* FdTable::handles_: fd -> [slice, pos]
    nextFd,    \* FdTable::next_fd_
    call,      \* what each thread is executing
    calls,     \* calls made so far
    last,      \* arguments and result of the call that returned last
    clearMark  \* history: next_id_ at the latest clear()

diskVars  == <<disk, changes>>
cacheVars == <<slices, nextId, mmaps, bytes, mem, clearMark>>
tableVars == <<handles, nextFd>>
vars == <<diskVars, cacheVars, tableVars, call, calls, last>>

-----------------------------------------------------------------------------
(* std::map as a function with a changing domain. *)

Put(m, k, v) == [x \in DOMAIN m \cup {k} |-> IF x = k THEN v ELSE m[x]]
Del(m, k)    == [x \in DOMAIN m \ {k} |-> m[x]]

(* A file is its path and the stamp of its creation: what (st_dev, st_ino)  *)
(* tells apart.  A slice is what ingest() hands out.                        *)
Files == Paths \X Nat
Word  == 0 .. WordSize - 1
Slice == [data : Addrs \cup {Null}, size : Word, id : Nat,
          file : Files \cup {Null}]
NullSlice == [data |-> Null, size |-> 0, id |-> 0, file |-> Null]

(* Where a thread is in a call, and the arguments it still needs. *)
At(pc, path, slice, fd) == [pc |-> pc, path |-> path, slice |-> slice, fd |-> fd]
Idle == At("idle", Null, NullSlice, 0)

(* off_t and uint64_t are the same 64 bits. *)
Signed(x) == ((x + WordSize \div 2) % WordSize) - WordSize \div 2

Smaller(a, b) == IF a < b THEN a ELSE b

(* The table holds at most the descriptors Base..nextFd-1; callers may also *)
(* pass one that was never issued.                                          *)
Fds == Base .. nextFd

Result(op, id, size, at, val) ==
    [op |-> op, id |-> id, size |-> size, at |-> at, val |-> val]

-----------------------------------------------------------------------------
CacheFree == \A t \in Threads : call[t].pc # "mapping"
FdFree    == \A t \in Threads : call[t].pc # "closing"

Init ==
    /\ \E D \in SUBSET Paths : \E size \in [D -> Sizes] :
          disk = [p \in D |-> [file |-> <<p, 0>>, size |-> size[p]]]
    /\ changes = 0
    /\ mem = [a \in {} |-> Null]
    /\ slices = [p \in {} |-> Null]
    /\ nextId = 1 /\ mmaps = 0 /\ bytes = 0 /\ clearMark = 1
    /\ handles = [fd \in {} |-> Null]
    /\ nextFd = Base
    /\ call = [t \in Threads |-> Idle]
    /\ calls = 0
    /\ last = Result("none", 0, 0, 0, 0)

(* An idle thread makes one more call. *)
Enter ==
    /\ \E t \in Threads : call[t] = Idle
    /\ calls < MaxCalls /\ calls' = calls + 1
-----------------------------------------------------------------------------
(* FdTable::open_read: up to the cache's mutex. *)

OpenRead(t, p) ==
    /\ call[t] = Idle
    /\ Enter
    /\ call' = [call EXCEPT ![t] = At("ingest", p, NullSlice, 0)]
    /\ UNCHANGED <<diskVars, cacheVars, tableVars, last>>

(* What open_read does with the slice ingest returned, s: a null slice is   *)
(* reported as -1, any other one goes on to the table.                      *)
Deliver(t, s) ==
    IF s.data = Null /\ s.size = 0
    THEN /\ call' = [call EXCEPT ![t] = Idle]
         /\ last' = Result("open", s.id, 0, 0, -1)
    ELSE /\ call' = [call EXCEPT ![t] = At("insert", Null, s, 0)]
         /\ UNCHANGED last

Mutant_IngestHit(t) ==
    /\ call[t].pc = "ingest" /\ CacheFree
    /\ call[t].path \in DOMAIN slices
    /\ Deliver(t, slices[call[t].path].slice)
    /\ UNCHANGED <<diskVars, cacheVars, tableVars, calls>>

(* MmapCache::ingest, the key is cached. *)
IngestHit(t) ==
    /\ call[t].pc = "ingest" /\ CacheFree
    /\ call[t].path \in DOMAIN slices
    /\ slices' = [slices EXCEPT ![call[t].path] = [slice |-> @.slice, refs |-> @.refs + 1]]
    /\ Deliver(t, slices[call[t].path].slice)
    /\ UNCHANGED <<diskVars, nextId, mmaps, bytes, mem, clearMark, tableVars, calls>>

Mutant_IngestMiss(t) ==
    /\ call[t].pc = "ingest"
    /\ call[t].path \notin DOMAIN slices
    /\ call' = [call EXCEPT ![t] = At("mapping", call[t].path, NullSlice, 0)]
    /\ UNCHANGED <<diskVars, cacheVars, tableVars, calls, last>>

(* MmapCache::ingest, the key is not cached: the mutex stays held. *)
IngestMiss(t) ==
    /\ call[t].pc = "ingest" /\ CacheFree
    /\ call[t].path \notin DOMAIN slices
    /\ call' = [call EXCEPT ![t] = At("mapping", call[t].path, NullSlice, 0)]
    /\ UNCHANGED <<diskVars, cacheVars, tableVars, calls, last>>

Mutant_MapFail(t) ==
    /\ call[t].pc = "mapping"
    /\ call' = [call EXCEPT ![t] = At("ingest", call[t].path, NullSlice, 0)]
    /\ UNCHANGED <<diskVars, cacheVars, tableVars, calls, last>>

(* MmapFile::open fails: no such file, or open, fstat or mmap refuses. *)
MapFail(t) ==
    /\ call[t].pc = "mapping"
    /\ Deliver(t, NullSlice)
    /\ UNCHANGED <<diskVars, cacheVars, tableVars, calls>>

(* MmapFile::open of file f at address a: the live mappings afterwards, and *)
(* data().  An empty file is open but not mapped: data() is nullptr.        *)
Mapping(f, a) == IF f.size = 0 THEN mem ELSE Put(mem, a, f.file)
Data(f, a)    == IF f.size = 0 THEN Null ELSE a

(* MmapCache::ingest after MmapFile::open succeeded: the entry is cached.   *)
MapOk(t, a) ==
    LET p == call[t].path
        f == disk[p]
        s == [data |-> Data(f, a), size |-> f.size,
              id |-> nextId, file |-> f.file]
    IN  /\ call[t].pc = "mapping"
        /\ p \in DOMAIN disk
        /\ a \notin DOMAIN mem
        /\ mem' = Mapping(f, a)
        /\ slices' = Put(slices, p, [slice |-> s, refs |-> 1])
        /\ nextId' = nextId + 1
        /\ mmaps' = mmaps + 1
        /\ bytes' = bytes + f.size
        /\ Deliver(t, s)
        /\ UNCHANGED <<diskVars, clearMark, tableVars, calls>>

Mutant_Insert(t) ==
    /\ call[t].pc = "insert" /\ FdFree
    /\ LET fd == Min({x \in Fds : x \notin DOMAIN handles})
       IN  /\ handles' = Put(handles, fd, [slice |-> call[t].slice, pos |-> 0])
           /\ nextFd' = IF fd = nextFd THEN nextFd + 1 ELSE nextFd
           /\ last' = Result("open", call[t].slice.id, call[t].slice.size, 0, fd)
    /\ call' = [call EXCEPT ![t] = Idle]
    /\ UNCHANGED <<diskVars, cacheVars, calls>>

(* FdTable::open_read, the table's critical section. *)
Insert(t) ==
    /\ call[t].pc = "insert" /\ FdFree
    /\ handles' = Put(handles, nextFd, [slice |-> call[t].slice, pos |-> 0])
    /\ nextFd' = nextFd + 1
    /\ last' = Result("open", call[t].slice.id, call[t].slice.size, 0, nextFd)
    /\ call' = [call EXCEPT ![t] = Idle]
    /\ UNCHANGED <<diskVars, cacheVars, calls>>
-----------------------------------------------------------------------------
(* The methods that are one critical section of the table.  On() is their   *)
(* common frame: an unknown descriptor returns -1 and changes nothing.      *)

On(op, fd, A(_)) ==
    /\ Enter /\ FdFree
    /\ IF fd \in DOMAIN handles
       THEN A(handles[fd])
       ELSE /\ last' = Result(op, 0, 0, 0, -1)
            /\ UNCHANGED handles
    /\ UNCHANGED <<diskVars, cacheVars, nextFd, call>>

SetPos(fd, pos) == handles' = [handles EXCEPT ![fd] = [slice |-> @.slice, pos |-> pos]]

Mutant_Read(fd, n) ==
    On("read", fd, LAMBDA h :
        LET want == n
        IN  /\ SetPos(fd, (h.pos + want) % WordSize)
            /\ last' = Result("read", h.slice.id, h.slice.size, h.pos, want))

(* FdTable::read: avail is computed in size_t and wraps when pos > size. *)
Read(fd, n) ==
    On("read", fd, LAMBDA h :
        LET avail == (h.slice.size - h.pos) % WordSize
            want  == Smaller(n, avail)
        IN  /\ SetPos(fd, (h.pos + want) % WordSize)
            /\ last' = Result("read", h.slice.id, h.slice.size, h.pos, want))

(* FdTable::pread *)
Pread(fd, n, off) ==
    On("pread", fd, LAMBDA h :
        LET want == IF off >= h.slice.size THEN 0
                    ELSE Smaller(n, h.slice.size - off)
        IN  /\ last' = Result("pread", h.slice.id, h.slice.size, off, want)
            /\ UNCHANGED handles)

Whences == {"SET", "CUR", "END", "other"}

(* FdTable::lseek: the target is a signed 64-bit sum; SEEK_DATA, SEEK_HOLE  *)
(* and the like ("other") are refused.                                      *)
Lseek(fd, off, whence) ==
    On("lseek", fd, LAMBDA h :
        LET from   == CASE whence = "SET" -> 0
                        [] whence = "CUR" -> Signed(h.pos)
                        [] whence = "END" -> Signed(h.slice.size)
                        [] OTHER -> 0
            target == Signed(from + off)
        IN  IF whence = "other" \/ target < 0
            THEN /\ last' = Result("lseek", h.slice.id, h.slice.size, 0, -1)
                 /\ UNCHANGED handles
            ELSE /\ SetPos(fd, target)
                 /\ last' = Result("lseek", h.slice.id, h.slice.size, 0, target))

Mutant_MmapSlice(fd, off, len) ==
    On("mmap", fd, LAMBDA h :
        LET ok == (off + len) % WordSize <= h.slice.size
        IN  /\ last' = Result("mmap", h.slice.id, h.slice.size, off,
                              IF ok THEN len ELSE -1)
            /\ UNCHANGED handles)

(* FdTable::mmap_slice: a pointer into the slice, or nullptr. *)
MmapSlice(fd, off, len) ==
    On("mmap", fd, LAMBDA h :
        LET ok == off <= h.slice.size /\ len <= h.slice.size - off
        IN  /\ last' = Result("mmap", h.slice.id, h.slice.size, off,
                              IF ok THEN len ELSE -1)
            /\ UNCHANGED handles)

(* FdTable::set_pos: no result, an unknown descriptor is ignored. *)
SetPosCall(fd, pos) ==
    On("set_pos", fd, LAMBDA h :
        /\ SetPos(fd, pos)
        /\ last' = Result("set_pos", h.slice.id, h.slice.size, pos, 0))
-----------------------------------------------------------------------------
(* FdTable::close: takes the table's mutex and looks the descriptor up. *)
Close(t, fd) ==
    /\ call[t] = Idle
    /\ Enter /\ FdFree
    /\ IF fd \in DOMAIN handles
       THEN /\ call' = [call EXCEPT ![t] = At("closing", Null, NullSlice, fd)]
            /\ UNCHANGED last
       ELSE /\ last' = Result("close", 0, 0, 0, -1)
            /\ UNCHANGED call
    /\ UNCHANGED <<diskVars, cacheVars, tableVars>>

Mutant_Released(s) ==
    [k \in DOMAIN slices |->
        IF slices[k].slice.data = s.data /\ slices[k].refs > 0
        THEN [slice |-> slices[k].slice, refs |-> slices[k].refs - 1] ELSE slices[k]]

Mutant_Evicts(s) ==
    [k \in {x \in DOMAIN slices : slices[x].slice.id # s.id} |-> slices[k]]

(* MmapCache::release: the entry with the slice's id and address loses a    *)
(* reference and stays cached.                                              *)
Released(s) ==
    [k \in DOMAIN slices |->
        IF slices[k].slice.id = s.id /\ slices[k].slice.data = s.data /\ slices[k].refs > 0
        THEN [slice |-> slices[k].slice, refs |-> slices[k].refs - 1] ELSE slices[k]]

(* FdTable::close: release() under both mutexes, then the handle is erased. *)
Release(t) ==
    /\ call[t].pc = "closing" /\ CacheFree
    /\ slices' = Released(handles[call[t].fd].slice)
    /\ handles' = Del(handles, call[t].fd)
    /\ last' = Result("close", handles[call[t].fd].slice.id, 0, 0, 0)
    /\ call' = [call EXCEPT ![t] = Idle]
    /\ UNCHANGED <<diskVars, nextId, mmaps, bytes, mem, clearMark, nextFd, calls>>

Mutant_Clear ==
    /\ Enter /\ CacheFree
    /\ slices' = [p \in {} |-> Null]
    /\ mmaps' = 0
    /\ clearMark' = nextId
    /\ last' = Result("clear", 0, 0, 0, 0)
    /\ UNCHANGED <<diskVars, mem, nextId, bytes, tableVars, call>>

(* ~MmapFile of the files mapped at the addresses A: munmap. *)
Unmapped(A) == [a \in DOMAIN mem \ A |-> mem[a]]

(* MmapCache::clear: every MmapFile is deleted (and unmapped); bytes_ stays. *)
Clear ==
    /\ Enter /\ CacheFree
    /\ mem' = Unmapped({slices[k].slice.data : k \in DOMAIN slices})
    /\ slices' = [p \in {} |-> Null]
    /\ mmaps' = 0
    /\ clearMark' = nextId
    /\ last' = Result("clear", 0, 0, 0, 0)
    /\ UNCHANGED <<diskVars, nextId, bytes, tableVars, call>>
-----------------------------------------------------------------------------
(* Other processes create, replace (rename over), extend and remove files.  *)

Change == changes < MaxChanges /\ changes' = changes + 1
          /\ UNCHANGED <<cacheVars, tableVars, call, calls, last>>

ReplaceFile(p, size) ==
    /\ Change
    /\ disk' = Put(disk, p, [file |-> <<p, changes + 1>>, size |-> size])

ExtendFile(p, size) ==
    /\ Change
    /\ p \in DOMAIN disk /\ size > disk[p].size
    /\ disk' = [disk EXCEPT ![p] = [file |-> @.file, size |-> size]]

RemoveFile(p) ==
    /\ Change
    /\ p \in DOMAIN disk
    /\ disk' = Del(disk, p)
-----------------------------------------------------------------------------
(* The steps a thread takes inside a call it has entered. *)
Step(t) ==
    \/ IngestHit(t) \/ IngestMiss(t)
    \/ MapFail(t) \/ \E a \in Addrs : MapOk(t, a)
    \/ Insert(t) \/ Release(t)

(* The calls of one critical section of the table. *)
TableCall(fd) ==
    \/ \E n \in Counts : Read(fd, n)
    \/ \E n, off \in Counts : Pread(fd, n, off) \/ MmapSlice(fd, off, n)
    \/ \E off \in Offsets, whence \in Whences : Lseek(fd, off, whence)
    \/ \E pos \in Counts : SetPosCall(fd, pos)

Environment ==
    \E p \in Paths : \/ \E size \in Sizes : ReplaceFile(p, size) \/ ExtendFile(p, size)
                     \/ RemoveFile(p)

(* Every call has returned and no further one is made. *)
Finished ==
    /\ calls = MaxCalls
    /\ \A t \in Threads : call[t] = Idle
    /\ UNCHANGED vars

Next ==
    \/ \E t \in Threads : \/ \E p \in Paths : OpenRead(t, p)
                          \/ \E fd \in Fds : Close(t, fd)
                          \/ Step(t)
    \/ \E fd \in Fds : TableCall(fd)
    \/ Clear
    \/ Environment
    \/ Finished

Spec == Init /\ [][Next]_vars
-----------------------------------------------------------------------------
(* Type invariant of the cache, the table, the threads and the files. *)
TypeOK ==
    /\ DOMAIN disk \subseteq Paths
    /\ \A p \in DOMAIN disk : disk[p] \in [file : Files, size : Sizes]
    /\ changes \in 0 .. MaxChanges
    /\ DOMAIN mem \subseteq Addrs
    /\ \A a \in DOMAIN mem : mem[a] \in Files
    /\ DOMAIN slices \subseteq Paths
    /\ \A k \in DOMAIN slices : slices[k] \in [slice : Slice, refs : Nat]
    /\ nextId \in Nat \ {0} /\ clearMark \in Nat \ {0}
    /\ mmaps \in Nat /\ bytes \in Nat
    /\ DOMAIN handles \subseteq Base .. nextFd - 1
    /\ \A fd \in DOMAIN handles : handles[fd] \in [slice : Slice, pos : Word]
    /\ nextFd \in Nat /\ nextFd >= Base
    /\ call \in [Threads -> [pc : {"idle", "ingest", "mapping", "insert", "closing"},
                             path : Paths \cup {Null}, slice : Slice, fd : Nat]]
    /\ calls \in 0 .. MaxCalls
    /\ last \in [op : {"none", "open", "read", "pread", "lseek", "mmap", "set_pos",
                       "close", "clear"},
                 id : Nat, size : Word, at : Word, val : Int]

HandlesOn(id) == {fd \in DOMAIN handles : handles[fd].slice.id = id}
OpensOn(id)   == {t \in Threads : call[t].pc = "insert" /\ call[t].slice.id = id}

(* A cached file's reference count is the number of open descriptors on it  *)
(* plus the number of open_read calls between the two critical sections,    *)
(* whatever clear() and address reuse did before (ingest, release).         *)
RefsExact ==
    \A k \in DOMAIN slices :
        slices[k].slice.size > 0 =>
            slices[k].refs = Cardinality(HandlesOn(slices[k].slice.id))
                             + Cardinality(OpensOn(slices[k].slice.id))

(* A descriptor opened since the latest clear() reads from a slice that is  *)
(* still cached, and still mapped to the file the descriptor was opened on. *)
HandlesBacked ==
    \A fd \in DOMAIN handles :
        LET s == handles[fd].slice
        IN  s.id >= clearMark =>
                /\ \E k \in DOMAIN slices : slices[k].slice = s
                /\ s.data \in DOMAIN mem /\ mem[s.data] = s.file

(* Between two clear()s a program sees one version of a file: descriptors   *)
(* opened on the same path since the latest clear() read the same slice,    *)
(* whatever other processes did to the path in between (ingest's hit).      *)
OneVersion ==
    \A fd, other \in DOMAIN handles :
        LET s == handles[fd].slice
            o == handles[other].slice
        IN  s.id >= clearMark /\ o.id >= clearMark /\ s.file[1] = o.file[1] => s = o

(* No mapping is lost: each live mapping belongs to exactly one cached      *)
(* entry, and mmaps_ counts the entries.                                    *)
MappingsOwned ==
    /\ \A a \in DOMAIN mem :
          Cardinality({k \in DOMAIN slices : slices[k].slice.data = a}) = 1
    /\ mmaps = Cardinality(DOMAIN slices)

(* pread and mmap_slice only hand out bytes of the slice, and so does read  *)
(* from a position inside it (the size_t arithmetic never wraps there).     *)
AccessInBounds ==
    (last.op \in {"pread", "mmap"} \/ (last.op = "read" /\ last.at <= last.size))
        => last.val <= 0 \/ last.at + last.val <= last.size

(* A descriptor number is never issued twice, and an open descriptor never  *)
(* changes the slice it reads (FdTable::open_read against close).           *)
FdIdentity ==
    [][\A fd \in Base .. nextFd - 1 :
          fd \in DOMAIN handles' =>
              fd \in DOMAIN handles /\ handles'[fd].slice = handles[fd].slice]_vars

(* The strengthening under which the invariants above are inductive.        *)

(* The mutexes: one thread maps, for a key that is not cached; one thread   *)
(* closes, a descriptor that is still in the table.                         *)
LockInv ==
    /\ \A t \in Threads : call[t].pc \in {"ingest", "mapping"} => call[t].path \in Paths
    /\ \A t \in Threads : call[t].pc = "mapping" => call[t].path \notin DOMAIN slices
    /\ \A t \in Threads : call[t].pc = "closing" => call[t].fd \in DOMAIN handles
    /\ \A t, u \in Threads : call[t].pc = "mapping" /\ call[u].pc = "mapping" => t = u
    /\ \A t, u \in Threads : call[t].pc = "closing" /\ call[u].pc = "closing" => t = u

(* A slice that a descriptor or an open_read call holds: it is not null,    *)
(* and it is the cached one of its id unless a clear() dropped that.        *)
Issued(s) ==
    /\ s.data # Null /\ s.id < nextId
    /\ s.id >= clearMark => \E k \in DOMAIN slices : slices[k].slice = s

(* Ids are never reused: what is cached dates from after the latest clear.  *)
IdInv ==
    /\ clearMark <= nextId
    /\ \A k \in DOMAIN slices : clearMark <= slices[k].slice.id /\ slices[k].slice.id < nextId
    /\ \A k, l \in DOMAIN slices : slices[k].slice.id = slices[l].slice.id => k = l
    /\ \A fd \in DOMAIN handles : Issued(handles[fd].slice)
    /\ \A t \in Threads : call[t].pc = "insert" => Issued(call[t].slice)

(* The empty files, and only these, are cached without a mapping.           *)
NullInv == \A k \in DOMAIN slices : slices[k].slice.data = Null <=> slices[k].slice.size = 0

CoreInv == TypeOK /\ LockInv /\ IdInv /\ NullInv

(* Live mappings and cached non-empty files correspond one to one.          *)
MemInv ==
    /\ \A k \in DOMAIN slices :
          LET s == slices[k].slice
          IN  s.data # Null => s.data \in DOMAIN mem /\ mem[s.data] = s.file
    /\ \A k, l \in DOMAIN slices :
          slices[k].slice.data = slices[l].slice.data /\ slices[k].slice.data # Null => k = l
    /\ \A a \in DOMAIN mem : \E k \in DOMAIN slices : slices[k].slice.data = a

(* A file keeps the path it was created under, and a key is the path of     *)
(* its file.                                                                *)
KeyInv ==
    /\ \A p \in DOMAIN disk : disk[p].file[1] = p
    /\ \A k \in DOMAIN slices : slices[k].slice.file[1] = k

IInv == CoreInv /\ MemInv /\ KeyInv

-----------------------------------------------------------------------------
(* What a comment of the source says, and the code does not do. *)

(* "lseek: positioning inside the slice": read() copies bytes of the slice  *)
(* only, wherever lseek() has put the position (g_runtime.hpp:256).         *)
ReadsOnlySliceBytes ==
    last.op = "read" /\ last.val > 0 => last.at + last.val <= last.size
=============================================================================
