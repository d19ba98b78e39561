------------------------------ MODULE GIoPosix ------------------------------
(***************************************************************************)
(* The LD_PRELOAD hooks of libg_io.so (runtime/src/g_io_posix.cpp) over    *)
(* the runtime (GRuntime) and the kernel's own descriptors.  A read-only   *)
(* open goes to FdTable::open_read and, when that fails, to the kernel;    *)
(* every call on a descriptor >= Base goes to the table, every other one   *)
(* to the kernel; munmap always goes to the kernel.                        *)
(*                                                                         *)
(* While a thread is inside open_read its g_in_shim flag is set, so the    *)
(* open() that MmapFile::open makes there is the kernel's: it is part of   *)
(* GRuntime's MapOk and MapFail.                                           *)
(***************************************************************************)
EXTENDS GRuntime

CONSTANTS
    KernelFds,   \* descriptor numbers the kernel hands out
    Habits       \* what the program does beyond opening, reading and closing:
                 \* "seek past end", "map past end" (or map nothing), "write",
                 \* "munmap", "fionread" (FIONREAD on a file that was partly
                 \* read), "stale" (stdio, fcntl, fadvise on a descriptor that is
                 \* not open) and "dup" (fcntl(F_DUPFD) &c.)

HabitNames == {"seek past end", "map past end", "write", "munmap", "fionread", "stale", "dup"}

(* off_t is a signed word. *)
ASSUME GIoPosixAssumption ==
    /\ KernelFds \subseteq Nat
    /\ Habits \subseteq HabitNames
    /\ \A off \in Offsets : -(WordSize \div 2) <= off /\ off < WordSize \div 2

VARIABLES
    hook,     \* per thread: the path an open() hook is working on, or Null
    kfds,     \* the kernel's table: fd -> [path, file, pos]
    mapped,   \* addresses the program got from mmap() on a fake descriptor
    streams,  \* fake descriptors with a FILE* made by fdopen()
    ret       \* what the latest hook returned: [op, fd, file, at, val]

hookVars == <<hook, kfds, mapped, streams, ret>>
shimVars == <<vars, hookVars>>

is_fake(fd) == fd >= Base

Free(t) == call[t] = Idle /\ hook[t] = Null

Return(op, fd, at, val) ==
    ret' = [op |-> op, fd |-> fd, at |-> at, val |-> val,
            file |-> IF fd \in DOMAIN handles THEN handles[fd].slice.file
                     ELSE IF fd \in DOMAIN kfds THEN kfds[fd].file ELSE Null]

ShimInit ==
    /\ Init
    /\ hook = [t \in Threads |-> Null]
    /\ kfds = [fd \in {} |-> Null]
    /\ mapped = {} /\ streams = {}
    /\ ret = [op |-> "none", fd |-> -1, at |-> 0, val |-> 0, file |-> Null]
-----------------------------------------------------------------------------
(* open, open64 and openat with read_only(flags): into open_read. *)
HookOpen(t, p) ==
    /\ Free(t)
    /\ OpenRead(t, p)
    /\ hook' = [hook EXCEPT ![t] = p]
    /\ UNCHANGED <<kfds, mapped, streams, ret>>

(* openat relative to a directory descriptor: straight to the kernel. *)
HookOpenat(t, p) ==
    /\ Free(t)
    /\ Enter
    /\ hook' = [hook EXCEPT ![t] = p]
    /\ UNCHANGED <<diskVars, cacheVars, tableVars, call, last, kfds, mapped, streams, ret>>

(* The thread's steps inside the runtime.  The hook is over when open_read  *)
(* has issued a descriptor or close() is through; when open_read returned   *)
(* -1 it goes on with the kernel's open.                                    *)
HookStep(t) ==
    /\ Step(t)
    /\ \/ /\ nextFd' # nextFd
          /\ hook' = [hook EXCEPT ![t] = Null]
          /\ Return("open", -1, 0, nextFd)
          /\ UNCHANGED streams
       \/ /\ call[t].pc = "closing"
          /\ Return("close", call[t].fd, 0, 0)
          /\ UNCHANGED <<hook, streams>>
       \/ /\ nextFd' = nextFd /\ call[t].pc # "closing"
          /\ UNCHANGED <<hook, streams, ret>>
    /\ UNCHANGED <<kfds, mapped>>

Lowest(S) == {Min({n \in S : n \notin DOMAIN kfds})}

(* The kernel's open after open_read returned -1: external. *)
KernelOpen(t) ==
    /\ hook[t] # Null /\ call[t] = Idle
    /\ hook' = [hook EXCEPT ![t] = Null]
    /\ \/ /\ hook[t] \in DOMAIN disk /\ KernelFds \ DOMAIN kfds # {}
          /\ \E fd \in Lowest(KernelFds) :
               /\ kfds' = Put(kfds, fd, [path |-> hook[t], file |-> disk[hook[t]].file, pos |-> 0])
               /\ Return("open", -1, 0, fd)
       \/ /\ Return("open", -1, 0, -1)
          /\ UNCHANGED kfds
    /\ UNCHANGED <<vars, mapped, streams>>
-----------------------------------------------------------------------------
(* read, __read_chk, lseek, mmap and their 64-bit forms on a fake    *)
(* descriptor: one critical section of the table.  cookie_read and          *)
(* cookie_seek of an fdopen()ed stream are the same calls.                  *)
Fake(A) == A /\ UNCHANGED <<hook, kfds, streams>>

HookRead(fd, n) ==
    Fake(/\ is_fake(fd) /\ Read(fd, n)
         /\ Return("read", fd, last'.at, last'.val) /\ UNCHANGED mapped)

HookLseek(fd, off, whence) ==
    Fake(/\ is_fake(fd) /\ Lseek(fd, off, whence)
         /\ "seek past end" \in Habits \/ last'.val <= last'.size
         /\ Return("lseek", fd, 0, last'.val) /\ UNCHANGED mapped)

HookMmap(fd, off, len) ==
    Fake(/\ is_fake(fd) /\ MmapSlice(fd, off, len)
         /\ "map past end" \in Habits \/ (len > 0 /\ off + len <= last'.size)
         /\ Return("mmap", fd, last'.at, last'.val)
         /\ mapped' = IF last'.val >= 0 THEN mapped \cup {handles[fd].slice.data} ELSE mapped)

(* Hooks that only report.  fstat, fstat64 and ioctl(FIONREAD) look the     *)
(* descriptor up, and FIONREAD gives the size of the slice, whatever the    *)
(* position.  The others do not look: another ioctl is refused, fcntl       *)
(* answers F_GETFL and F_GETFD for any number >= Base and refuses the rest, *)
(* posix_fadvise and fadvise64 accept every advice.                         *)
Reports(op, fd, val) ==
    Fake(/\ is_fake(fd) /\ Enter
         /\ Return(op, fd, 0, val)
         /\ UNCHANGED <<diskVars, cacheVars, tableVars, call, last, mapped>>)

SliceSize(fd) == IF fd \in DOMAIN handles THEN handles[fd].slice.size ELSE -1

HookFstat(fd) == FdFree /\ Reports("fstat", fd, SliceSize(fd))

HookIoctl(fd) ==
    \/ /\ "fionread" \in Habits \/ (fd \in DOMAIN handles => handles[fd].pos = 0)
       /\ FdFree /\ Reports("fionread", fd, SliceSize(fd))
    \/ Reports("ioctl", fd, -1)

HookFcntl(fd) ==
    \/ ("stale" \in Habits \/ fd \in DOMAIN handles) /\ Reports("fcntl", fd, 0)
    \/ "dup" \in Habits /\ Reports("fcntl", fd, -1)

HookFadvise(fd) ==
    ("stale" \in Habits \/ fd \in DOMAIN handles) /\ Reports("fadvise", fd, 0)

(* pread and pread64: a negative offset is refused without a look. *)
HookPread(fd, n, off) ==
    IF off < 0 THEN Reports("pread", fd, -1)
    ELSE Fake(/\ is_fake(fd) /\ Pread(fd, n, off)
              /\ Return("pread", fd, last'.at, last'.val) /\ UNCHANGED mapped)

(* munmap: always the kernel's, also for an address inside the cache. *)
HookMunmap(a) ==
    /\ "munmap" \in Habits
    /\ Enter
    /\ a \in mapped
    /\ mem' = Del(mem, a)
    /\ mapped' = mapped \ {a}
    /\ UNCHANGED <<diskVars, slices, nextId, mmaps, bytes, clearMark, tableVars, call, last,
                   hook, kfds, streams, ret>>

(* fdopen: a stream over the fake descriptor, open or not. *)
HookFdopen(fd) ==
    /\ is_fake(fd) /\ fd \notin streams
    /\ "stale" \in Habits \/ fd \in DOMAIN handles
    /\ Enter
    /\ streams' = streams \cup {fd}
    /\ UNCHANGED <<diskVars, cacheVars, tableVars, call, last, hook, kfds, mapped, ret>>

(* close on a fake descriptor. *)
HookClose(t, fd) ==
    /\ Free(t) /\ is_fake(fd)
    /\ Close(t, fd)
    /\ IF fd \in DOMAIN handles THEN UNCHANGED ret ELSE Return("close", fd, 0, -1)
    /\ UNCHANGED <<hook, kfds, mapped, streams>>

(* fclose on a stream: cookie_close closes the descriptor and returns 0,    *)
(* whatever close() said.                                                   *)
HookFclose(t, fd) ==
    /\ Free(t) /\ fd \in streams
    /\ "stale" \in Habits \/ fd \in DOMAIN handles
    /\ Close(t, fd)
    /\ streams' = streams \ {fd}
    /\ IF fd \in DOMAIN handles THEN UNCHANGED ret ELSE Return("close", fd, 0, 0)
    /\ UNCHANGED <<hook, kfds, mapped>>
-----------------------------------------------------------------------------
(* The kernel's side of the hooks, for descriptors < Base: external. *)
SizeOf(k) == IF k.path \in DOMAIN disk /\ disk[k.path].file = k.file
             THEN disk[k.path].size ELSE 0

KernelRead(fd, n) ==
    /\ Enter
    /\ fd \in DOMAIN kfds /\ ~is_fake(fd)
    /\ LET k == kfds[fd]
           val == IF k.pos >= SizeOf(k) THEN 0 ELSE Smaller(n, SizeOf(k) - k.pos)
       IN  /\ kfds' = [kfds EXCEPT ![fd].pos = @ + val]
           /\ Return("read", fd, k.pos, val)
    /\ UNCHANGED <<diskVars, cacheVars, tableVars, call, last, hook, mapped, streams>>

KernelClose(fd) ==
    /\ Enter
    /\ fd \in DOMAIN kfds /\ ~is_fake(fd)
    /\ kfds' = Del(kfds, fd)
    /\ Return("close", fd, 0, 0)
    /\ UNCHANGED <<diskVars, cacheVars, tableVars, call, last, hook, mapped, streams>>

(* open for writing, write and close by the program: never the table. *)
KernelWrite(p, size) ==
    /\ "write" \in Habits
    /\ Enter
    /\ p \in DOMAIN disk /\ size > disk[p].size
    /\ disk' = [disk EXCEPT ![p].size = size]
    /\ UNCHANGED <<changes, cacheVars, tableVars, call, last, hookVars>>
-----------------------------------------------------------------------------
ShimFinished ==
    /\ calls = MaxCalls
    /\ \A t \in Threads : Free(t)
    /\ UNCHANGED shimVars

ShimNext ==
    \/ \E t \in Threads :
         \/ \E p \in Paths : HookOpen(t, p) \/ HookOpenat(t, p)
         \/ HookStep(t) \/ KernelOpen(t)
         \/ \E fd \in Fds : HookClose(t, fd) \/ HookFclose(t, fd)
    \/ \E fd \in Fds :
         \/ \E n \in Counts : HookRead(fd, n)
         \/ \E n \in Counts, off \in Counts \cup Offsets : HookPread(fd, n, off)
         \/ \E n, off \in Counts : HookMmap(fd, off, n)
         \/ \E off \in Offsets, whence \in Whences : HookLseek(fd, off, whence)
         \/ HookIoctl(fd) \/ HookFstat(fd) \/ HookFcntl(fd)
         \/ HookFadvise(fd) \/ HookFdopen(fd)
    \/ \E a \in Addrs : HookMunmap(a)
    \/ \E fd \in KernelFds : KernelClose(fd) \/ \E n \in Counts : KernelRead(fd, n)
    \/ \E p \in Paths, size \in Sizes : KernelWrite(p, size)
    \/ ShimFinished

ShimSpec == ShimInit /\ [][ShimNext]_shimVars

(* A thread inside a hook keeps running: the two mutexes are held only      *)
(* across calls that return, and the kernel's open returns.                 *)
FairShimSpec == ShimSpec /\ \A t \in Threads : WF_shimVars(HookStep(t) \/ KernelOpen(t))
-----------------------------------------------------------------------------
(* The program's descriptors: the fake ones and the kernel's. *)
Descriptors ==
    [fd \in DOMAIN handles \cup DOMAIN kfds |->
        IF fd \in DOMAIN handles
        THEN [file |-> handles[fd].slice.file, size |-> handles[fd].slice.size,
              pos |-> handles[fd].pos]
        ELSE [file |-> kfds[fd].file, size |-> SizeOf(kfds[fd]), pos |-> kfds[fd].pos]]

Posix == INSTANCE PosixFile WITH fs <- disk, ofd <- Descriptors

(* "output byte-identical to running without the shim" (README.md:256):     *)
(* for a program with none of the Habits, the hooks implement the calls     *)
(* they replace, whichever threads make them.                               *)
Transparent == Posix!Spec

(* "the file STAYS in RAM after close(); it is released only by clear()"    *)
(* (g_runtime.hpp:156-158): no call drops a cached slice, or leaves it      *)
(* mapped to anything but its file.                                         *)
StaysInRam ==
    [][\A k \in DOMAIN slices :
          LET s == slices[k].slice
          IN  /\ k \in DOMAIN slices' /\ slices'[k].slice = s
              /\ s.size > 0 => s.data \in DOMAIN mem' /\ mem'[s.data] = s.file]_shimVars

(* Where transparency is claimed: the kernel's descriptors stay below the   *)
(* table's, and a position of a file plus an offset fits off_t.             *)
KernelBelow == \A fd \in KernelFds : fd < Base
OffsetsFit ==
    \A n \in Sizes \cup {0}, off \in Offsets :
        -(WordSize \div 2) <= n + off /\ n + off < WordSize \div 2 /\ n < WordSize \div 2

(* The strengthening under which the hooks implement PosixFile, for a       *)
(* program without habits: every slice is the file as it is on disk, which  *)
(* nobody changes, and no position is past its end.                         *)
HookInv ==
    /\ hook \in [Threads -> Paths \cup {Null}]
    /\ DOMAIN kfds \subseteq KernelFds
    /\ \A fd \in DOMAIN kfds : kfds[fd] \in [path : Paths, file : Files, pos : Nat]

OnDisk(s) == \E p \in DOMAIN disk : s.file = disk[p].file /\ s.size = disk[p].size

DiskInv ==
    /\ \A k \in DOMAIN slices : OnDisk(slices[k].slice)
    /\ \A t \in Threads : call[t].pc = "insert" => OnDisk(call[t].slice)
    /\ \A fd \in DOMAIN handles :
          OnDisk(handles[fd].slice) /\ handles[fd].pos <= handles[fd].slice.size

ShimIInv == IInv /\ HookInv /\ DiskInv

(* Every hook that was entered returns: the table's and the cache's mutexes *)
(* are always taken in an order that lets somebody go on, and an open that  *)
(* the runtime refuses ends in the kernel's open (the open hooks).          *)
EveryCallReturns ==
    \A t \in Threads : ~Free(t) ~> Free(t)
=============================================================================
