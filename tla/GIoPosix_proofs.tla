-------------------------- MODULE GIoPosix_proofs --------------------------
(***************************************************************************)
(* Theorems about the hooks: what the runtime guarantees under any program *)
(* that calls them, and that they implement the calls they replace.        *)
(***************************************************************************)
EXTENDS GIoPosix, GRuntime_proofs, WellFoundedInduction

(* What a hook does to the runtime: a step of the runtime, or no more than  *)
(* a count and a result, or what only a program with that habit does.       *)
Called ==
    \/ \E t \in Threads : \/ \E p \in Paths : OpenRead(t, p)
                          \/ \E fd \in Fds : Close(t, fd)
                          \/ Step(t)
    \/ \E fd \in Fds : TableCall(fd)

Passes ==
    /\ UNCHANGED <<diskVars, cacheVars, tableVars, call>>
    /\ LastOK' /\ calls' \in 0 .. MaxCalls

Unmaps ==
    \E a \in Addrs :
        /\ "munmap" \in Habits
        /\ mem' = Del(mem, a)
        /\ UNCHANGED <<diskVars, slices, nextId, mmaps, bytes, clearMark, tableVars, call, last>>
        /\ calls' \in 0 .. MaxCalls

Writes ==
    \E p \in DOMAIN disk, size \in Sizes :
        /\ "write" \in Habits
        /\ disk' = [disk EXCEPT ![p].size = size]
        /\ UNCHANGED <<changes, cacheVars, tableVars, call, last>>
        /\ calls' \in 0 .. MaxCalls

LEMMA CalledNext == Called => Next
  BY DEF Called, Next

LEMMA OffsetsInWord == \A off \in Offsets : off \in Int /\ (off >= 0 => off \in Word)
<1> SUFFICES ASSUME NEW off \in Offsets PROVE off \in Int /\ (off >= 0 => off \in Word)
  OBVIOUS
<1>1. off \in Int /\ off < WordSize \div 2 /\ WordSize \in Nat \ {0}
  BY GIoPosixAssumption, GRuntimeAssumption
<1>2. WordSize \div 2 <= WordSize /\ WordSize \div 2 \in Nat
  BY <1>1
<1> QED
  BY <1>1, <1>2 DEF Word

(* pread of an offset that no unsigned argument has. *)
LEMMA PreadPasses ==
    ASSUME TypeOK, NEW fd \in Fds, NEW n \in Counts, NEW off \in Word, Pread(fd, n, off)
    PROVE  Passes
<1>1. calls \in 0 .. MaxCalls /\ n \in Nat /\ off \in Nat
  BY GRuntimeAssumption DEF TypeOK, Word
<1>2. calls' \in 0 .. MaxCalls
  BY <1>1, EnterCalls DEF Pread, On
<1>3. CASE fd \notin DOMAIN handles
  <2>1. last' = Result("pread", 0, 0, 0, -1) /\ UNCHANGED <<handles, diskVars, cacheVars, nextFd, call>>
    BY <1>3 DEF Pread, On
  <2> QED
    BY <1>2, <2>1, SizesInWord DEF Passes, LastOK, Result, tableVars
<1>4. CASE fd \in DOMAIN handles
  <2> DEFINE h == handles[fd]
  <2>1. h.slice.id \in Nat /\ h.slice.size \in Word /\ h.slice.size \in Nat
    BY <1>4, GRuntimeAssumption DEF TypeOK, Slice, Word
  <2>2. /\ last' = Result("pread", h.slice.id, h.slice.size, off,
                          IF off >= h.slice.size THEN 0 ELSE Smaller(n, h.slice.size - off))
        /\ UNCHANGED <<handles, diskVars, cacheVars, nextFd, call>>
    BY <1>4 DEF Pread, On
  <2> HIDE DEF h
  <2>3. LastOK'
    BY <1>1, <2>1, <2>2 DEF LastOK, Result, Smaller
  <2> QED
    BY <1>2, <2>2, <2>3 DEF Passes, tableVars
<1> QED
  BY <1>3, <1>4

(* The hooks that leave the runtime's tables alone. *)
Passing ==
    \/ \E t \in Threads : (\E p \in Paths : HookOpenat(t, p)) \/ KernelOpen(t)
    \/ \E fd \in Fds :
         \/ \E n \in Counts, off \in Counts \cup Offsets : HookPread(fd, n, off)
         \/ HookIoctl(fd) \/ HookFstat(fd) \/ HookFcntl(fd) \/ HookFadvise(fd) \/ HookFdopen(fd)
    \/ \E fd \in KernelFds : KernelClose(fd) \/ \E n \in Counts : KernelRead(fd, n)
    \/ ShimFinished \/ UNCHANGED shimVars

LEMMA PassingHooks == ASSUME TypeOK, Passing PROVE Passes
<1>0. LastOK /\ calls \in 0 .. MaxCalls
  BY DEF TypeOK, LastOK
<1>1. ASSUME NEW t \in Threads, NEW p \in Paths, HookOpenat(t, p) PROVE Passes
  BY <1>0, <1>1, EnterCalls DEF HookOpenat, Passes, LastOK
<1>2. ASSUME NEW t \in Threads, KernelOpen(t) PROVE Passes
  BY <1>0, <1>2 DEF KernelOpen, Passes, vars, LastOK
<1>3. ASSUME NEW op, NEW fd \in Fds, NEW val, Reports(op, fd, val) PROVE Passes
  BY <1>0, <1>3, EnterCalls DEF Reports, Fake, Passes, LastOK
<1>4. ASSUME NEW fd \in Fds, NEW n \in Counts, NEW off \in Counts \cup Offsets, HookPread(fd, n, off)
      PROVE  Passes
  <2>1. off \in Int /\ (off >= 0 => off \in Word)
    BY OffsetsInWord, SizesInWord, GRuntimeAssumption
  <2>2. CASE off < 0
    BY <1>3, <1>4, <2>2 DEF HookPread
  <2>3. CASE ~(off < 0)
    BY <1>4, <2>1, <2>3, PreadPasses DEF HookPread, Fake
  <2> QED
    BY <2>2, <2>3
<1>5. ASSUME NEW fd \in Fds, HookIoctl(fd) \/ HookFstat(fd) \/ HookFcntl(fd) \/ HookFadvise(fd)
      PROVE  Passes
  BY <1>3, <1>5 DEF HookIoctl, HookFstat, HookFcntl, HookFadvise
<1>6. ASSUME NEW fd \in Fds, HookFdopen(fd) PROVE Passes
  BY <1>0, <1>6, EnterCalls DEF HookFdopen, Passes, LastOK
<1>7. ASSUME NEW fd \in KernelFds, KernelClose(fd) \/ (\E n \in Counts : KernelRead(fd, n)) PROVE Passes
  BY <1>0, <1>7, EnterCalls DEF KernelClose, KernelRead, Passes, LastOK
<1>8. CASE ShimFinished \/ UNCHANGED shimVars
  BY <1>0, <1>8 DEF ShimFinished, shimVars, vars, Passes, LastOK
<1> QED
  BY <1>1, <1>2, <1>4, <1>5, <1>6, <1>7, <1>8 DEF Passing

LEMMA RuntimeSteps == ASSUME TypeOK, [ShimNext]_shimVars PROVE Called \/ Passes \/ Unmaps \/ Writes
<1>0. calls \in 0 .. MaxCalls
  BY DEF TypeOK
<1>1. ASSUME NEW t \in Threads, NEW p \in Paths, HookOpen(t, p) PROVE Called
  BY <1>1 DEF HookOpen, Called
<1>2. ASSUME NEW t \in Threads, HookStep(t) PROVE Called
  BY <1>2 DEF HookStep, Called
<1>3. ASSUME NEW t \in Threads, NEW fd \in Fds, HookClose(t, fd) \/ HookFclose(t, fd) PROVE Called
  BY <1>3 DEF HookClose, HookFclose, Called
<1>4. ASSUME NEW fd \in Fds, NEW n \in Counts, HookRead(fd, n) PROVE Called
  BY <1>4 DEF HookRead, Fake, TableCall, Called
<1>5. ASSUME NEW fd \in Fds, NEW n \in Counts, NEW off \in Counts, HookMmap(fd, off, n) PROVE Called
  BY <1>5 DEF HookMmap, Fake, TableCall, Called
<1>6. ASSUME NEW fd \in Fds, NEW off \in Offsets, NEW whence \in Whences, HookLseek(fd, off, whence)
      PROVE  Called
  BY <1>6 DEF HookLseek, Fake, TableCall, Called
<1>7. ASSUME NEW a \in Addrs, HookMunmap(a) PROVE Unmaps
  BY <1>0, <1>7, EnterCalls DEF HookMunmap, Unmaps
<1>8. ASSUME NEW p \in Paths, NEW size \in Sizes, KernelWrite(p, size) PROVE Writes
  BY <1>0, <1>8, EnterCalls DEF KernelWrite, Writes
<1> QED
  BY <1>1, <1>2, <1>3, <1>4, <1>5, <1>6, <1>7, <1>8, PassingHooks DEF ShimNext, Passing
-----------------------------------------------------------------------------
(* The runtime's invariant under any program.  munmap takes a mapping away  *)
(* and breaks MemInv, but no other part.                                    *)
LEMMA CoreStep == ASSUME CoreInv, [ShimNext]_shimVars PROVE CoreInv'
<1>0. TypeOK /\ LockInv /\ IdInv /\ NullInv
  BY DEF CoreInv
<1>1. CASE Called
  BY <1>1, CalledNext, CoreNext
<1>2. CASE Passes \/ Unmaps \/ Writes
  <2>1. /\ UNCHANGED <<slices, nextId, mmaps, bytes, clearMark, handles, nextFd, call>>
        /\ LastOK' /\ calls' \in 0 .. MaxCalls
    BY <1>0, <1>2, TypeParts DEF Passes, Unmaps, Writes, cacheVars, tableVars, LastOK
  <2>2. LockInv' /\ NullInv'
    BY <1>0, <2>1 DEF LockInv, NullInv
  <2>3. IdInv'
    BY <1>0, <2>1 DEF IdInv, Issued
  <2>4. TableOK' /\ CallOK'
    BY <1>0, <2>1, TypeParts DEF TableOK, CallOK
  <2>5. CacheOK'
    BY <1>0, <1>2, <2>1, TypeParts DEF Passes, Unmaps, Writes, CacheOK, cacheVars, Del
  <2>6. DiskOK'
    <3>1. CASE Passes \/ Unmaps
      BY <1>0, <3>1, TypeParts, DiskFrame DEF Passes, Unmaps
    <3>2. CASE Writes
      <4>1. PICK p \in DOMAIN disk, size \in Sizes : disk' = [disk EXCEPT ![p].size = size] /\ changes' = changes
        BY <3>2 DEF Writes
      <4>2. DiskOK
        BY <1>0, TypeParts
      <4> QED
        BY <4>1, <4>2 DEF DiskOK
    <3> QED
      BY <1>2, <3>1, <3>2
  <2> QED
    BY <2>1, <2>2, <2>3, <2>4, <2>5, <2>6, TypePartsNext DEF CoreInv
<1> QED
  BY <1>0, <1>1, <1>2, RuntimeSteps

LEMMA ShimCore == ShimSpec => []CoreInv
<1>1. ShimInit => CoreInv
  BY InitInv DEF ShimInit, IInv
<1> QED
  BY <1>1, CoreStep, PTL DEF ShimSpec

(* Whatever the program does with its descriptors, its mappings and its     *)
(* files, the references of a cached file are the descriptors and the       *)
(* unfinished opens on it (the hooks over ingest and release).              *)
THEOREM ShimReferences == ShimSpec => []RefsExact
<1>1. ShimInit => RefsExact
  BY DEF ShimInit, Init, RefsExact
<1>2. ASSUME CoreInv, RefsExact, [ShimNext]_shimVars PROVE RefsExact'
  <2>1. CASE Called
    BY <1>2, <2>1, CalledNext, RefsNext
  <2>2. CASE Passes \/ Unmaps \/ Writes
    <3>1. UNCHANGED <<slices, handles, call>>
      BY <2>2 DEF Passes, Unmaps, Writes, cacheVars, tableVars
    <3> QED
      BY <1>2, <3>1 DEF RefsExact, HandlesOn, OpensOn
  <2> QED
    BY <1>2, <2>1, <2>2, RuntimeSteps DEF CoreInv
<1> QED
  BY <1>1, <1>2, ShimCore, PTL DEF ShimSpec

(* Whatever the program does, no hook makes a descriptor number mean        *)
(* another file (FdTable::open_read and close under the hooks).             *)
THEOREM ShimIdentity == ShimSpec => FdIdentity
<1>1. CoreInv /\ [ShimNext]_shimVars => [SlicesKept]_vars
  <2> SUFFICES ASSUME CoreInv, [ShimNext]_shimVars PROVE SlicesKept
    OBVIOUS
  <2>1. CASE Called
    BY <2>1, CalledNext, KeepsSlices DEF CoreInv
  <2>2. CASE Passes \/ Unmaps \/ Writes
    <3>1. handles' = handles
      BY <2>2 DEF Passes, Unmaps, Writes, tableVars
    <3> QED
      BY <3>1 DEF SlicesKept
  <2> QED
    BY <2>1, <2>2, RuntimeSteps DEF CoreInv
<1> QED
  BY <1>1, ShimCore, PTL DEF ShimSpec, FdIdentity, SlicesKept
-----------------------------------------------------------------------------
(* Without munmap the whole invariant of the runtime holds. *)
LEMMA IInvStep == ASSUME "munmap" \notin Habits, IInv, [ShimNext]_shimVars PROVE IInv'
<1>0. CoreInv /\ TypeOK /\ MemInv /\ KeyInv
  BY DEF IInv, CoreInv
<1>1. CASE Called
  BY <1>1, CalledNext, NextInv
<1>2. CASE Passes
  <2>1. MemInv'
    BY <1>0, <1>2, QuietMem DEF Passes
  <2>2. KeyInv'
    BY <1>0, <1>2 DEF Passes, KeyInv, diskVars, cacheVars
  <2> QED
    BY <1>0, <2>1, <2>2, CoreStep DEF IInv
<1>3. CASE Writes
  <2>1. MemInv'
    BY <1>0, <1>3, QuietMem DEF Writes
  <2>2. PICK p \in DOMAIN disk, size \in Sizes :
            disk' = [disk EXCEPT ![p].size = size] /\ slices' = slices
    BY <1>3 DEF Writes, cacheVars
  <2>3. DOMAIN disk' = DOMAIN disk /\ \A q \in DOMAIN disk : disk'[q].file = disk[q].file
    BY <1>0, <2>2 DEF TypeOK
  <2>4. KeyInv'
    BY <1>0, <2>2, <2>3 DEF KeyInv
  <2> QED
    BY <1>0, <2>1, <2>4, CoreStep DEF IInv
<1> QED
  BY <1>0, <1>1, <1>2, <1>3, RuntimeSteps DEF Unmaps

(* A program that does not unmap the cache's memory: no call drops a cached *)
(* slice or takes its mapping away, so a file stays in RAM (MmapCache,      *)
(* "released only by clear()", g_runtime.hpp:156-158).                      *)
THEOREM KeptInRam == ASSUME "munmap" \notin Habits PROVE ShimSpec => StaysInRam
<1> DEFINE Stays ==
      \A k \in DOMAIN slices :
          LET s == slices[k].slice
          IN  /\ k \in DOMAIN slices' /\ slices'[k].slice = s
              /\ s.size > 0 => s.data \in DOMAIN mem' /\ mem'[s.data] = s.file
<1>1. ShimSpec => []IInv
  <2>1. ShimInit => IInv
    BY InitInv DEF ShimInit
  <2>2. IInv /\ [ShimNext]_shimVars => IInv'
    BY IInvStep
  <2> QED
    BY <2>1, <2>2, PTL DEF ShimSpec
<1>2. IInv /\ [ShimNext]_shimVars => [Stays]_shimVars
  <2> SUFFICES ASSUME IInv, ShimNext PROVE Stays
    OBVIOUS
  <2>1. TypeOK /\ LockInv /\ IInv' /\ MemInv' /\ NullInv'
    BY IInvStep DEF IInv, CoreInv
  <2>2. ASSUME NEW k \in DOMAIN slices
        PROVE  k \in DOMAIN slices' /\ slices'[k].slice = slices[k].slice
    <3>1. ASSUME NEW t \in Threads, Step(t) PROVE k \in DOMAIN slices' /\ slices'[k].slice = slices[k].slice
      <4>1. CASE IngestHit(t) \/ Release(t)
        BY <4>1 DEF IngestHit, Release, Released
      <4>2. CASE IngestMiss(t) \/ MapFail(t) \/ Insert(t)
        BY <4>2 DEF IngestMiss, MapFail, Insert, cacheVars
      <4>3. ASSUME NEW a \in Addrs, MapOk(t, a) PROVE k \in DOMAIN slices' /\ slices'[k].slice = slices[k].slice
        BY <2>1, <4>3 DEF MapOk, Put, LockInv
      <4> QED
        BY <3>1, <4>1, <4>2, <4>3 DEF Step
    <3>2. CASE ~\E t \in Threads : Step(t)
      <4>1. CASE Called
        BY <2>1, <3>2, <4>1, TableCallEffect DEF Called, OpenRead, Close, TableEffect, cacheVars
      <4>2. CASE Passes \/ Writes
        BY <4>2 DEF Passes, Writes, cacheVars
      <4> QED
        BY <2>1, <4>1, <4>2, RuntimeSteps DEF Unmaps
    <3> QED
      BY <3>1, <3>2
  <2>3. ASSUME NEW k \in DOMAIN slices', slices'[k].slice.size > 0
        PROVE  slices'[k].slice.data \in DOMAIN mem' /\ mem'[slices'[k].slice.data] = slices'[k].slice.file
    <3>1. slices'[k].slice.data # Null
      BY <2>1, <2>3 DEF NullInv
    <3> QED
      BY <2>1, <2>3, <3>1 DEF MemInv
  <2> QED
    BY <2>2, <2>3
<1> QED
  BY <1>1, <1>2, PTL DEF ShimSpec, StaysInRam
-----------------------------------------------------------------------------
(* The program's descriptors as a function of the three tables. *)
FakeView(h)     == [file |-> h.slice.file, size |-> h.slice.size, pos |-> h.pos]
KernelSize(d, k) == IF k.path \in DOMAIN d /\ d[k.path].file = k.file THEN d[k.path].size ELSE 0
KernelView(d, k) == [file |-> k.file, size |-> KernelSize(d, k), pos |-> k.pos]
View(h, k, d) ==
    [fd \in DOMAIN h \cup DOMAIN k |->
        IF fd \in DOMAIN h THEN FakeView(h[fd]) ELSE KernelView(d, k[fd])]

LEMMA DescriptorsView ==
    /\ Descriptors = View(handles, kfds, disk)
    /\ Descriptors' = View(handles', kfds', disk')
  BY DEF Descriptors, SizeOf, View, FakeView, KernelView, KernelSize

LEMMA ViewOf ==
    ASSUME NEW h, NEW k, NEW d
    PROVE  /\ DOMAIN View(h, k, d) = DOMAIN h \cup DOMAIN k
           /\ \A fd \in DOMAIN h : View(h, k, d)[fd] = FakeView(h[fd])
           /\ \A fd \in DOMAIN k \ DOMAIN h : View(h, k, d)[fd] = KernelView(d, k[fd])
  BY DEF View

(* Another position of one descriptor: in the specification and in the      *)
(* kernel's table, and in the runtime's.                                    *)
Moved(f, fd, q)  == [f EXCEPT ![fd].pos = q]
Placed(h, fd, q) == [h EXCEPT ![fd] = [slice |-> @.slice, pos |-> q]]

(* One more descriptor, one less, or another position, in either table. *)
LEMMA ViewPut ==
    ASSUME NEW h, NEW k, NEW d, NEW fd, NEW x, fd \notin DOMAIN k
    PROVE  View(Put(h, fd, x), k, d) = Put(View(h, k, d), fd, FakeView(x))
  BY DEF View, Put

LEMMA ViewKernelPut ==
    ASSUME NEW h, NEW k, NEW d, NEW fd, NEW x, fd \notin DOMAIN h
    PROVE  View(h, Put(k, fd, x), d) = Put(View(h, k, d), fd, KernelView(d, x))
  BY DEF View, Put

LEMMA ViewDel ==
    ASSUME NEW h, NEW k, NEW d, NEW fd, fd \notin DOMAIN k
    PROVE  View(Del(h, fd), k, d) = Del(View(h, k, d), fd)
  BY DEF View, Del

LEMMA ViewKernelDel ==
    ASSUME NEW h, NEW k, NEW d, NEW fd, fd \notin DOMAIN h
    PROVE  View(h, Del(k, fd), d) = Del(View(h, k, d), fd)
  BY DEF View, Del

LEMMA ViewPos ==
    ASSUME NEW h, NEW k, NEW d, NEW fd \in DOMAIN h, NEW q
    PROVE  View(Placed(h, fd, q), k, d) = Moved(View(h, k, d), fd, q)
<1> DEFINE g == [h EXCEPT ![fd] = [slice |-> @.slice, pos |-> q]]
           v == View(h, k, d)
           w == View(g, k, d)
           u == [v EXCEPT ![fd].pos = q]
<1>1. /\ DOMAIN g = DOMAIN h /\ g[fd] = [slice |-> h[fd].slice, pos |-> q]
      /\ \A x \in DOMAIN h : x # fd => g[x] = h[x]
  OBVIOUS
<1>2. DOMAIN w = DOMAIN v /\ DOMAIN u = DOMAIN v
  BY <1>1 DEF View
<1>3. u[fd] = [FakeView(h[fd]) EXCEPT !.pos = q] /\ w[fd] = FakeView(g[fd])
  BY <1>1 DEF View
<1>4. u[fd] = w[fd]
  BY <1>1, <1>3 DEF FakeView
<1>5. \A x \in DOMAIN v : x # fd => u[x] = v[x] /\ w[x] = v[x]
  BY <1>1 DEF View
<1>6. u = [x \in DOMAIN v |-> u[x]] /\ w = [x \in DOMAIN v |-> w[x]]
  BY <1>1 DEF View
<1> HIDE DEF u, w, v, g
<1>7. u = w
  BY <1>4, <1>5, <1>6
<1> QED
  BY <1>7 DEF u, w, v, g, Moved, Placed

LEMMA ViewKernelPos ==
    ASSUME NEW h, NEW k, NEW d, NEW fd \in DOMAIN k, fd \notin DOMAIN h, NEW q,
           k[fd] = [path |-> k[fd].path, file |-> k[fd].file, pos |-> k[fd].pos]
    PROVE  View(h, Moved(k, fd, q), d) = Moved(View(h, k, d), fd, q)
<1> DEFINE g == [k EXCEPT ![fd].pos = q]
           v == View(h, k, d)
           w == View(h, g, d)
           u == [v EXCEPT ![fd].pos = q]
<1>1. /\ DOMAIN g = DOMAIN k
      /\ g[fd] = [k[fd] EXCEPT !.pos = q]
      /\ \A x \in DOMAIN k : x # fd => g[x] = k[x]
  OBVIOUS
<1>2. g[fd].path = k[fd].path /\ g[fd].file = k[fd].file /\ g[fd].pos = q
  BY <1>1
<1>3. u[fd] = [KernelView(d, k[fd]) EXCEPT !.pos = q] /\ w[fd] = KernelView(d, g[fd])
  BY <1>1 DEF View
<1>4. u[fd] = w[fd]
  BY <1>2, <1>3 DEF KernelView, KernelSize
<1>5. \A x \in DOMAIN v : x # fd => u[x] = v[x] /\ w[x] = v[x]
  BY <1>1 DEF View
<1>6. u = [x \in DOMAIN v |-> u[x]] /\ w = [x \in DOMAIN v |-> w[x]]
  BY <1>1 DEF View
<1> HIDE DEF u, w, v, g
<1>7. u = w
  BY <1>4, <1>5, <1>6
<1> QED
  BY <1>7 DEF u, w, v, g, Moved

(* A hook returns what the specification's call returns. *)
LEMMA Returned ==
    ASSUME NEW op, NEW fd, NEW at, NEW val, Return(op, fd, at, val)
    PROVE  Posix!Returns(op, fd, at, val)
  BY DEF Return, Posix!Returns, Descriptors
-----------------------------------------------------------------------------
(* The strengthening, for a program without habits: nothing writes, so what *)
(* was on disk when a file was mapped still is.                             *)
LEMMA LeastKernelFd ==
    ASSUME NEW S \in SUBSET KernelFds, S # {}
    PROVE  Min(S) \in S
<1>1. S \subseteq Nat
  BY GIoPosixAssumption
<1>2. PICK n \in S : \A m \in S : ~(<<m, n>> \in OpToRel(<, Nat))
  BY <1>1, NatLessThanWellFounded, WFMin
<1>3. \A m \in S : ~(m < n)
  BY <1>1, <1>2 DEF OpToRel
<1>4. \A m \in S : n <= m
  BY <1>1, <1>3
<1>5. \E x \in S : \A y \in S : x <= y
  BY <1>4
<1> QED
  BY <1>5 DEF Min

LEMMA SizeOfNat == ASSUME TypeOK, NEW k PROVE SizeOf(k) \in Nat
  BY GRuntimeAssumption DEF TypeOK, SizeOf

LEMMA HookInvStep == ASSUME TypeOK, HookInv, [ShimNext]_shimVars PROVE HookInv'
<1> USE DEF HookInv
<1>1. ASSUME UNCHANGED kfds, hook' \in [Threads -> Paths \cup {Null}] PROVE HookInv'
  BY <1>1
<1>2. ASSUME NEW t \in Threads, NEW p \in Paths, HookOpen(t, p) \/ HookOpenat(t, p) PROVE HookInv'
  BY <1>1, <1>2 DEF HookOpen, HookOpenat
<1>3. ASSUME NEW t \in Threads, HookStep(t) PROVE HookInv'
  BY <1>1, <1>3 DEF HookStep
<1>4. ASSUME NEW t \in Threads, KernelOpen(t) PROVE HookInv'
  <2>1. hook' = [hook EXCEPT ![t] = Null] /\ hook[t] # Null
    BY <1>4 DEF KernelOpen
  <2>2. CASE UNCHANGED kfds
    BY <1>1, <2>1, <2>2
  <2>3. CASE ~UNCHANGED kfds
    <3>1. PICK fd \in Lowest(KernelFds) :
              kfds' = Put(kfds, fd, [path |-> hook[t], file |-> disk[hook[t]].file, pos |-> 0])
      BY <1>4, <2>3 DEF KernelOpen
    <3>2. hook[t] \in Paths /\ hook[t] \in DOMAIN disk /\ KernelFds \ DOMAIN kfds # {}
      BY <1>4, <2>1, <2>3 DEF KernelOpen
    <3>3. fd \in KernelFds
      BY <3>1, <3>2, LeastKernelFd DEF Lowest
    <3>4. disk[hook[t]].file \in Files
      BY <3>2 DEF TypeOK
    <3> QED
      BY <2>1, <3>1, <3>2, <3>3, <3>4 DEF Put
  <2> QED
    BY <2>2, <2>3
<1>5. ASSUME NEW t \in Threads, NEW fd, HookClose(t, fd) \/ HookFclose(t, fd) PROVE HookInv'
  BY <1>1, <1>5 DEF HookClose, HookFclose
<1>6. ASSUME NEW fd \in KernelFds, NEW n \in Counts, KernelRead(fd, n) PROVE HookInv'
  <2> DEFINE size == SizeOf(kfds[fd])
             val == IF kfds[fd].pos >= size THEN 0 ELSE Smaller(n, size - kfds[fd].pos)
  <2>1. fd \in DOMAIN kfds /\ kfds' = [kfds EXCEPT ![fd].pos = @ + val] /\ hook' = hook
    BY <1>6 DEF KernelRead
  <2>2. kfds[fd].pos \in Nat /\ size \in Nat /\ n \in Nat
    BY <2>1, SizeOfNat, GRuntimeAssumption
  <2>3. val \in Nat
    BY <2>2 DEF Smaller
  <2> HIDE DEF val
  <2> QED
    BY <2>1, <2>2, <2>3
<1>7. ASSUME NEW fd \in KernelFds, KernelClose(fd) PROVE HookInv'
  BY <1>7 DEF KernelClose, Del
<1>8. CASE UNCHANGED <<hook, kfds>>
  BY <1>8
<1> QED
  BY <1>2, <1>3, <1>4, <1>5, <1>6, <1>7, <1>8
     DEF ShimNext, HookRead, HookPread, HookMmap, HookLseek, HookIoctl, HookFstat, HookFcntl, HookFadvise,
         HookFdopen, HookMunmap, KernelWrite, ShimFinished, Reports, Fake, shimVars, hookVars

(* A table call without the habit of seeking past the end leaves every      *)
(* position inside its file.                                                *)
LEMMA SignedSmall ==
    ASSUME NEW x \in Int, -(WordSize \div 2) <= x, x < WordSize \div 2
    PROVE  Signed(x) = x
<1>1. PICK w \in Nat \ {0} : w = WordSize /\ w % 2 = 0
  BY GRuntimeAssumption
<1>2. PICK v \in Nat : v = w \div 2 /\ w = v + v /\ v > 0
  BY <1>1
<1>3. x + v \in 0 .. w - 1
  BY <1>1, <1>2
<1>4. (x + v) % w = x + v
  BY <1>1, <1>3
<1> QED
  BY <1>1, <1>2, <1>4 DEF Signed

LEMMA DiskKept == ASSUME Habits = {}, TypeOK, [ShimNext]_shimVars PROVE disk' = disk
<1>1. CASE Called
  <2>1. UNCHANGED diskVars
    BY <1>1, TableCallEffect
       DEF Called, TableEffect, OpenRead, Close, Step, IngestHit, IngestMiss, MapOk, MapFail, Insert, Release
  <2> QED
    BY <2>1 DEF diskVars
<1>2. CASE Passes
  BY <1>2 DEF Passes, diskVars
<1> QED
  BY <1>1, <1>2, RuntimeSteps DEF Unmaps, Writes

(* Reading does not leave the file, and moves the position by what it read. *)
ReadMoves(fd, n) ==
    LET h == handles[fd]
        val == Smaller(n, h.slice.size - h.pos)
    IN  /\ val \in 0 .. h.slice.size - h.pos
        /\ handles' = [handles EXCEPT ![fd] = [slice |-> @.slice, pos |-> h.pos + val]]
        /\ Return("read", fd, h.pos, val)

LEMMA HookReads ==
    ASSUME TypeOK, DiskInv, NEW fd \in DOMAIN handles, NEW n \in Counts, HookRead(fd, n)
    PROVE  ReadMoves(fd, n)
<1> DEFINE h == handles[fd]
           avail == (h.slice.size - h.pos) % WordSize
           want == Smaller(n, avail)
<1>1. /\ h.slice.size \in Word /\ h.pos \in Word /\ h.pos <= h.slice.size
      /\ h.slice.size \in Nat /\ h.pos \in Nat /\ n \in Nat
  BY GRuntimeAssumption DEF TypeOK, Slice, DiskInv, Word
<1>2. avail = h.slice.size - h.pos
  BY <1>1, NoWrap
<1>3. want \in 0 .. h.slice.size - h.pos
  BY <1>1, <1>2 DEF Smaller
<1>4. /\ SetPos(fd, (h.pos + want) % WordSize)
      /\ last' = Result("read", h.slice.id, h.slice.size, h.pos, want)
      /\ Return("read", fd, last'.at, last'.val)
  BY DEF HookRead, Fake, Read, On
<1>5. last'.at = h.pos /\ last'.val = want
  BY <1>4 DEF Result
<1>6. (h.pos + want) % WordSize = h.pos + want
  <2>1. WordSize \in Nat \ {0}
    BY GRuntimeAssumption
  <2> HIDE DEF want, h
  <2>2. h.pos + want \in 0 .. WordSize - 1
    BY <1>1, <1>3, <2>1 DEF Word
  <2> QED
    BY <2>1, <2>2
<1> QED
  BY <1>2, <1>3, <1>4, <1>5, <1>6 DEF ReadMoves, SetPos

(* The target of a seek inside the file is computed without overflow. *)
Origin(fd, whence) ==
    CASE whence = "SET" -> 0
      [] whence = "CUR" -> handles[fd].pos
      [] whence = "END" -> handles[fd].slice.size
      [] OTHER -> 0

SeekMoves(fd, off, whence) ==
    LET target == off + Origin(fd, whence)
    IN  IF whence = "other" \/ target < 0
        THEN UNCHANGED handles /\ Return("lseek", fd, 0, -1)
        ELSE /\ target <= handles[fd].slice.size
             /\ handles' = [handles EXCEPT ![fd] = [slice |-> @.slice, pos |-> target]]
             /\ Return("lseek", fd, 0, target)

LEMMA DiskSize ==
    ASSUME TypeOK, NEW s, OnDisk(s)
    PROVE  s.size \in Sizes
  BY DEF TypeOK, OnDisk

LEMMA HookSeeks ==
    ASSUME Habits = {}, OffsetsFit, TypeOK, DiskInv, NEW fd \in DOMAIN handles,
           NEW off \in Offsets, NEW whence \in Whences, HookLseek(fd, off, whence)
    PROVE  SeekMoves(fd, off, whence)
<1>1. PICK size, pos : size = handles[fd].slice.size /\ pos = handles[fd].pos
  OBVIOUS
<1>2. size \in Sizes /\ pos <= size /\ size \in Nat /\ pos \in Nat /\ off \in Int
  <2>1. handles[fd] \in [slice : Slice, pos : Word] /\ OnDisk(handles[fd].slice) /\ pos <= size
    BY <1>1 DEF DiskInv, TypeOK
  <2>2. size \in Sizes
    BY <1>1, <2>1, DiskSize
  <2>3. pos \in Word
    BY <1>1, <2>1
  <2> QED
    BY <2>1, <2>2, <2>3, GRuntimeAssumption DEF Word
<1>3. PICK half \in Int : half = WordSize \div 2
  BY GRuntimeAssumption
<1>4. /\ -half <= size + off /\ size + off < half /\ size < half
      /\ -half <= 0 + off /\ 0 + off < half
  BY <1>2, <1>3 DEF OffsetsFit
<1>5. \A x \in Int : -half <= x /\ x < half => Signed(x) = x
  BY <1>3, SignedSmall
<1>6. Signed(pos) = pos /\ Signed(size) = size
  BY <1>2, <1>4, <1>5
<1>7. PICK from : from = Origin(fd, whence)
  OBVIOUS
<1>8. from \in 0 .. size
  BY <1>1, <1>2, <1>7 DEF Origin, Whences
<1>9. Signed(from + off) = off + from
  <2>1. from + off \in Int /\ -half <= from + off /\ from + off < half
    BY <1>2, <1>4, <1>8
  <2> QED
    BY <1>2, <1>5, <1>8, <2>1
<1>10. from = CASE whence = "SET" -> 0
                [] whence = "CUR" -> Signed(handles[fd].pos)
                [] whence = "END" -> Signed(handles[fd].slice.size)
                [] OTHER -> 0
  BY <1>1, <1>6, <1>7 DEF Origin
<1>11. PICK target \in Int : target = off + from
  BY <1>2, <1>8
<1>12. /\ IF whence = "other" \/ target < 0
           THEN last' = Result("lseek", handles[fd].slice.id, handles[fd].slice.size, 0, -1)
                /\ UNCHANGED handles
           ELSE SetPos(fd, target)
                /\ last' = Result("lseek", handles[fd].slice.id, handles[fd].slice.size, 0, target)
       /\ last'.val <= last'.size
       /\ Return("lseek", fd, 0, last'.val)
  BY <1>9, <1>10, <1>11 DEF HookLseek, Fake, Lseek, On
<1>13. CASE whence = "other" \/ target < 0
  <2>1. last'.val = -1 /\ UNCHANGED handles
    BY <1>12, <1>13 DEF Result
  <2> QED
    BY <1>7, <1>11, <1>12, <1>13, <2>1 DEF SeekMoves
<1>14. CASE ~(whence = "other" \/ target < 0)
  <2>1. last'.val = target /\ last'.size = handles[fd].slice.size /\ SetPos(fd, target)
    BY <1>12, <1>14 DEF Result
  <2> QED
    BY <1>7, <1>11, <1>12, <1>14, <2>1 DEF SeekMoves, SetPos
<1> QED
  BY <1>13, <1>14

(* The other hooks on a descriptor leave the table alone, and return what   *)
(* the table's call did.                                                    *)
Refuses(op, fd) == fd \notin DOMAIN handles /\ UNCHANGED handles /\ Return(op, fd, 0, -1)

LEMMA HookRefuses ==
    ASSUME Habits = {}, NEW fd \in Fds, fd \notin DOMAIN handles
    PROVE  /\ \A n \in Counts : HookRead(fd, n) => Refuses("read", fd)
           /\ \A n \in Counts : \A off : HookPread(fd, n, off) /\ ~(off < 0) => Refuses("pread", fd)
           /\ \A off, whence : HookLseek(fd, off, whence) => Refuses("lseek", fd)
           /\ \A n \in Counts, off \in Counts : ~HookMmap(fd, off, n)
<1>1. ASSUME NEW n \in Counts, HookRead(fd, n) PROVE Refuses("read", fd)
  <2>1. last' = Result("read", 0, 0, 0, -1) /\ UNCHANGED handles /\ Return("read", fd, last'.at, last'.val)
    BY <1>1 DEF HookRead, Fake, Read, On
  <2> QED
    BY <2>1 DEF Result, Refuses
<1>2. ASSUME NEW n \in Counts, NEW off, HookPread(fd, n, off), ~(off < 0) PROVE Refuses("pread", fd)
  <2>1. last' = Result("pread", 0, 0, 0, -1) /\ UNCHANGED handles /\ Return("pread", fd, last'.at, last'.val)
    BY <1>2 DEF HookPread, Fake, Pread, On
  <2> QED
    BY <2>1 DEF Result, Refuses
<1>3. ASSUME NEW off, NEW whence, HookLseek(fd, off, whence) PROVE Refuses("lseek", fd)
  <2>1. last' = Result("lseek", 0, 0, 0, -1) /\ UNCHANGED handles /\ Return("lseek", fd, 0, last'.val)
    BY <1>3 DEF HookLseek, Fake, Lseek, On
  <2> QED
    BY <2>1 DEF Result, Refuses
<1>4. ASSUME NEW n \in Counts, NEW off \in Counts, HookMmap(fd, off, n) PROVE FALSE
  <2>1. last' = Result("mmap", 0, 0, 0, -1) /\ n > 0 /\ off + n <= last'.size
    BY <1>4 DEF HookMmap, Fake, MmapSlice, On
  <2>2. last'.size = 0
    BY <2>1 DEF Result
  <2> QED
    BY <2>1, <2>2, GRuntimeAssumption
<1> QED
  BY <1>1, <1>2, <1>3, <1>4
-----------------------------------------------------------------------------
(* DiskInv part by part, for a disk that does not change. *)
OnThe(d, s) == \E p \in DOMAIN d : s.file = d[p].file /\ s.size = d[p].size

CachedNext  == \A k \in DOMAIN slices' : OnThe(disk, slices'[k].slice)
CallsNext   == \A t \in Threads : call'[t].pc = "insert" => OnThe(disk, call'[t].slice)
HandlesNext == \A fd \in DOMAIN handles' :
                  OnThe(disk, handles'[fd].slice) /\ handles'[fd].pos <= handles'[fd].slice.size

LEMMA DiskInvNow ==
    ASSUME DiskInv
    PROVE  /\ \A k \in DOMAIN slices : OnThe(disk, slices[k].slice)
           /\ \A t \in Threads : call[t].pc = "insert" => OnThe(disk, call[t].slice)
           /\ \A fd \in DOMAIN handles :
                 OnThe(disk, handles[fd].slice) /\ handles[fd].pos <= handles[fd].slice.size
  BY DEF DiskInv, OnDisk, OnThe

LEMMA DiskInvNext == ASSUME disk' = disk, CachedNext, CallsNext, HandlesNext PROVE DiskInv'
  BY DEF DiskInv, OnDisk, OnThe, CachedNext, CallsNext, HandlesNext

LEMMA StepDisk ==
    ASSUME CoreInv, DiskInv, NEW t \in Threads, Step(t)
    PROVE  CachedNext /\ CallsNext /\ HandlesNext
<1>0. /\ TypeOK /\ call \in [Threads -> Calls]
      /\ \A k \in DOMAIN slices : OnThe(disk, slices[k].slice)
      /\ \A u \in Threads : call[u].pc = "insert" => OnThe(disk, call[u].slice)
      /\ \A fd \in DOMAIN handles :
            OnThe(disk, handles[fd].slice) /\ handles[fd].pos <= handles[fd].slice.size
  BY DiskInvNow DEF CoreInv, TypeOK, Calls
<1>1. ASSUME NEW s \in Slice, Delivered(t, s), call'[t].pc = "insert" => OnThe(disk, s) PROVE CallsNext
  BY <1>0, <1>1 DEF Delivered, CallsNext
<1>2. handles' = handles => HandlesNext
  BY <1>0 DEF HandlesNext
<1>3. slices' = slices => CachedNext
  BY <1>0 DEF CachedNext
<1>4. CASE IngestHit(t)
  <2>1. /\ call[t].path \in DOMAIN slices /\ handles' = handles
        /\ Deliver(t, slices[call[t].path].slice)
        /\ DOMAIN slices' = DOMAIN slices
        /\ \A k \in DOMAIN slices : slices'[k].slice = slices[k].slice
    BY <1>4 DEF IngestHit, tableVars
  <2>2. slices[call[t].path].slice \in Slice
    BY <1>0, <2>1 DEF TypeOK
  <2>3. CallsNext
    BY <1>0, <1>1, <2>1, <2>2, DeliverCall
  <2>4. CachedNext
    BY <1>0, <2>1 DEF CachedNext
  <2> QED
    BY <1>2, <2>1, <2>3, <2>4
<1>5. CASE IngestMiss(t)
  <2>1. /\ slices' = slices /\ handles' = handles
        /\ call' = [call EXCEPT ![t] = At("mapping", call[t].path, NullSlice, 0)]
    BY <1>5 DEF IngestMiss, cacheVars, tableVars
  <2>2. CallsNext
    BY <1>0, <2>1 DEF CallsNext, At
  <2> QED
    BY <1>2, <1>3, <2>1, <2>2
<1>6. CASE MapFail(t)
  <2>1. slices' = slices /\ handles' = handles /\ Deliver(t, NullSlice)
    BY <1>6 DEF MapFail, cacheVars, tableVars
  <2>2. Delivered(t, NullSlice) /\ call'[t].pc # "insert"
    BY <1>0, <2>1, NullSliceType, DeliverCall DEF Delivered, NullSlice
  <2>3. CallsNext
    BY <1>1, <2>2, NullSliceType
  <2> QED
    BY <1>2, <1>3, <2>1, <2>3
<1>7. ASSUME NEW a \in Addrs, MapOk(t, a) PROVE CachedNext /\ CallsNext /\ HandlesNext
  <2> DEFINE p == call[t].path
             f == disk[p]
             s == [data |-> Data(f, a), size |-> f.size, id |-> nextId, file |-> f.file]
  <2>1. /\ p \in DOMAIN disk /\ handles' = handles /\ Deliver(t, s)
        /\ slices' = Put(slices, p, [slice |-> s, refs |-> 1])
    BY <1>7 DEF MapOk, tableVars
  <2>2. s \in Slice
    BY <1>0, <2>1, SizesInWord DEF Data, TypeOK, Slice
  <2>3. OnThe(disk, s)
    BY <2>1 DEF OnThe
  <2> HIDE DEF s
  <2>4. CachedNext
    BY <1>0, <2>1, <2>3 DEF CachedNext, Put
  <2>5. CallsNext
    BY <1>0, <1>1, <2>1, <2>2, <2>3, DeliverCall
  <2> QED
    BY <1>2, <2>1, <2>4, <2>5
<1>8. CASE Insert(t)
  <2>1. /\ slices' = slices /\ call[t].pc = "insert" /\ call' = [call EXCEPT ![t] = Idle]
        /\ handles' = Put(handles, nextFd, [slice |-> call[t].slice, pos |-> 0])
    BY <1>8 DEF Insert, cacheVars
  <2>2. CallsNext
    BY <1>0, <2>1 DEF CallsNext, Idle, At
  <2>3. OnThe(disk, call[t].slice) /\ 0 <= call[t].slice.size
    BY <1>0, <2>1, GRuntimeAssumption DEF Calls, Slice, Word
  <2>4. HandlesNext
    BY <1>0, <2>1, <2>3 DEF HandlesNext, Put
  <2> QED
    BY <1>3, <2>1, <2>2, <2>4
<1>9. CASE Release(t)
  <2>1. /\ handles' = Del(handles, call[t].fd) /\ call' = [call EXCEPT ![t] = Idle]
        /\ DOMAIN slices' = DOMAIN slices
        /\ \A k \in DOMAIN slices : slices'[k].slice = slices[k].slice
    BY <1>9 DEF Release, Released
  <2>2. CallsNext
    BY <1>0, <2>1 DEF CallsNext, Idle, At
  <2>3. CachedNext
    BY <1>0, <2>1 DEF CachedNext
  <2>4. HandlesNext
    BY <1>0, <2>1 DEF HandlesNext, Del
  <2> QED
    BY <2>2, <2>3, <2>4
<1> QED
  BY <1>4, <1>5, <1>6, <1>7, <1>8, <1>9 DEF Step

(* The hooks that change no table, seen from the program. *)
Leaves == UNCHANGED <<handles, slices>>
          /\ \A t \in Threads : call'[t] = call[t] \/ call'[t].pc # "insert"

LEMMA HookLeaves ==
    ASSUME TypeOK, NEW t \in Threads, NEW fd \in Fds, NEW p \in Paths,
           OpenRead(t, p) \/ Close(t, fd)
    PROVE  Leaves
<1>1. call \in [Threads -> Calls]
  BY DEF TypeOK, Calls
<1> QED
  BY <1>1 DEF OpenRead, Close, Leaves, cacheVars, tableVars, At

LEMMA DiskInvStep ==
    ASSUME Habits = {}, OffsetsFit, ShimIInv, [ShimNext]_shimVars
    PROVE  DiskInv'
<1>0. /\ CoreInv /\ TypeOK /\ DiskInv /\ disk' = disk
      /\ \A k \in DOMAIN slices : OnThe(disk, slices[k].slice)
      /\ \A u \in Threads : call[u].pc = "insert" => OnThe(disk, call[u].slice)
      /\ \A fd \in DOMAIN handles :
            OnThe(disk, handles[fd].slice) /\ handles[fd].pos <= handles[fd].slice.size
  BY DiskKept, DiskInvNow DEF ShimIInv, IInv, CoreInv
<1>1. Leaves => DiskInv'
  <2>1. ASSUME Leaves PROVE CachedNext /\ CallsNext /\ HandlesNext
    BY <1>0, <2>1 DEF Leaves, CachedNext, CallsNext, HandlesNext
  <2> QED
    BY <1>0, <2>1, DiskInvNext
<1>2. ASSUME NEW t \in Threads, HookStep(t) PROVE DiskInv'
  BY <1>0, <1>2, StepDisk, DiskInvNext DEF HookStep
<1>3. CASE Passes
  BY <1>1, <1>3 DEF Passes, Leaves, cacheVars, tableVars
<1>4. ASSUME NEW fd \in DOMAIN handles, NEW q,
             q <= handles[fd].slice.size, UNCHANGED <<slices, call>>,
             handles' = [handles EXCEPT ![fd] = [slice |-> @.slice, pos |-> q]]
      PROVE  DiskInv'
  <2>1. CachedNext /\ CallsNext
    BY <1>0, <1>4 DEF CachedNext, CallsNext
  <2>2. HandlesNext
    BY <1>0, <1>4 DEF HandlesNext
  <2> QED
    BY <1>0, <2>1, <2>2, DiskInvNext
<1>5. ASSUME NEW fd \in Fds, NEW n \in Counts, HookRead(fd, n) PROVE DiskInv'
  <2>1. UNCHANGED <<slices, call>>
    BY <1>5 DEF HookRead, Fake, Read, On, cacheVars
  <2>2. CASE fd \in DOMAIN handles
    <3> DEFINE val == Smaller(n, handles[fd].slice.size - handles[fd].pos)
    <3>1. ReadMoves(fd, n)
      BY <1>0, <1>5, <2>2, HookReads
    <3>2. /\ val \in 0 .. handles[fd].slice.size - handles[fd].pos
          /\ handles' = [handles EXCEPT ![fd] = [slice |-> @.slice, pos |-> handles[fd].pos + val]]
      BY <3>1 DEF ReadMoves
    <3>3. handles[fd].slice.size \in Nat /\ handles[fd].pos \in Nat
      BY <1>0, <2>2, GRuntimeAssumption DEF TypeOK, Slice, Word
    <3> HIDE DEF val
    <3>4. handles[fd].pos + val <= handles[fd].slice.size
      BY <3>2, <3>3
    <3> QED
      BY <1>4, <2>1, <2>2, <3>2, <3>4
  <2>3. CASE fd \notin DOMAIN handles
    BY <1>1, <1>5, <2>1, <2>3, HookRefuses DEF Refuses, Leaves
  <2> QED
    BY <2>2, <2>3
<1>6. ASSUME NEW fd \in Fds, NEW off \in Offsets, NEW whence \in Whences, HookLseek(fd, off, whence)
      PROVE  DiskInv'
  <2>1. UNCHANGED <<slices, call>>
    BY <1>6 DEF HookLseek, Fake, Lseek, On, cacheVars
  <2>2. CASE fd \in DOMAIN handles
    <3>1. SeekMoves(fd, off, whence)
      BY <1>0, <1>6, <2>2, HookSeeks
    <3>2. CASE UNCHANGED handles
      BY <1>1, <2>1, <3>2 DEF Leaves
    <3>3. CASE ~UNCHANGED handles
      BY <1>4, <2>1, <2>2, <3>1, <3>3 DEF SeekMoves
    <3> QED
      BY <3>2, <3>3
  <2>3. CASE fd \notin DOMAIN handles
    BY <1>1, <1>6, <2>1, <2>3, HookRefuses DEF Refuses, Leaves
  <2> QED
    BY <2>2, <2>3
<1>7. ASSUME NEW fd \in Fds, NEW n \in Counts, NEW off \in Counts, HookMmap(fd, off, n) PROVE DiskInv'
  <2>1. UNCHANGED <<slices, call, handles>>
    BY <1>7, HookRefuses DEF HookMmap, Fake, MmapSlice, On, cacheVars
  <2> QED
    BY <1>1, <2>1 DEF Leaves
<1>8. ASSUME NEW t \in Threads, NEW p \in Paths, HookOpen(t, p) PROVE DiskInv'
  <2>1. Base \in Fds
    BY <1>0, GRuntimeAssumption DEF Fds, TypeOK
  <2> QED
    BY <1>0, <1>1, <1>8, <2>1, HookLeaves DEF HookOpen
<1>9. ASSUME NEW t \in Threads, NEW fd \in Fds, HookClose(t, fd) \/ HookFclose(t, fd) PROVE DiskInv'
  <2>1. call \in [Threads -> Calls] /\ Close(t, fd)
    BY <1>0, <1>9 DEF HookClose, HookFclose, TypeOK, Calls
  <2>2. Leaves
    BY <2>1 DEF Close, Leaves, cacheVars, tableVars, At
  <2> QED
    BY <1>1, <2>2
<1> QED
  BY <1>0, <1>2, <1>3, <1>5, <1>6, <1>7, <1>8, <1>9, PassingHooks
     DEF ShimNext, Passing, HookMunmap, KernelWrite
-----------------------------------------------------------------------------
(* The invariant of the hooks under a program without habits, which reads   *)
(* and seeks inside its files and leaves the cache's memory alone: every    *)
(* slice and every descriptor is a file as it is on disk, and no position   *)
(* is past its end (libg_io.so over FdTable and MmapCache).                 *)
THEOREM ShimInvariance ==
    ASSUME Habits = {}, OffsetsFit
    PROVE  ShimSpec => []ShimIInv
<1>1. ShimInit => ShimIInv
  <2> SUFFICES ASSUME ShimInit PROVE ShimIInv
    OBVIOUS
  <2>1. IInv
    BY InitInv DEF ShimInit
  <2>2. HookInv
    BY DEF ShimInit, HookInv
  <2>3. DiskInv
    BY DEF ShimInit, Init, DiskInv, Idle, At
  <2> QED
    BY <2>1, <2>2, <2>3 DEF ShimIInv
<1>2. ShimIInv /\ [ShimNext]_shimVars => ShimIInv'
  <2> SUFFICES ASSUME ShimIInv, [ShimNext]_shimVars PROVE ShimIInv'
    OBVIOUS
  <2>1. "munmap" \notin Habits /\ IInv /\ TypeOK /\ HookInv
    BY DEF ShimIInv, IInv, CoreInv
  <2>2. IInv' /\ HookInv' /\ DiskInv'
    BY <2>1, IInvStep, HookInvStep, DiskInvStep
  <2> QED
    BY <2>2 DEF ShimIInv
<1> QED
  BY <1>1, <1>2, PTL DEF ShimSpec
-----------------------------------------------------------------------------
(* The refinement, hook by hook.  A hook that is not over, and the runtime's *)
(* inner steps, are stuttering steps of PosixFile.                          *)
Frame == disk' = disk /\ UNCHANGED <<handles, kfds>>

LEMMA FrameView == ASSUME Frame PROVE disk' = disk /\ Descriptors' = Descriptors
<1>1. View(handles', kfds', disk') = View(handles, kfds, disk)
  BY DEF Frame
<1> QED
  BY <1>1, DescriptorsView DEF Frame

LEMMA Stutters == ASSUME Frame, ret' = ret PROVE UNCHANGED Posix!vars
  BY FrameView DEF Posix!vars

(* A descriptor that is in neither table. *)
LEMMA Unknown ==
    ASSUME Frame, NEW fd, fd \notin DOMAIN handles, fd \notin DOMAIN kfds,
           NEW op \in {"read", "pread", "lseek", "mmap", "fionread", "ioctl", "fstat", "close"},
           Return(op, fd, 0, -1)
    PROVE  Posix!Next
<1>1. Posix!Returns(op, fd, 0, -1)
  BY Returned
<1>2. ret'.fd = fd
  BY DEF Return
<1>3. fd \notin DOMAIN Descriptors
  BY DescriptorsView, ViewOf
<1>4. Posix!BadFd(op, ret'.fd)
  BY <1>1, <1>2, <1>3, FrameView DEF Posix!BadFd
<1> QED
  BY <1>4, FrameView DEF Posix!Next

LEMMA FakeDescriptor ==
    ASSUME NEW fd \in DOMAIN handles
    PROVE  /\ fd \in DOMAIN Descriptors
           /\ Descriptors[fd].file = handles[fd].slice.file
           /\ Descriptors[fd].size = handles[fd].slice.size
           /\ Descriptors[fd].pos = handles[fd].pos
  BY DEF Descriptors

LEMMA KernelDescriptor ==
    ASSUME NEW fd \in DOMAIN kfds, fd \notin DOMAIN handles
    PROVE  /\ fd \in DOMAIN Descriptors
           /\ Descriptors[fd].file = kfds[fd].file
           /\ Descriptors[fd].size = SizeOf(kfds[fd])
           /\ Descriptors[fd].pos = kfds[fd].pos
  BY DEF Descriptors

(* open: the descriptor appears in one of the tables. *)
LEMMA Opens ==
    ASSUME disk' = disk, NEW p \in DOMAIN disk, p \in Paths, NEW fd, fd \notin DOMAIN Descriptors,
           Descriptors' = Put(Descriptors, fd, [file |-> disk[p].file, size |-> disk[p].size, pos |-> 0]),
           Return("open", -1, 0, fd)
    PROVE  Posix!Next
<1>1. Posix!Returns("open", -1, 0, fd)
  BY Returned
<1>2. fd \in (DOMAIN Descriptors') \ DOMAIN Descriptors
  BY DEF Put
<1>3. Posix!Open(p)
  BY <1>1, <1>2 DEF Posix!Open, Put
<1> QED
  BY <1>3 DEF Posix!Next

(* close: it disappears. *)
LEMMA Closes ==
    ASSUME disk' = disk, NEW fd \in DOMAIN Descriptors,
           Descriptors' = Del(Descriptors, fd), Return("close", fd, 0, 0)
    PROVE  Posix!Next
<1>1. Posix!Returns("close", fd, 0, 0)
  BY Returned
<1>2. Posix!Close(fd)
  BY <1>1 DEF Posix!Close, Del
<1> QED
  BY <1>2 DEF Posix!Next

(* read: the position moves by what was read. *)
LEMMA Reads ==
    ASSUME disk' = disk, NEW fd \in DOMAIN Descriptors, NEW n \in Counts, NEW val,
           val = Posix!Smaller(n, Posix!Left(fd, Descriptors[fd].pos)),
           Descriptors' = [Descriptors EXCEPT ![fd].pos = Descriptors[fd].pos + val],
           Return("read", fd, Descriptors[fd].pos, val)
    PROVE  Posix!Next
<1>1. Posix!Returns("read", fd, Descriptors[fd].pos, val)
  BY Returned
<1>2. Posix!Read(fd, n)
  BY <1>1 DEF Posix!Read
<1> QED
  BY <1>2 DEF Posix!Next

(* The calls that only report. *)
LEMMA Answers ==
    ASSUME Frame, NEW fd \in DOMAIN handles, NEW at, NEW val
    PROVE  /\ \A n \in Counts, off \in Counts \cup Offsets :
                 /\ Return("pread", fd, at, val)
                 /\ IF off < 0 THEN at = 0 /\ val = -1
                    ELSE at = off /\ val = Posix!Smaller(n, Posix!Left(fd, off))
                 => Posix!Next
           /\ \A n, off \in Counts :
                 Return("mmap", fd, off, n) /\ n > 0 => Posix!Next
           /\ Return("fionread", fd, 0, val) /\ val = Posix!Left(fd, handles[fd].pos) => Posix!Next
           /\ Return("fstat", fd, 0, handles[fd].slice.size) => Posix!Next
           /\ Return("ioctl", fd, 0, -1) => Posix!Next
           /\ Return("fcntl", fd, 0, 0) => Posix!Next
           /\ Return("fadvise", fd, 0, 0) => Posix!Next
<1>0. /\ disk' = disk /\ Descriptors' = Descriptors /\ fd \in DOMAIN Descriptors
      /\ Descriptors[fd].pos = handles[fd].pos /\ Descriptors[fd].size = handles[fd].slice.size
  BY FrameView, FakeDescriptor
<1>1. ASSUME NEW n \in Counts, NEW off \in Counts \cup Offsets, Return("pread", fd, at, val),
             IF off < 0 THEN at = 0 /\ val = -1 ELSE at = off /\ val = Posix!Smaller(n, Posix!Left(fd, off))
      PROVE  Posix!Next
  <2>1. Posix!Returns("pread", fd, at, val)
    BY <1>1, Returned
  <2>2. Posix!Pread(fd, n, off)
    BY <1>0, <1>1, <2>1 DEF Posix!Pread
  <2> QED
    BY <1>0, <2>2 DEF Posix!Next
<1>2. ASSUME NEW n \in Counts, NEW off \in Counts, Return("mmap", fd, off, n), n > 0 PROVE Posix!Next
  <2>1. Posix!Returns("mmap", fd, off, n)
    BY <1>2, Returned
  <2>2. Posix!Mmap(fd, off, n)
    BY <1>0, <1>2, <2>1 DEF Posix!Mmap
  <2> QED
    BY <1>0, <2>2 DEF Posix!Next
<1>3. ASSUME Return("fionread", fd, 0, val), val = Posix!Left(fd, handles[fd].pos) PROVE Posix!Next
  <2>1. Posix!Returns("fionread", fd, 0, val)
    BY <1>3, Returned
  <2>2. Posix!Fionread(fd)
    BY <1>0, <1>3, <2>1 DEF Posix!Fionread
  <2> QED
    BY <1>0, <2>2 DEF Posix!Next
<1>4. ASSUME Return("fstat", fd, 0, handles[fd].slice.size) PROVE Posix!Next
  <2>1. Posix!Returns("fstat", fd, 0, handles[fd].slice.size)
    BY <1>4, Returned
  <2>2. Posix!Fstat(fd)
    BY <1>0, <2>1 DEF Posix!Fstat
  <2> QED
    BY <1>0, <2>2 DEF Posix!Next
<1>5. ASSUME Return("ioctl", fd, 0, -1) PROVE Posix!Next
  <2>1. Posix!Ioctl(fd)
    BY <1>0, <1>5, Returned DEF Posix!Ioctl
  <2> QED
    BY <1>0, <2>1 DEF Posix!Next
<1>6. ASSUME Return("fcntl", fd, 0, 0) PROVE Posix!Next
  <2>1. Posix!Fcntl(fd)
    BY <1>0, <1>6, Returned DEF Posix!Fcntl
  <2> QED
    BY <1>0, <2>1 DEF Posix!Next
<1>7. ASSUME Return("fadvise", fd, 0, 0) PROVE Posix!Next
  <2>1. Posix!Fadvise(fd)
    BY <1>0, <1>7, Returned DEF Posix!Fadvise
  <2> QED
    BY <1>0, <2>1 DEF Posix!Next
<1> QED
  BY <1>1, <1>2, <1>3, <1>4, <1>5, <1>6, <1>7
-----------------------------------------------------------------------------
LEMMA Apart ==
    ASSUME KernelBelow, ShimIInv
    PROVE  /\ DOMAIN handles \subseteq Fds
           /\ \A fd \in Fds : fd \notin DOMAIN kfds
           /\ nextFd \notin DOMAIN handles /\ nextFd \notin DOMAIN kfds
           /\ \A fd \in KernelFds : fd \notin DOMAIN handles
<1>1. /\ DOMAIN handles \subseteq Base .. nextFd - 1 /\ nextFd \in Nat /\ nextFd >= Base
      /\ Base \in Nat /\ DOMAIN kfds \subseteq KernelFds /\ KernelFds \subseteq Nat
      /\ \A fd \in KernelFds : fd < Base
  BY GRuntimeAssumption, GIoPosixAssumption DEF ShimIInv, IInv, CoreInv, TypeOK, HookInv, KernelBelow
<1> QED
  BY <1>1 DEF Fds

(* The runtime's own steps: an open that got a slice puts a descriptor in   *)
(* the table, a close takes it out, the others are not seen.                *)
LEMMA StepRefines ==
    ASSUME KernelBelow, ShimIInv, disk' = disk, NEW t \in Threads, HookStep(t)
    PROVE  Posix!Next \/ UNCHANGED Posix!vars
<1>0. TypeOK /\ LockInv /\ DiskInv /\ kfds' = kfds
  BY DEF ShimIInv, IInv, CoreInv, HookStep
<1>1. CASE Insert(t)
  <2>1. /\ call[t].pc = "insert" /\ nextFd' = nextFd + 1 /\ nextFd \in Nat
        /\ handles' = Put(handles, nextFd, [slice |-> call[t].slice, pos |-> 0])
    BY <1>0, <1>1 DEF Insert, TypeOK
  <2>2. Return("open", -1, 0, nextFd)
    BY <2>1 DEF HookStep
  <2>3. PICK p \in DOMAIN disk : call[t].slice.file = disk[p].file /\ call[t].slice.size = disk[p].size
    BY <1>0, <2>1 DEF DiskInv, OnDisk
  <2>4. p \in Paths
    BY <1>0 DEF TypeOK
  <2>5. nextFd \notin DOMAIN kfds /\ nextFd \notin DOMAIN handles
    BY Apart
  <2> DEFINE x == [slice |-> call[t].slice, pos |-> 0]
  <2>6. FakeView(x) = [file |-> disk[p].file, size |-> disk[p].size, pos |-> 0]
    BY <2>3 DEF FakeView
  <2>7. View(Put(handles, nextFd, x), kfds, disk) = Put(View(handles, kfds, disk), nextFd, FakeView(x))
    BY <2>5, ViewPut
  <2>8. Descriptors' = Put(Descriptors, nextFd, FakeView(x))
    BY <1>0, <2>1, <2>7, DescriptorsView
  <2>9. nextFd \notin DOMAIN Descriptors
    BY <2>5 DEF Descriptors
  <2> QED
    BY <2>2, <2>4, <2>6, <2>8, <2>9, Opens
<1>2. CASE Release(t)
  <2>1. PICK fd : fd = call[t].fd
    OBVIOUS
  <2>2. /\ call[t].pc = "closing" /\ nextFd' = nextFd /\ fd \in DOMAIN handles
        /\ handles' = Del(handles, fd)
    BY <1>0, <1>2, <2>1 DEF Release, LockInv
  <2>3. Return("close", fd, 0, 0)
    BY <2>1, <2>2 DEF HookStep
  <2>4. fd \notin DOMAIN kfds /\ fd \in DOMAIN Descriptors
    BY <2>2, Apart, FakeDescriptor
  <2>5. View(Del(handles, fd), kfds, disk) = Del(View(handles, kfds, disk), fd)
    BY <2>4, ViewDel
  <2>6. Descriptors' = Del(Descriptors, fd)
    BY <1>0, <2>2, <2>5, DescriptorsView
  <2> QED
    BY <2>3, <2>4, <2>6, Closes
<1>3. CASE IngestHit(t) \/ IngestMiss(t) \/ MapFail(t) \/ \E a \in Addrs : MapOk(t, a)
  <2>1. UNCHANGED <<handles, nextFd>> /\ call[t].pc # "closing"
    BY <1>3 DEF IngestHit, IngestMiss, MapFail, MapOk, tableVars
  <2>2. ret' = ret
    BY <2>1 DEF HookStep
  <2> QED
    BY <1>0, <2>1, <2>2, Stutters DEF Frame
<1> QED
  BY <1>1, <1>2, <1>3 DEF HookStep, Step

(* The kernel's side. *)
LEMMA KernelRefines ==
    ASSUME KernelBelow, ShimIInv, disk' = disk
    PROVE  /\ \A t \in Threads : KernelOpen(t) => Posix!Next
           /\ \A fd \in KernelFds : KernelClose(fd) => Posix!Next
           /\ \A fd \in KernelFds, n \in Counts : KernelRead(fd, n) => Posix!Next
<1>0. TypeOK /\ HookInv /\ \A fd \in KernelFds : fd \notin DOMAIN handles
  BY Apart DEF ShimIInv, IInv, CoreInv
<1>1. ASSUME NEW t \in Threads, KernelOpen(t) PROVE Posix!Next
  <2>1. UNCHANGED handles
    BY <1>1 DEF KernelOpen, vars, tableVars
  <2>2. CASE Return("open", -1, 0, -1) /\ UNCHANGED kfds
    <3>1. Posix!Returns("open", -1, 0, -1)
      BY <2>2, Returned
    <3>2. Posix!OpenFails
      BY <2>1, <2>2, <3>1, FrameView DEF Posix!OpenFails, Frame
    <3> QED
      BY <3>2 DEF Posix!Next
  <2>3. CASE ~(Return("open", -1, 0, -1) /\ UNCHANGED kfds)
    <3>1. PICK p : p = hook[t]
      OBVIOUS
    <3>2. p \in DOMAIN disk /\ KernelFds \ DOMAIN kfds # {}
      BY <1>1, <2>3, <3>1 DEF KernelOpen
    <3>3. PICK fd \in Lowest(KernelFds) :
              /\ kfds' = Put(kfds, fd, [path |-> p, file |-> disk[p].file, pos |-> 0])
              /\ Return("open", -1, 0, fd)
      BY <1>1, <2>3, <3>1 DEF KernelOpen
    <3>4. fd \in KernelFds /\ fd \notin DOMAIN kfds
      BY <3>2, <3>3, LeastKernelFd DEF Lowest
    <3>5. fd \notin DOMAIN handles /\ fd \notin DOMAIN Descriptors
      BY <1>0, <3>4 DEF Descriptors
    <3> DEFINE k == [path |-> p, file |-> disk[p].file, pos |-> 0]
    <3>6. KernelView(disk, k) = [file |-> disk[p].file, size |-> disk[p].size, pos |-> 0]
      BY <3>2 DEF KernelView, KernelSize
    <3>7. View(handles, Put(kfds, fd, k), disk) = Put(View(handles, kfds, disk), fd, KernelView(disk, k))
      BY <3>5, ViewKernelPut
    <3>8. Descriptors' = Put(Descriptors, fd, KernelView(disk, k))
      BY <2>1, <3>3, <3>7, DescriptorsView
    <3>9. p \in Paths
      BY <1>0, <3>2 DEF TypeOK
    <3> QED
      BY <3>2, <3>3, <3>5, <3>6, <3>8, <3>9, Opens
  <2> QED
    BY <2>2, <2>3
<1>2. ASSUME NEW fd \in KernelFds, KernelClose(fd) PROVE Posix!Next
  <2>1. fd \in DOMAIN kfds /\ kfds' = Del(kfds, fd) /\ Return("close", fd, 0, 0) /\ UNCHANGED handles
    BY <1>2 DEF KernelClose, tableVars
  <2>2. fd \notin DOMAIN handles /\ fd \in DOMAIN Descriptors
    BY <1>0, <2>1, KernelDescriptor
  <2>3. View(handles, Del(kfds, fd), disk) = Del(View(handles, kfds, disk), fd)
    BY <2>2, ViewKernelDel
  <2>4. Descriptors' = Del(Descriptors, fd)
    BY <2>1, <2>3, DescriptorsView
  <2> QED
    BY <2>1, <2>2, <2>4, Closes
<1>3. ASSUME NEW fd \in KernelFds, NEW n \in Counts, KernelRead(fd, n) PROVE Posix!Next
  <2>1. PICK pos, size, val :
            /\ pos = kfds[fd].pos /\ size = SizeOf(kfds[fd])
            /\ val = IF pos >= size THEN 0 ELSE Smaller(n, size - pos)
    OBVIOUS
  <2>2. /\ fd \in DOMAIN kfds /\ UNCHANGED handles
        /\ kfds' = [kfds EXCEPT ![fd].pos = pos + val]
        /\ Return("read", fd, pos, val)
    BY <1>3, <2>1 DEF KernelRead, tableVars
  <2>3. /\ fd \notin DOMAIN handles /\ fd \in DOMAIN Descriptors
        /\ Descriptors[fd].pos = pos /\ Descriptors[fd].size = size
    BY <1>0, <2>1, <2>2, KernelDescriptor
  <2>4. kfds[fd] \in [path : Paths, file : Files, pos : Nat]
    BY <1>0, <2>2 DEF HookInv
  <2>5. kfds[fd] = [path |-> kfds[fd].path, file |-> kfds[fd].file, pos |-> kfds[fd].pos]
    BY <2>4
  <2>6. Descriptors' = [Descriptors EXCEPT ![fd].pos = pos + val]
    <3>1. PICK q : q = pos + val
      OBVIOUS
    <3>2. View(handles, Moved(kfds, fd, q), disk) = Moved(View(handles, kfds, disk), fd, q)
      BY <2>2, <2>3, <2>5, ViewKernelPos
    <3>3. kfds' = Moved(kfds, fd, q)
      BY <2>2, <3>1 DEF Moved
    <3>4. Descriptors' = Moved(Descriptors, fd, q)
      BY <2>2, <3>2, <3>3, DescriptorsView
    <3> QED
      BY <3>1, <3>4 DEF Moved
  <2>7. pos \in Nat /\ size \in Nat /\ n \in Nat
    BY <1>0, <2>1, <2>4, SizeOfNat, GRuntimeAssumption
  <2>8. val = Posix!Smaller(n, Posix!Left(fd, pos))
    BY <2>1, <2>3, <2>7 DEF Posix!Smaller, Posix!Left, Smaller
  <2> QED
    BY <2>2, <2>3, <2>6, <2>8, Reads
<1> QED
  BY <1>1, <1>2, <1>3

(* read and lseek on a fake descriptor. *)
LEMMA MovesView ==
    ASSUME disk' = disk, kfds' = kfds, NEW fd \in DOMAIN handles, NEW q,
           handles' = [handles EXCEPT ![fd] = [slice |-> @.slice, pos |-> q]]
    PROVE  Descriptors' = [Descriptors EXCEPT ![fd].pos = q]
<1>1. View(Placed(handles, fd, q), kfds, disk) = Moved(View(handles, kfds, disk), fd, q)
  BY ViewPos
<1>2. handles' = Placed(handles, fd, q)
  BY DEF Placed
<1>3. Descriptors' = Moved(Descriptors, fd, q)
  BY <1>1, <1>2, DescriptorsView
<1> QED
  BY <1>3 DEF Moved

LEMMA ReadRefines ==
    ASSUME Habits = {}, KernelBelow, ShimIInv, disk' = disk, NEW fd \in Fds, NEW n \in Counts,
           HookRead(fd, n)
    PROVE  Posix!Next
<1>0. TypeOK /\ DiskInv /\ kfds' = kfds /\ fd \notin DOMAIN kfds
  BY Apart DEF ShimIInv, IInv, CoreInv, HookRead, Fake
<1>1. CASE fd \notin DOMAIN handles
  BY <1>0, <1>1, HookRefuses, Unknown DEF Refuses, Frame
<1>2. CASE fd \in DOMAIN handles
  <2>1. PICK pos, size, val :
            pos = handles[fd].pos /\ size = handles[fd].slice.size /\ val = Smaller(n, size - pos)
    OBVIOUS
  <2>2. /\ val \in 0 .. size - pos
        /\ handles' = [handles EXCEPT ![fd] = [slice |-> @.slice, pos |-> pos + val]]
        /\ Return("read", fd, pos, val)
    BY <1>0, <1>2, <2>1, HookReads DEF ReadMoves
  <2>3. pos \in Nat /\ size \in Nat /\ n \in Nat /\ pos <= size
    BY <1>0, <1>2, <2>1, GRuntimeAssumption DEF TypeOK, Slice, Word, DiskInv
  <2>4. /\ fd \in DOMAIN Descriptors /\ Descriptors[fd].pos = pos /\ Descriptors[fd].size = size
    BY <1>2, <2>1, FakeDescriptor
  <2>5. Descriptors' = [Descriptors EXCEPT ![fd].pos = pos + val]
    BY <1>0, <1>2, <2>2, MovesView
  <2>6. val = Posix!Smaller(n, Posix!Left(fd, pos))
    BY <2>1, <2>3, <2>4 DEF Posix!Smaller, Posix!Left, Smaller
  <2> QED
    BY <2>2, <2>4, <2>5, <2>6, Reads
<1> QED
  BY <1>1, <1>2

LEMMA SeekRefines ==
    ASSUME Habits = {}, KernelBelow, OffsetsFit, ShimIInv, disk' = disk, NEW fd \in Fds,
           NEW off \in Offsets, NEW whence \in Whences, HookLseek(fd, off, whence)
    PROVE  Posix!Next
<1>0. TypeOK /\ DiskInv /\ kfds' = kfds /\ fd \notin DOMAIN kfds
  BY Apart DEF ShimIInv, IInv, CoreInv, HookLseek, Fake
<1>1. CASE fd \notin DOMAIN handles
  BY <1>0, <1>1, HookRefuses, Unknown DEF Refuses, Frame
<1>2. CASE fd \in DOMAIN handles
  <2>1. SeekMoves(fd, off, whence)
    BY <1>0, <1>2, HookSeeks
  <2>2. /\ fd \in DOMAIN Descriptors
        /\ Descriptors[fd].pos = handles[fd].pos /\ Descriptors[fd].size = handles[fd].slice.size
    BY <1>2, FakeDescriptor
  <2>3. PICK from, target : from = Origin(fd, whence) /\ target = off + from
    OBVIOUS
  <2>4. from = CASE whence = "SET" -> 0
                 [] whence = "CUR" -> Descriptors[fd].pos
                 [] whence = "END" -> Descriptors[fd].size
                 [] OTHER -> 0
    BY <2>2, <2>3 DEF Origin
  <2>5. CASE whence = "other" \/ target < 0
    <3>1. UNCHANGED handles /\ Return("lseek", fd, 0, -1)
      BY <2>1, <2>3, <2>5 DEF SeekMoves
    <3>2. Posix!Returns("lseek", fd, 0, -1) /\ Descriptors' = Descriptors
      BY <1>0, <3>1, Returned, FrameView DEF Frame
    <3>3. Posix!Lseek(fd, off, whence)
      BY <2>3, <2>4, <2>5, <3>2 DEF Posix!Lseek
    <3> QED
      BY <2>2, <3>3 DEF Posix!Next, Whences
  <2>6. CASE ~(whence = "other" \/ target < 0)
    <3>1. /\ handles' = [handles EXCEPT ![fd] = [slice |-> @.slice, pos |-> target]]
          /\ Return("lseek", fd, 0, target)
      BY <2>1, <2>3, <2>6 DEF SeekMoves
    <3>2. Descriptors' = [Descriptors EXCEPT ![fd].pos = target]
      BY <1>0, <1>2, <3>1, MovesView
    <3>3. Posix!Returns("lseek", fd, 0, target)
      BY <3>1, Returned
    <3>4. Posix!Lseek(fd, off, whence)
      BY <2>3, <2>4, <2>6, <3>2, <3>3 DEF Posix!Lseek
    <3> QED
      BY <2>2, <3>4 DEF Posix!Next, Whences
  <2> QED
    BY <2>5, <2>6
<1> QED
  BY <1>1, <1>2

(* The hooks that report and those that map. *)
LEMMA ReportRefines ==
    ASSUME Habits = {}, KernelBelow, ShimIInv, disk' = disk, NEW fd \in Fds,
           HookIoctl(fd) \/ HookFstat(fd) \/ HookFcntl(fd) \/ HookFadvise(fd)
    PROVE  Posix!Next
<1>0. TypeOK /\ fd \notin DOMAIN kfds
  BY Apart DEF ShimIInv, IInv, CoreInv
<1>1. ASSUME NEW op, NEW val, Reports(op, fd, val) PROVE Frame /\ Return(op, fd, 0, val)
  BY <1>1 DEF Reports, Fake, Frame, tableVars
<1>2. CASE fd \notin DOMAIN handles
  <2>1. PICK op \in {"fionread", "fstat", "ioctl"} : Reports(op, fd, -1)
    BY <1>2 DEF HookIoctl, HookFstat, HookFcntl, HookFadvise, SliceSize
  <2>2. Frame /\ Return(op, fd, 0, -1)
    BY <1>1, <2>1
  <2>3. op \in {"read", "pread", "lseek", "mmap", "fionread", "ioctl", "fstat", "close"}
    OBVIOUS
  <2> QED
    BY <1>0, <1>2, <2>2, <2>3, Unknown
<1>3. CASE fd \in DOMAIN handles
  <2>1. PICK size : size = handles[fd].slice.size
    OBVIOUS
  <2>2. size \in Nat
    BY <1>0, <1>3, <2>1, GRuntimeAssumption DEF TypeOK, Slice, Word
  <2>3. SliceSize(fd) = size
    BY <1>3, <2>1 DEF SliceSize
  <2>4. ASSUME Reports("fionread", fd, size), handles[fd].pos = 0 PROVE Posix!Next
    <3>1. Posix!Left(fd, 0) = size
      BY <1>3, <2>1, <2>2, FakeDescriptor DEF Posix!Left
    <3> QED
      BY <1>1, <1>3, <2>4, <3>1, Answers
  <2>5. ASSUME Reports("fstat", fd, size) PROVE Posix!Next
    BY <1>1, <1>3, <2>1, <2>5, Answers
  <2>6. ASSUME Reports("ioctl", fd, -1) PROVE Posix!Next
    BY <1>1, <1>3, <2>6, Answers
  <2>7. ASSUME Reports("fcntl", fd, 0) PROVE Posix!Next
    BY <1>1, <1>3, <2>7, Answers
  <2>8. ASSUME Reports("fadvise", fd, 0) PROVE Posix!Next
    BY <1>1, <1>3, <2>8, Answers
  <2> QED
    BY <1>3, <2>3, <2>4, <2>5, <2>6, <2>7, <2>8 DEF HookIoctl, HookFstat, HookFcntl, HookFadvise
<1> QED
  BY <1>2, <1>3

LEMMA PreadRefines ==
    ASSUME Habits = {}, KernelBelow, ShimIInv, disk' = disk, NEW fd \in Fds, NEW n \in Counts,
           NEW off \in Counts \cup Offsets, HookPread(fd, n, off)
    PROVE  Posix!Next
<1>0. TypeOK /\ fd \notin DOMAIN kfds
  BY Apart DEF ShimIInv, IInv, CoreInv
<1>1. CASE off < 0
  <2>1. Frame /\ Return("pread", fd, 0, -1)
    BY <1>1 DEF HookPread, Reports, Fake, Frame, tableVars
  <2> QED
    BY <1>0, <1>1, <2>1, Unknown, Answers
<1>2. CASE ~(off < 0) /\ fd \notin DOMAIN handles
  <2>1. Refuses("pread", fd) /\ kfds' = kfds
    BY <1>2, HookRefuses DEF HookPread, Fake
  <2> QED
    BY <1>0, <1>2, <2>1, Unknown DEF Refuses, Frame
<1>3. CASE ~(off < 0) /\ fd \in DOMAIN handles
  <2>1. PICK size, val :
            size = handles[fd].slice.size /\ val = IF off >= size THEN 0 ELSE Smaller(n, size - off)
    OBVIOUS
  <2>2. /\ last' = Result("pread", handles[fd].slice.id, size, off, val)
        /\ Return("pread", fd, last'.at, last'.val) /\ UNCHANGED <<handles, kfds>>
    BY <1>3, <2>1 DEF HookPread, Fake, Pread, On
  <2>3. Return("pread", fd, off, val) /\ Frame
    BY <2>2 DEF Result, Frame
  <2>4. size \in Nat /\ n \in Nat /\ off \in Nat
    BY <1>0, <1>3, <2>1, GRuntimeAssumption DEF TypeOK, Slice, Word
  <2>5. val = Posix!Smaller(n, Posix!Left(fd, off))
    BY <1>3, <2>1, <2>4, FakeDescriptor DEF Posix!Smaller, Posix!Left, Smaller
  <2> QED
    BY <1>3, <2>3, <2>5, Answers
<1> QED
  BY <1>1, <1>2, <1>3

LEMMA MmapRefines ==
    ASSUME Habits = {}, ShimIInv, disk' = disk, NEW fd \in Fds, NEW n \in Counts, NEW off \in Counts,
           HookMmap(fd, off, n)
    PROVE  Posix!Next
<1>0. TypeOK /\ fd \in DOMAIN handles
  BY HookRefuses DEF ShimIInv, IInv, CoreInv
<1>1. PICK size : size = handles[fd].slice.size
  OBVIOUS
<1>2. PICK val : val = IF off <= size /\ n <= size - off THEN n ELSE -1
  OBVIOUS
<1>3. /\ last' = Result("mmap", handles[fd].slice.id, size, off, val)
      /\ n > 0 /\ off + n <= last'.size
      /\ Return("mmap", fd, last'.at, last'.val) /\ UNCHANGED <<handles, kfds>>
  BY <1>0, <1>1, <1>2 DEF HookMmap, Fake, MmapSlice, On
<1>4. off + n <= size /\ Return("mmap", fd, off, val) /\ Frame
  BY <1>3 DEF Result, Frame
<1>5. size \in Nat /\ n \in Nat /\ off \in Nat
  BY <1>0, <1>1, GRuntimeAssumption DEF TypeOK, Slice, Word
<1>6. val = n
  BY <1>2, <1>4, <1>5
<1> QED
  BY <1>0, <1>3, <1>4, <1>6, Answers

(* Entering a hook is not seen; close() of a descriptor that is not open is *)
(* refused at once.                                                         *)
LEMMA EnterRefines ==
    ASSUME Habits = {}, KernelBelow, ShimIInv, disk' = disk
    PROVE  /\ \A t \in Threads, p \in Paths :
                 HookOpen(t, p) \/ HookOpenat(t, p) => UNCHANGED Posix!vars
           /\ \A t \in Threads, fd \in Fds :
                 HookClose(t, fd) \/ HookFclose(t, fd) => Posix!Next \/ UNCHANGED Posix!vars
           /\ \A fd \in Fds : HookFdopen(fd) => UNCHANGED Posix!vars
           /\ ShimFinished \/ UNCHANGED shimVars => UNCHANGED Posix!vars
<1>1. ASSUME NEW t \in Threads, NEW p \in Paths, HookOpen(t, p) \/ HookOpenat(t, p)
      PROVE  UNCHANGED Posix!vars
  <2>1. Frame /\ ret' = ret
    BY <1>1 DEF HookOpen, HookOpenat, OpenRead, Frame, tableVars
  <2> QED
    BY <2>1, Stutters
<1>2. ASSUME NEW t \in Threads, NEW fd \in Fds, HookClose(t, fd) \/ HookFclose(t, fd)
      PROVE  Posix!Next \/ UNCHANGED Posix!vars
  <2>1. Frame
    BY <1>2 DEF HookClose, HookFclose, Close, Frame, tableVars
  <2>2. CASE fd \in DOMAIN handles
    <3>1. ret' = ret
      BY <1>2, <2>2 DEF HookClose, HookFclose
    <3> QED
      BY <2>1, <3>1, Stutters
  <2>3. CASE fd \notin DOMAIN handles
    <3>1. Return("close", fd, 0, -1)
      BY <1>2, <2>3 DEF HookClose, HookFclose
    <3>2. fd \notin DOMAIN kfds
      BY Apart
    <3> QED
      BY <2>1, <2>3, <3>1, <3>2, Unknown
  <2> QED
    BY <2>2, <2>3
<1>3. ASSUME NEW fd \in Fds, HookFdopen(fd) PROVE UNCHANGED Posix!vars
  <2>1. Frame /\ ret' = ret
    BY <1>3 DEF HookFdopen, Frame, tableVars
  <2> QED
    BY <2>1, Stutters
<1>4. ASSUME ShimFinished \/ UNCHANGED shimVars PROVE UNCHANGED Posix!vars
  <2>1. Frame /\ ret' = ret
    BY <1>4 DEF ShimFinished, shimVars, vars, hookVars, Frame, tableVars
  <2> QED
    BY <2>1, Stutters
<1> QED
  BY <1>1, <1>2, <1>3, <1>4

LEMMA ShimRefines ==
    ASSUME Habits = {}, KernelBelow, OffsetsFit, ShimIInv, [ShimNext]_shimVars
    PROVE  Posix!Next \/ UNCHANGED Posix!vars
<1>1. disk' = disk
  BY DiskKept DEF ShimIInv, IInv, CoreInv
<1>2. ~\E a \in Addrs : HookMunmap(a)
  BY DEF HookMunmap
<1>3. ~\E p \in Paths, size \in Sizes : KernelWrite(p, size)
  BY DEF KernelWrite
<1> QED
  BY <1>1, <1>2, <1>3, StepRefines, KernelRefines, ReadRefines, SeekRefines, ReportRefines, PreadRefines,
     MmapRefines, EnterRefines
     DEF ShimNext

(* Under a program without habits the hooks implement the calls they        *)
(* replace: whichever threads make them, and however their steps inside the *)
(* runtime interleave, every call returns what it does without libg_io.so   *)
(* ("output byte-identical to running without the shim", README.md:256).    *)
THEOREM Implements ==
    ASSUME Habits = {}, KernelBelow, OffsetsFit
    PROVE  ShimSpec => Transparent
<1>1. ShimInit => Posix!Init
  <2> SUFFICES ASSUME ShimInit PROVE Posix!Init
    OBVIOUS
  <2>1. DOMAIN handles = {} /\ DOMAIN kfds = {}
    BY DEF ShimInit, Init
  <2>2. Descriptors = [fd \in {} |-> Null]
    BY <2>1 DEF Descriptors
  <2> QED
    BY <2>2 DEF ShimInit, Posix!Init
<1>2. ShimIInv /\ [ShimNext]_shimVars => [Posix!Next]_(Posix!vars)
  BY ShimRefines
<1> QED
  BY <1>1, <1>2, ShimInvariance, PTL DEF ShimSpec, Transparent, Posix!Spec
=============================================================================
