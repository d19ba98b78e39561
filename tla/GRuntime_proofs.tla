-------------------------- MODULE GRuntime_proofs --------------------------
(***************************************************************************)
(* Theorems about GRuntime, for any number of threads, paths and calls.    *)
(***************************************************************************)
EXTENDS GRuntime, FiniteSetTheorems, TLAPS

(* Arithmetic of the 64-bit words that FdTable::read and lseek compute in.  *)
LEMMA ModInWord == \A x \in Int : x % WordSize \in Word
  BY GRuntimeAssumption DEF Word

LEMMA SignedInt == \A x \in Int : Signed(x) \in Int
  BY ModInWord, GRuntimeAssumption DEF Word, Signed

LEMMA SignedInWord == \A x \in Int : Signed(x) >= 0 => Signed(x) \in Word
  BY ModInWord, GRuntimeAssumption DEF Word, Signed

LEMMA SizesInWord == Sizes \subseteq Word /\ Counts \subseteq Word /\ 0 \in Word
  BY GRuntimeAssumption DEF Word

LEMMA NullSliceType == NullSlice \in Slice
  BY SizesInWord DEF NullSlice, Slice

-----------------------------------------------------------------------------
(* The three parts of the type invariant that most actions leave alone. *)
DiskOK ==
    /\ DOMAIN disk \subseteq Paths
    /\ \A p \in DOMAIN disk : disk[p] \in [file : Files, size : Sizes]
    /\ changes \in 0 .. MaxChanges
CacheOK ==
    /\ DOMAIN mem \subseteq Addrs
    /\ \A a \in DOMAIN mem : mem[a] \in Files
    /\ DOMAIN slices \subseteq Paths
    /\ \A k \in DOMAIN slices : slices[k] \in [slice : Slice, refs : Nat]
    /\ nextId \in Nat \ {0} /\ clearMark \in Nat \ {0}
    /\ mmaps \in Nat /\ bytes \in Nat
TableOK ==
    /\ DOMAIN handles \subseteq Base .. nextFd - 1
    /\ \A fd \in DOMAIN handles : handles[fd] \in [slice : Slice, pos : Word]
    /\ nextFd \in Nat /\ nextFd >= Base
Calls == [pc : {"idle", "ingest", "mapping", "insert", "closing"},
          path : Paths \cup {Null}, slice : Slice, fd : Nat]
CallOK == call \in [Threads -> Calls] /\ calls \in 0 .. MaxCalls
LastOK ==
    last \in [op : {"none", "open", "read", "pread", "lseek", "mmap", "set_pos",
                    "close", "clear"},
              id : Nat, size : Word, at : Word, val : Int]

LEMMA TypeParts == TypeOK <=> DiskOK /\ CacheOK /\ TableOK /\ CallOK /\ LastOK
  BY DEF TypeOK, DiskOK, CacheOK, TableOK, CallOK, LastOK, Calls

LEMMA TypePartsNext == DiskOK' /\ CacheOK' /\ TableOK' /\ CallOK' /\ LastOK' => TypeOK'
  BY DEF TypeOK, DiskOK, CacheOK, TableOK, CallOK, LastOK, Calls

LEMMA DiskFrame  == DiskOK /\ UNCHANGED diskVars => DiskOK'
  BY DEF DiskOK, diskVars
LEMMA CacheFrame == CacheOK /\ UNCHANGED cacheVars => CacheOK'
  BY DEF CacheOK, cacheVars
LEMMA TableFrame == TableOK /\ UNCHANGED tableVars => TableOK'
  BY DEF TableOK, tableVars

LEMMA EnterCalls == calls \in 0 .. MaxCalls /\ Enter => calls' \in 0 .. MaxCalls
  BY GRuntimeAssumption DEF Enter

LEMMA InitType == Init => TypeOK
<1> SUFFICES ASSUME Init PROVE TypeOK
  OBVIOUS
<1>1. DiskOK
  BY GRuntimeAssumption DEF Init, DiskOK, Files
<1>2. CacheOK
  BY DEF Init, CacheOK
<1>3. TableOK
  BY GRuntimeAssumption DEF Init, TableOK
<1>4. CallOK
  BY GRuntimeAssumption, NullSliceType DEF Init, CallOK, Calls, Idle, At
<1>5. LastOK
  BY SizesInWord DEF Init, LastOK, Result
<1> QED
  BY <1>1, <1>2, <1>3, <1>4, <1>5, TypeParts

(* open_read's use of the slice keeps the calls and the result well typed. *)
LEMMA DeliverType ==
  ASSUME TypeOK, NEW t \in Threads, NEW s \in Slice, Deliver(t, s), UNCHANGED calls
  PROVE  CallOK' /\ LastOK'
<1> USE TypeParts
<1>1. CallOK'
  BY NullSliceType DEF Deliver, CallOK, Calls, Idle, At
<1>2. LastOK'
  BY SizesInWord DEF Deliver, LastOK, Result, Slice
<1> QED
  BY <1>1, <1>2

LEMMA StepType == ASSUME TypeOK, LockInv, NEW t \in Threads, Step(t) PROVE TypeOK'
<1> USE TypeParts, TypePartsNext
<1>0. call[t] \in Calls
  BY DEF CallOK
<1>1. CASE IngestHit(t)
  <2>1. slices[call[t].path] \in [slice : Slice, refs : Nat]
    BY <1>1 DEF IngestHit, CacheOK
  <2>2. CacheOK'
    BY <1>1, <2>1 DEF IngestHit, CacheOK
  <2>3. DiskOK' /\ TableOK'
    BY <1>1, DiskFrame, TableFrame DEF IngestHit
  <2>4. CallOK' /\ LastOK'
    BY <1>1, <2>1, DeliverType DEF IngestHit
  <2> QED
    BY <2>2, <2>3, <2>4
<1>2. CASE IngestMiss(t)
  <2>1. DiskOK' /\ TableOK' /\ CacheOK' /\ LastOK'
    BY <1>2, DiskFrame, TableFrame, CacheFrame DEF IngestMiss, LastOK
  <2>2. CallOK'
    BY <1>2, <1>0, NullSliceType DEF IngestMiss, CallOK, Calls, At
  <2> QED
    BY <2>1, <2>2
<1>3. CASE MapFail(t)
  <2>1. DiskOK' /\ TableOK' /\ CacheOK'
    BY <1>3, DiskFrame, TableFrame, CacheFrame DEF MapFail
  <2>2. CallOK' /\ LastOK'
    BY <1>3, NullSliceType, DeliverType DEF MapFail
  <2> QED
    BY <2>1, <2>2
<1>4. ASSUME NEW a \in Addrs, MapOk(t, a) PROVE TypeOK'
  <2> DEFINE f == disk[call[t].path]
             s == [data |-> IF f.size = 0 THEN Null ELSE a, size |-> f.size,
                   id |-> nextId, file |-> f.file]
  <2>1. f \in [file : Files, size : Sizes] /\ call[t].path \in Paths
    BY <1>4 DEF MapOk, DiskOK
  <2>2. s \in Slice
    BY <2>1, SizesInWord DEF Slice, CacheOK
  <2>3. f.size \in Nat
    BY <2>1, GRuntimeAssumption
  <2>4. CacheOK'
    <3>1. mem' = (IF f.size = 0 THEN mem ELSE Put(mem, a, f.file))
          /\ slices' = Put(slices, call[t].path, [slice |-> s, refs |-> 1])
          /\ nextId' = nextId + 1 /\ mmaps' = mmaps + 1 /\ bytes' = bytes + f.size
          /\ clearMark' = clearMark
      BY <1>4 DEF MapOk, Mapping, Data
    <3> HIDE DEF s
    <3>2. DOMAIN mem' \subseteq Addrs /\ \A x \in DOMAIN mem' : mem'[x] \in Files
      BY <3>1, <2>1 DEF Put, CacheOK
    <3>3. DOMAIN slices' \subseteq Paths
          /\ \A k \in DOMAIN slices' : slices'[k] \in [slice : Slice, refs : Nat]
      BY <3>1, <2>1, <2>2 DEF Put, CacheOK
    <3> QED
      BY <3>1, <3>2, <3>3, <2>3 DEF CacheOK
  <2>5. DiskOK' /\ TableOK'
    BY <1>4, DiskFrame, TableFrame DEF MapOk
  <2>6. Deliver(t, s) /\ UNCHANGED calls
    BY <1>4 DEF MapOk, Data
  <2>7. CallOK' /\ LastOK'
    BY <2>6, <2>2, DeliverType
  <2> QED
    BY <2>4, <2>5, <2>7
<1>5. CASE Insert(t)
  <2>1. DiskOK' /\ CacheOK'
    BY <1>5, DiskFrame, CacheFrame DEF Insert
  <2>2. TableOK'
    BY <1>5, <1>0, SizesInWord, GRuntimeAssumption DEF Insert, TableOK, Put, Calls
  <2>3. CallOK'
    BY <1>5, <1>0, NullSliceType DEF Insert, CallOK, Calls, Idle, At
  <2>4. LastOK'
    BY <1>5, <1>0, SizesInWord DEF Insert, LastOK, Result, Calls, Slice, TableOK
  <2> QED
    BY <2>1, <2>2, <2>3, <2>4
<1>6. CASE Release(t)
  <2>1. DiskOK'
    BY <1>6, DiskFrame DEF Release
  <2>2. CacheOK'
    BY <1>6 DEF Release, Released, CacheOK
  <2>3. TableOK'
    BY <1>6 DEF Release, Del, TableOK
  <2>4. CallOK'
    BY <1>6, <1>0, NullSliceType DEF Release, CallOK, Calls, Idle, At
  <2>5. LastOK'
    BY <1>6, <1>0, SizesInWord DEF Release, LastOK, Result, Slice, TableOK, LockInv
  <2> QED
    BY <2>1, <2>2, <2>3, <2>4, <2>5
<1> QED
  BY <1>1, <1>2, <1>3, <1>4, <1>5, <1>6 DEF Step

(* What the calls of one critical section of the table change: the position *)
(* of one handle, and the result.                                           *)
TableEffect ==
    /\ UNCHANGED <<diskVars, cacheVars, nextFd, call>>
    /\ DOMAIN handles' = DOMAIN handles
    /\ \A fd \in DOMAIN handles :
          handles'[fd].slice = handles[fd].slice /\ handles'[fd] \in [slice : Slice, pos : Word]
    /\ LastOK' /\ calls' \in 0 .. MaxCalls

LEMMA SetPosEffect ==
  ASSUME TypeOK, NEW fd \in DOMAIN handles, NEW pos \in Word, SetPos(fd, pos)
  PROVE  /\ DOMAIN handles' = DOMAIN handles
         /\ \A x \in DOMAIN handles :
              handles'[x].slice = handles[x].slice /\ handles'[x] \in [slice : Slice, pos : Word]
  BY DEF TypeOK, SetPos

LEMMA TableCallEffect == ASSUME TypeOK, NEW fd \in Fds, TableCall(fd) PROVE TableEffect
<1>1. CASE fd \notin DOMAIN handles
  <2>1. \E op \in {"read", "pread", "lseek", "mmap", "set_pos"} :
           /\ Enter /\ last' = Result(op, 0, 0, 0, -1)
           /\ UNCHANGED <<handles, diskVars, cacheVars, nextFd, call>>
    BY <1>1 DEF TableCall, Read, Pread, Lseek, MmapSlice, SetPosCall, On
  <2> QED
    BY <2>1, SizesInWord, EnterCalls DEF TableEffect, TypeOK, LastOK, Result
<1>2. CASE fd \in DOMAIN handles
  <2> DEFINE h == handles[fd]
  <2>0. h \in [slice : Slice, pos : Word] /\ h.slice.size \in Word /\ h.slice.id \in Nat
    BY <1>2 DEF TypeOK, Slice
  <2>1. ASSUME NEW n \in Counts, Read(fd, n) PROVE TableEffect
    <3> DEFINE avail == (h.slice.size - h.pos) % WordSize
               want  == Smaller(n, avail)
    <3>1. /\ Enter /\ SetPos(fd, (h.pos + want) % WordSize)
          /\ last' = Result("read", h.slice.id, h.slice.size, h.pos, want)
          /\ UNCHANGED <<diskVars, cacheVars, nextFd, call>>
      BY <1>2, <2>1 DEF Read, On
    <3>2. avail \in Word
      BY <2>0, ModInWord DEF Word
    <3>3. want \in Word
      BY <3>2, SizesInWord DEF Smaller
    <3>4. (h.pos + want) % WordSize \in Word
      BY <2>0, <3>3, ModInWord DEF Word
    <3>5. LastOK'
      BY <3>1, <3>3, <2>0 DEF LastOK, Result, Word
    <3> QED
      BY <1>2, <3>1, <3>4, <3>5, SetPosEffect, EnterCalls DEF TableEffect, TypeOK
  <2>2. ASSUME NEW n \in Counts, NEW off \in Counts, Pread(fd, n, off) PROVE TableEffect
    <3> DEFINE want == IF off >= h.slice.size THEN 0 ELSE Smaller(n, h.slice.size - off)
    <3>1. /\ Enter /\ UNCHANGED handles
          /\ last' = Result("pread", h.slice.id, h.slice.size, off, want)
          /\ UNCHANGED <<diskVars, cacheVars, nextFd, call>>
      BY <1>2, <2>2 DEF Pread, On
    <3>2. want \in Int
      BY <2>0, GRuntimeAssumption DEF Smaller, Word
    <3>3. LastOK'
      BY <3>1, <3>2, <2>0, SizesInWord DEF LastOK, Result
    <3> QED
      BY <3>1, <3>3, EnterCalls DEF TableEffect, TypeOK
  <2>3. ASSUME NEW n \in Counts, NEW off \in Counts, MmapSlice(fd, off, n) PROVE TableEffect
    <3>1. /\ Enter /\ UNCHANGED handles
          /\ \E val \in Int : last' = Result("mmap", h.slice.id, h.slice.size, off, val)
          /\ UNCHANGED <<diskVars, cacheVars, nextFd, call>>
      BY <1>2, <2>3, GRuntimeAssumption DEF MmapSlice, On
    <3>2. LastOK'
      BY <3>1, <2>0, SizesInWord DEF LastOK, Result
    <3> QED
      BY <3>1, <3>2, EnterCalls DEF TableEffect, TypeOK
  <2>4. ASSUME NEW off \in Offsets, NEW whence \in Whences, Lseek(fd, off, whence)
        PROVE  TableEffect
    <3> DEFINE from   == CASE whence = "SET" -> 0
                           [] whence = "CUR" -> Signed(h.pos)
                           [] whence = "END" -> Signed(h.slice.size)
                           [] OTHER -> 0
               target == Signed(from + off)
    <3>1. /\ Enter
          /\ IF whence = "other" \/ target < 0
             THEN /\ last' = Result("lseek", h.slice.id, h.slice.size, 0, -1)
                  /\ UNCHANGED handles
             ELSE /\ SetPos(fd, target)
                  /\ last' = Result("lseek", h.slice.id, h.slice.size, 0, target)
          /\ UNCHANGED <<diskVars, cacheVars, nextFd, call>>
      BY <1>2, <2>4 DEF Lseek, On
    <3>2. from \in Int
      BY <2>0, SignedInt DEF Word
    <3> HIDE DEF from
    <3>3. target \in Int /\ (target >= 0 => target \in Word)
      BY <3>2, SignedInt, SignedInWord, GRuntimeAssumption
    <3> HIDE DEF target
    <3>4. LastOK'
      BY <3>1, <3>3, <2>0, SizesInWord DEF LastOK, Result
    <3> QED
      BY <1>2, <3>1, <3>3, <3>4, SetPosEffect, EnterCalls DEF TableEffect, TypeOK
  <2>5. ASSUME NEW pos \in Counts, SetPosCall(fd, pos) PROVE TableEffect
    <3>1. /\ Enter /\ SetPos(fd, pos)
          /\ last' = Result("set_pos", h.slice.id, h.slice.size, pos, 0)
          /\ UNCHANGED <<diskVars, cacheVars, nextFd, call>>
      BY <1>2, <2>5 DEF SetPosCall, On
    <3>2. LastOK'
      BY <3>1, <2>0, SizesInWord DEF LastOK, Result
    <3> QED
      BY <1>2, <3>1, <3>2, SizesInWord, SetPosEffect, EnterCalls DEF TableEffect, TypeOK
  <2> QED
    BY <2>1, <2>2, <2>3, <2>4, <2>5 DEF TableCall
<1> QED
  BY <1>1, <1>2

LEMMA NextType == ASSUME TypeOK, LockInv, Next PROVE TypeOK'
<1> USE TypeParts, TypePartsNext
<1>1. ASSUME NEW t \in Threads, NEW p \in Paths, OpenRead(t, p) PROVE TypeOK'
  <2>1. DiskOK' /\ CacheOK' /\ TableOK' /\ LastOK'
    BY <1>1, DiskFrame, CacheFrame, TableFrame DEF OpenRead, LastOK
  <2>2. CallOK'
    BY <1>1, NullSliceType, EnterCalls DEF OpenRead, CallOK, Calls, At
  <2> QED
    BY <2>1, <2>2
<1>2. ASSUME NEW t \in Threads, NEW fd \in Fds, Close(t, fd) PROVE TypeOK'
  <2>1. DiskOK' /\ CacheOK' /\ TableOK'
    BY <1>2, DiskFrame, CacheFrame, TableFrame DEF Close
  <2>2. fd \in Nat
    BY GRuntimeAssumption DEF Fds, TableOK
  <2>3. CallOK'
    BY <1>2, <2>2, NullSliceType, EnterCalls DEF Close, CallOK, Calls, At
  <2>4. LastOK'
    BY <1>2, SizesInWord DEF Close, LastOK, Result
  <2> QED
    BY <2>1, <2>3, <2>4
<1>3. ASSUME NEW t \in Threads, Step(t) PROVE TypeOK'
  BY <1>3, StepType
<1>4. ASSUME NEW fd \in Fds, TableCall(fd) PROVE TypeOK'
  <2>1. TableEffect
    BY <1>4, TableCallEffect
  <2>2. DiskOK' /\ CacheOK' /\ CallOK' /\ LastOK'
    BY <2>1, DiskFrame, CacheFrame DEF TableEffect, CallOK
  <2>3. TableOK'
    BY <2>1 DEF TableEffect, TableOK
  <2> QED
    BY <2>2, <2>3
<1>5. CASE Clear
  <2>1. DiskOK' /\ TableOK'
    BY <1>5, DiskFrame, TableFrame DEF Clear
  <2>2. CacheOK'
    BY <1>5 DEF Clear, Unmapped, CacheOK
  <2>3. CallOK' /\ LastOK'
    BY <1>5, SizesInWord, EnterCalls DEF Clear, CallOK, LastOK, Result
  <2> QED
    BY <2>1, <2>2, <2>3
<1>6. CASE Environment
  <2>1. Change
    BY <1>6 DEF Environment, ReplaceFile, ExtendFile, RemoveFile
  <2>2. CacheOK' /\ TableOK' /\ CallOK' /\ LastOK'
    BY <2>1, CacheFrame, TableFrame DEF Change, CallOK, LastOK
  <2>3. changes' \in 0 .. MaxChanges
    BY <2>1, GRuntimeAssumption DEF Change, DiskOK
  <2>4. ASSUME NEW p \in Paths, NEW size \in Sizes, ReplaceFile(p, size) PROVE DiskOK'
    <3>1. <<p, changes + 1>> \in Files
      BY DEF Files, DiskOK
    <3> QED
      BY <2>3, <2>4, <3>1 DEF ReplaceFile, Put, DiskOK
  <2>5. ASSUME NEW p \in Paths, NEW size \in Sizes, ExtendFile(p, size) PROVE DiskOK'
    BY <2>3, <2>5 DEF ExtendFile, DiskOK
  <2>6. ASSUME NEW p \in Paths, RemoveFile(p) PROVE DiskOK'
    BY <2>3, <2>6 DEF RemoveFile, Del, DiskOK
  <2> QED
    BY <1>6, <2>2, <2>4, <2>5, <2>6 DEF Environment
<1>7. CASE Finished
  BY <1>7 DEF Finished, vars, diskVars, cacheVars, tableVars, TypeOK
<1> QED
  BY <1>1, <1>2, <1>3, <1>4, <1>5, <1>6, <1>7 DEF Next
-----------------------------------------------------------------------------
(* The calls that leave the cache alone, move no thread and change no       *)
(* descriptor's slice keep the three parts of the strengthening.            *)
Quiet ==
    /\ UNCHANGED <<cacheVars, call>>
    /\ DOMAIN handles' = DOMAIN handles
    /\ \A fd \in DOMAIN handles : handles'[fd].slice = handles[fd].slice

LEMMA QuietStep == LockInv /\ IdInv /\ NullInv /\ Quiet => LockInv' /\ IdInv' /\ NullInv'
<1> SUFFICES ASSUME LockInv, IdInv, NullInv, Quiet PROVE LockInv' /\ IdInv' /\ NullInv'
  OBVIOUS
<1>1. LockInv'
  BY DEF LockInv, Quiet, cacheVars
<1>2. IdInv'
  BY DEF IdInv, Issued, Quiet, cacheVars
<1>3. NullInv'
  BY DEF NullInv, Quiet, cacheVars
<1> QED
  BY <1>1, <1>2, <1>3

LEMMA QuietMem == MemInv /\ UNCHANGED cacheVars => MemInv'
  BY DEF MemInv, cacheVars

LEMMA OthersQuiet ==
  ASSUME TypeOK,
         (\E fd \in Fds : TableCall(fd)) \/ Environment \/ Finished
  PROVE  Quiet
<1>1. ASSUME NEW fd \in Fds, TableCall(fd) PROVE Quiet
  BY <1>1, TableCallEffect DEF TableEffect, Quiet
<1>2. CASE Environment
  BY <1>2 DEF Environment, ReplaceFile, ExtendFile, RemoveFile, Change, Quiet, tableVars
<1>3. CASE Finished
  BY <1>3 DEF Finished, vars, Quiet, tableVars
<1> QED
  BY <1>1, <1>2, <1>3

(* Deliver ends the thread's call or takes it to the table; the other       *)
(* threads stay where they are.                                             *)
Delivered(t, s) ==
    /\ \A u \in Threads : u # t => call'[u] = call[u]
    /\ call'[t].pc \in {"idle", "insert"}
    /\ call'[t].pc = "insert" => call'[t].slice = s /\ ~(s.data = Null /\ s.size = 0)

LEMMA DeliverCall ==
  ASSUME TypeOK, NEW t \in Threads, NEW s \in Slice, Deliver(t, s)
  PROVE  Delivered(t, s)
  BY DEF Deliver, TypeOK, Idle, At, Delivered

LEMMA LockStep ==
  ASSUME TypeOK, LockInv, NEW t \in Threads,
         Step(t) \/ (\E p \in Paths : OpenRead(t, p)) \/ (\E fd \in Fds : Close(t, fd))
  PROVE  LockInv'
<1> USE DEF LockInv, At, Idle
<1>0. call \in [Threads -> Calls]
  BY DEF TypeOK, Calls
<1>1. ASSUME NEW p \in Paths, OpenRead(t, p) PROVE LockInv'
  BY <1>0, <1>1 DEF OpenRead, cacheVars, tableVars
<1>2. ASSUME NEW fd \in Fds, Close(t, fd) PROVE LockInv'
  BY <1>0, <1>2 DEF Close, FdFree, cacheVars, tableVars
<1>3. CASE IngestHit(t)
  <2>1. slices[call[t].path].slice \in Slice
    BY <1>3 DEF IngestHit, TypeOK
  <2>2. Delivered(t, slices[call[t].path].slice)
    BY <1>3, <2>1, DeliverCall DEF IngestHit
  <2>3. DOMAIN slices' = DOMAIN slices /\ handles' = handles
    BY <1>3 DEF IngestHit, tableVars
  <2> QED
    BY <2>2, <2>3 DEF Delivered
<1>4. CASE IngestMiss(t)
  BY <1>0, <1>4 DEF IngestMiss, CacheFree, cacheVars, tableVars
<1>5. CASE MapFail(t)
  <2>1. Delivered(t, NullSlice)
    BY <1>5, NullSliceType, DeliverCall DEF MapFail
  <2> QED
    BY <1>5, <2>1 DEF MapFail, cacheVars, tableVars, Delivered
<1>6. ASSUME NEW a \in Addrs, MapOk(t, a) PROVE LockInv'
  <2> DEFINE f == disk[call[t].path]
             s == [data |-> IF f.size = 0 THEN Null ELSE a, size |-> f.size,
                   id |-> nextId, file |-> f.file]
  <2>1. s \in Slice
    BY <1>6, SizesInWord DEF MapOk, Data, TypeOK, Slice
  <2>2. Deliver(t, s) /\ handles' = handles /\ call[t].pc = "mapping"
        /\ DOMAIN slices' = DOMAIN slices \cup {call[t].path}
    BY <1>6 DEF MapOk, Data, Put, tableVars
  <2> HIDE DEF s
  <2>3. Delivered(t, s)
    BY <2>1, <2>2, DeliverCall
  <2> QED
    BY <2>2, <2>3 DEF Delivered
<1>7. CASE Insert(t)
  BY <1>0, <1>7 DEF Insert, Put, cacheVars
<1>8. CASE Release(t)
  BY <1>0, <1>8 DEF Release, Released, Del
<1> QED
  BY <1>1, <1>2, <1>3, <1>4, <1>5, <1>6, <1>7, <1>8 DEF Step

LEMMA LockClear == TypeOK /\ LockInv /\ Clear => LockInv'
  BY DEF LockInv, Clear, CacheFree, tableVars
-----------------------------------------------------------------------------
(* The ids and the mappings.  Only ingest, release and clear change the     *)
(* cache; Insert moves a slice from a call to a descriptor.                 *)

(* The cache after the step still vouches for the slice x. *)
IssuedNext(x) ==
    /\ x.data # Null /\ x.id < nextId'
    /\ x.id >= clearMark' => \E k \in DOMAIN slices' : slices'[k].slice = x

CachedIds ==
    /\ clearMark <= nextId
    /\ \A k \in DOMAIN slices : clearMark <= slices[k].slice.id /\ slices[k].slice.id < nextId
    /\ \A k, l \in DOMAIN slices : slices[k].slice.id = slices[l].slice.id => k = l

LEMMA IdInvNext ==
  ASSUME CachedIds',
         \A fd \in DOMAIN handles' : IssuedNext(handles'[fd].slice),
         \A t \in Threads : call'[t].pc = "insert" => IssuedNext(call'[t].slice)
  PROVE  IdInv'
  BY DEF CachedIds, IdInv, Issued, IssuedNext

(* ingest() keeps what was issued valid, and its own slice s is valid too. *)
LEMMA IngestIds ==
  ASSUME TypeOK, IdInv, NEW t \in Threads, NEW s \in Slice,
         Delivered(t, s), handles' = handles, CachedIds',
         \A x \in Slice : Issued(x) => IssuedNext(x),
         call'[t].pc = "insert" => IssuedNext(s)
  PROVE  IdInv'
<1>1. \A fd \in DOMAIN handles' : IssuedNext(handles'[fd].slice)
  BY DEF IdInv, TypeOK
<1>2. \A u \in Threads : call'[u].pc = "insert" => IssuedNext(call'[u].slice)
  BY DEF IdInv, TypeOK, Delivered
<1> QED
  BY <1>1, <1>2, IdInvNext

LEMMA IdStep ==
  ASSUME TypeOK, LockInv, IdInv, NullInv, NEW t \in Threads,
         Step(t) \/ (\E p \in Paths : OpenRead(t, p)) \/ (\E fd \in Fds : Close(t, fd))
  PROVE  IdInv' /\ NullInv'
<1>0. call \in [Threads -> Calls] /\ call[t] \in Calls
  BY DEF TypeOK, Calls
<1>1. ASSUME NEW p \in Paths, OpenRead(t, p) PROVE IdInv' /\ NullInv'
  <2>1. NullInv'
    BY <1>1 DEF OpenRead, cacheVars, NullInv
  <2>2. IdInv'
    BY <1>0, <1>1 DEF OpenRead, cacheVars, tableVars, IdInv, Issued, At
  <2> QED
    BY <2>1, <2>2
<1>2. ASSUME NEW fd \in Fds, Close(t, fd) PROVE IdInv' /\ NullInv'
  <2>1. NullInv'
    BY <1>2 DEF Close, cacheVars, NullInv
  <2>2. IdInv'
    BY <1>0, <1>2 DEF Close, cacheVars, tableVars, IdInv, Issued, At
  <2> QED
    BY <2>1, <2>2
<1>3. CASE IngestHit(t)
  <2> DEFINE s == slices[call[t].path].slice
  <2>1. s \in Slice /\ call[t].path \in DOMAIN slices
    BY <1>3 DEF IngestHit, TypeOK
  <2>2. /\ DOMAIN slices' = DOMAIN slices
        /\ \A k \in DOMAIN slices : slices'[k].slice = slices[k].slice
        /\ UNCHANGED <<nextId, mem, clearMark, handles>>
    BY <1>3 DEF IngestHit, TypeOK, tableVars
  <2>3. NullInv'
    BY <2>2 DEF NullInv
  <2>4. Delivered(t, s)
    BY <1>3, <2>1, DeliverCall DEF IngestHit
  <2>5. call'[t].pc = "insert" => IssuedNext(s)
    <3>1. ASSUME call'[t].pc = "insert" PROVE s.data # Null
      BY <3>1, <2>1, <2>4 DEF NullInv, Delivered
    <3> QED
      BY <3>1, <2>1, <2>2 DEF IdInv, IssuedNext
  <2>6. \A x \in Slice : Issued(x) => IssuedNext(x)
    BY <2>2 DEF Issued, IssuedNext
  <2>7. CachedIds'
    BY <2>2 DEF CachedIds, IdInv
  <2>8. IdInv'
    BY <2>1, <2>2, <2>4, <2>5, <2>6, <2>7, IngestIds
  <2> QED
    BY <2>3, <2>8
<1>4. CASE IngestMiss(t)
  <2>1. NullInv'
    BY <1>4 DEF IngestMiss, cacheVars, NullInv
  <2>2. IdInv'
    BY <1>0, <1>4 DEF IngestMiss, cacheVars, tableVars, IdInv, Issued, At
  <2> QED
    BY <2>1, <2>2
<1>5. CASE MapFail(t)
  <2>1. NullInv'
    BY <1>5 DEF MapFail, cacheVars, NullInv
  <2>2. Delivered(t, NullSlice) /\ call'[t].pc # "insert"
    BY <1>5, NullSliceType, DeliverCall DEF MapFail, Delivered, NullSlice
  <2>3. \A x \in Slice : Issued(x) => IssuedNext(x)
    BY <1>5 DEF MapFail, cacheVars, Issued, IssuedNext
  <2>4. CachedIds'
    BY <1>5 DEF MapFail, cacheVars, CachedIds, IdInv
  <2>5. handles' = handles
    BY <1>5 DEF MapFail, tableVars
  <2> QED
    BY <2>1, <2>2, <2>3, <2>4, <2>5, NullSliceType, IngestIds
<1>6. ASSUME NEW a \in Addrs, MapOk(t, a) PROVE IdInv' /\ NullInv'
  <2> DEFINE p == call[t].path
             f == disk[p]
             s == [data |-> IF f.size = 0 THEN Null ELSE a, size |-> f.size,
                   id |-> nextId, file |-> f.file]
  <2>1. s \in Slice
    BY <1>6, SizesInWord DEF MapOk, Data, TypeOK, Slice
  <2>2. /\ Deliver(t, s) /\ UNCHANGED <<handles, clearMark>>
        /\ p \notin DOMAIN slices /\ a \notin DOMAIN mem
        /\ slices' = Put(slices, p, [slice |-> s, refs |-> 1])
        /\ nextId' = nextId + 1
        /\ mem' = IF f.size = 0 THEN mem ELSE Put(mem, a, f.file)
    BY <1>6 DEF MapOk, Mapping, Data, tableVars, LockInv
  <2>3. /\ s.data = IF f.size = 0 THEN Null ELSE a
        /\ s.size = f.size /\ s.id = nextId /\ s.file = f.file
    OBVIOUS
  <2> HIDE DEF s
  <2>4. Delivered(t, s)
    BY <2>1, <2>2, DeliverCall
  <2>5. /\ DOMAIN slices' = DOMAIN slices \cup {p}
        /\ slices'[p].slice = s
        /\ \A k \in DOMAIN slices : slices'[k] = slices[k]
    BY <2>2 DEF Put
  <2>6. \A x \in Slice : Issued(x) => IssuedNext(x)
    BY <2>2, <2>5 DEF Issued, IssuedNext, TypeOK, Slice
  <2>7. CachedIds'
    <3>1. /\ nextId \in Nat /\ clearMark \in Nat /\ nextId' = nextId + 1
          /\ clearMark' = clearMark
          /\ \A k \in DOMAIN slices : slices[k].slice.id \in Nat
      BY <2>2 DEF TypeOK, Slice
    <3>2. \A k \in DOMAIN slices' :
             \/ k = p /\ slices'[k].slice.id = nextId
             \/ /\ k \in DOMAIN slices
                /\ slices'[k].slice.id = slices[k].slice.id
                /\ slices'[k].slice.id < nextId
      BY <2>3, <2>5 DEF IdInv
    <3>3. clearMark' <= nextId'
      BY <3>1 DEF IdInv
    <3>4. \A k \in DOMAIN slices' : clearMark' <= slices'[k].slice.id /\ slices'[k].slice.id < nextId'
      BY <3>1, <3>2 DEF IdInv
    <3>5. \A k, l \in DOMAIN slices' : slices'[k].slice.id = slices'[l].slice.id => k = l
      BY <3>1, <3>2 DEF IdInv
    <3> QED
      BY <3>3, <3>4, <3>5 DEF CachedIds
  <2>8. call'[t].pc = "insert" => IssuedNext(s)
    BY <2>2, <2>3, <2>4, <2>5, GRuntimeAssumption DEF Delivered, IssuedNext, TypeOK
  <2>9. IdInv'
    BY <2>1, <2>2, <2>4, <2>6, <2>7, <2>8, IngestIds
  <2>10. NullInv'
    BY <2>3, <2>5, GRuntimeAssumption DEF NullInv
  <2> QED
    BY <2>9, <2>10
<1>7. CASE Insert(t)
  <2>1. NullInv'
    BY <1>7 DEF Insert, cacheVars, NullInv
  <2>2. \A x : Issued(x) => IssuedNext(x)
    BY <1>7 DEF Insert, cacheVars, Issued, IssuedNext
  <2>3. CachedIds'
    BY <1>7 DEF Insert, cacheVars, CachedIds, IdInv
  <2>4. /\ DOMAIN handles' = DOMAIN handles \cup {nextFd}
        /\ handles'[nextFd].slice = call[t].slice
        /\ \A x \in DOMAIN handles : x # nextFd => handles'[x] = handles[x]
        /\ call[t].pc = "insert"
    BY <1>7 DEF Insert, Put
  <2>5. \A u \in Threads : call'[u].pc = "insert" => call'[u] = call[u] /\ call[u].pc = "insert"
    BY <1>0, <1>7 DEF Insert, At, Idle
  <2>6. IdInv'
    BY <2>2, <2>3, <2>4, <2>5, IdInvNext DEF IdInv
  <2> QED
    BY <2>1, <2>6
<1>8. CASE Release(t)
  <2>1. /\ DOMAIN slices' = DOMAIN slices
        /\ \A k \in DOMAIN slices : slices'[k].slice = slices[k].slice
        /\ UNCHANGED <<nextId, mem, clearMark>>
    BY <1>8 DEF Release, Released
  <2>2. NullInv'
    BY <2>1 DEF NullInv
  <2>3. CachedIds'
    BY <2>1 DEF CachedIds, IdInv
  <2>4. \A x : Issued(x) => IssuedNext(x)
    BY <2>1 DEF Issued, IssuedNext
  <2>5. /\ DOMAIN handles' \subseteq DOMAIN handles
        /\ \A x \in DOMAIN handles' : handles'[x] = handles[x]
    BY <1>8 DEF Release, Del
  <2>6. \A u \in Threads : call'[u].pc = "insert" => call'[u] = call[u] /\ call[u].pc = "insert"
    BY <1>0, <1>8 DEF Release, At, Idle
  <2>7. IdInv'
    BY <2>3, <2>4, <2>5, <2>6, IdInvNext DEF IdInv
  <2> QED
    BY <2>2, <2>7
<1> QED
  BY <1>1, <1>2, <1>3, <1>4, <1>5, <1>6, <1>7, <1>8 DEF Step

LEMMA MemStep ==
  ASSUME TypeOK, LockInv, MemInv, NEW t \in Threads,
         Step(t) \/ (\E p \in Paths : OpenRead(t, p)) \/ (\E fd \in Fds : Close(t, fd))
  PROVE  MemInv'
<1>1. CASE \/ IngestMiss(t) \/ MapFail(t) \/ Insert(t)
           \/ (\E p \in Paths : OpenRead(t, p)) \/ (\E fd \in Fds : Close(t, fd))
  <2>1. UNCHANGED cacheVars
    BY <1>1 DEF IngestMiss, MapFail, Insert, OpenRead, Close
  <2> QED
    BY <2>1, QuietMem
<1>2. CASE IngestHit(t) \/ Release(t)
  <2>1. /\ DOMAIN slices' = DOMAIN slices
        /\ \A k \in DOMAIN slices : slices'[k].slice = slices[k].slice
        /\ mem' = mem
    BY <1>2 DEF IngestHit, Release, Released
  <2> QED
    BY <2>1 DEF MemInv
<1>3. ASSUME NEW a \in Addrs, MapOk(t, a) PROVE MemInv'
  <2> DEFINE p == call[t].path
             f == disk[p]
             s == [data |-> IF f.size = 0 THEN Null ELSE a, size |-> f.size,
                   id |-> nextId, file |-> f.file]
  <2>1. /\ p \notin DOMAIN slices /\ a \notin DOMAIN mem
        /\ slices' = Put(slices, p, [slice |-> s, refs |-> 1])
        /\ mem' = IF f.size = 0 THEN mem ELSE Put(mem, a, f.file)
    BY <1>3 DEF MapOk, Mapping, Data, tableVars, LockInv
  <2>2. s.data = (IF f.size = 0 THEN Null ELSE a) /\ s.file = f.file
    OBVIOUS
  <2> HIDE DEF s
  <2>3. /\ DOMAIN slices' = DOMAIN slices \cup {p}
        /\ slices'[p].slice = s
        /\ \A k \in DOMAIN slices : slices'[k] = slices[k]
    BY <2>1 DEF Put
  <2>4. /\ \A x \in DOMAIN mem : x \in DOMAIN mem' /\ mem'[x] = mem[x]
        /\ f.size # 0 => a \in DOMAIN mem' /\ mem'[a] = f.file
        /\ DOMAIN mem' \subseteq DOMAIN mem \cup (IF f.size = 0 THEN {} ELSE {a})
    BY <2>1 DEF Put
  <2>5. \A k \in DOMAIN slices' :
           LET x == slices'[k].slice
           IN  x.data # Null => x.data \in DOMAIN mem' /\ mem'[x.data] = x.file
    BY <2>2, <2>3, <2>4, GRuntimeAssumption DEF MemInv
  <2>6. \A k, l \in DOMAIN slices' :
           slices'[k].slice.data = slices'[l].slice.data /\ slices'[k].slice.data # Null => k = l
    BY <2>1, <2>2, <2>3 DEF MemInv
  <2>7. \A x \in DOMAIN mem' : \E k \in DOMAIN slices' : slices'[k].slice.data = x
    BY <2>2, <2>3, <2>4 DEF MemInv
  <2> QED
    BY <2>5, <2>6, <2>7 DEF MemInv
<1> QED
  BY <1>1, <1>2, <1>3 DEF Step

LEMMA IdClear == ASSUME TypeOK, IdInv, Clear PROVE IdInv' /\ NullInv'
<1>1. /\ DOMAIN slices' = {} /\ clearMark' = nextId /\ nextId' = nextId
      /\ handles' = handles /\ call' = call
  BY DEF Clear, Unmapped, tableVars
<1>2. NullInv'
  BY <1>1 DEF NullInv
<1>3. CachedIds'
  BY <1>1 DEF CachedIds, TypeOK
<1>4. \A x \in Slice : Issued(x) => IssuedNext(x)
  BY <1>1 DEF Issued, IssuedNext, TypeOK, Slice
<1>5. IdInv'
  BY <1>1, <1>3, <1>4, IdInvNext DEF IdInv, TypeOK
<1> QED
  BY <1>2, <1>5

LEMMA MemClear == MemInv /\ Clear => MemInv'
  BY DEF Clear, Unmapped, MemInv
-----------------------------------------------------------------------------
(* Files and keys carry the path.  Only a MapOk adds an entry, and only the *)
(* other processes change the disk.                                         *)
LEMMA KeyNext == ASSUME TypeOK, KeyInv, [Next]_vars PROVE KeyInv'
<1> USE DEF KeyInv
<1>1. ASSUME NEW t \in Threads, NEW a \in Addrs, MapOk(t, a) PROVE KeyInv'
  <2> DEFINE p == call[t].path
             s == [data |-> Data(disk[p], a), size |-> disk[p].size,
                   id |-> nextId, file |-> disk[p].file]
  <2>1. /\ p \in DOMAIN disk /\ disk' = disk
        /\ slices' = Put(slices, p, [slice |-> s, refs |-> 1])
    BY <1>1 DEF MapOk, diskVars
  <2>2. s.file[1] = p
    BY <2>1
  <2> HIDE DEF s, p
  <2> QED
    BY <2>1, <2>2 DEF Put
<1>2. ASSUME NEW t \in Threads, IngestHit(t) PROVE KeyInv'
  BY <1>2 DEF IngestHit, diskVars
<1>3. ASSUME NEW t \in Threads, Release(t) PROVE KeyInv'
  BY <1>3 DEF Release, Released, diskVars
<1>4. CASE Clear
  BY <1>4 DEF Clear, diskVars
<1>5. CASE Environment
  <2>1. slices' = slices
    BY <1>5 DEF Environment, ReplaceFile, ExtendFile, RemoveFile, Change, cacheVars
  <2>2. ASSUME NEW p \in Paths, NEW size \in Sizes, ReplaceFile(p, size) PROVE KeyInv'
    BY <2>1, <2>2 DEF ReplaceFile, Put
  <2>3. ASSUME NEW p \in Paths, NEW size \in Sizes, ExtendFile(p, size) PROVE KeyInv'
    BY <2>1, <2>3 DEF ExtendFile
  <2>4. ASSUME NEW p \in Paths, RemoveFile(p) PROVE KeyInv'
    BY <2>1, <2>4 DEF RemoveFile, Del
  <2> QED
    BY <1>5, <2>2, <2>3, <2>4 DEF Environment
<1>6. ASSUME UNCHANGED <<disk, slices>> PROVE KeyInv'
  BY <1>6
<1>7. ASSUME NEW t \in Threads,
             \/ IngestMiss(t) \/ MapFail(t) \/ Insert(t)
             \/ \E p \in Paths : OpenRead(t, p)
             \/ \E fd \in Fds : Close(t, fd)
      PROVE  UNCHANGED <<disk, slices>>
  BY <1>7 DEF IngestMiss, MapFail, Insert, OpenRead, Close, diskVars, cacheVars
<1>8. ASSUME NEW fd \in Fds, TableCall(fd) PROVE UNCHANGED <<disk, slices>>
  BY <1>8, TableCallEffect DEF TableEffect, diskVars, cacheVars
<1>9. CASE Finished \/ UNCHANGED vars
  BY <1>9 DEF Finished, vars, diskVars, cacheVars
<1> QED
  BY <1>1, <1>2, <1>3, <1>4, <1>5, <1>6, <1>7, <1>8, <1>9 DEF Next, Step
-----------------------------------------------------------------------------
LEMMA InitInv == Init => IInv
<1> SUFFICES ASSUME Init PROVE IInv
  OBVIOUS
<1>1. LockInv
  BY DEF Init, LockInv, Idle, At
<1>2. IdInv
  BY DEF Init, IdInv, Idle, At
<1>3. MemInv /\ NullInv
  BY DEF Init, MemInv, NullInv
<1>4. KeyInv
  BY DEF Init, KeyInv
<1> QED
  BY <1>1, <1>2, <1>3, <1>4, InitType DEF IInv, CoreInv

LEMMA CoreNext == CoreInv /\ [Next]_vars => CoreInv'
<1> SUFFICES ASSUME CoreInv, [Next]_vars PROVE CoreInv'
  OBVIOUS
<1> USE DEF CoreInv
<1>1. ASSUME NEW t \in Threads,
             Step(t) \/ (\E p \in Paths : OpenRead(t, p)) \/ (\E fd \in Fds : Close(t, fd))
      PROVE  CoreInv'
  <2>1. Next
    BY <1>1 DEF Next
  <2> QED
    BY <1>1, <2>1, NextType, LockStep, IdStep
<1>2. CASE (\E fd \in Fds : TableCall(fd)) \/ Environment \/ Finished
  <2>1. Next
    BY <1>2 DEF Next
  <2> QED
    BY <1>2, <2>1, NextType, OthersQuiet, QuietStep
<1>3. CASE Clear
  <2>1. Next
    BY <1>3 DEF Next
  <2> QED
    BY <1>3, <2>1, NextType, LockClear, IdClear
<1>4. CASE UNCHANGED vars
  <2>1. TypeOK'
    BY <1>4 DEF vars, diskVars, cacheVars, tableVars, TypeOK
  <2>2. Quiet
    BY <1>4 DEF vars, tableVars, Quiet
  <2> QED
    BY <2>1, <2>2, QuietStep
<1> QED
  BY <1>1, <1>2, <1>3, <1>4 DEF Next

LEMMA NextInv == IInv /\ [Next]_vars => IInv'
<1> SUFFICES ASSUME IInv, [Next]_vars PROVE IInv'
  OBVIOUS
<1>0. CoreInv /\ MemInv /\ TypeOK /\ LockInv
  BY DEF IInv, CoreInv
<1>1. CoreInv' /\ KeyInv'
  BY <1>0, CoreNext, KeyNext DEF IInv
<1>2. CASE \E t \in Threads :
             Step(t) \/ (\E p \in Paths : OpenRead(t, p)) \/ (\E fd \in Fds : Close(t, fd))
  BY <1>0, <1>1, <1>2, MemStep DEF IInv
<1>3. CASE (\E fd \in Fds : TableCall(fd)) \/ Environment \/ Finished \/ UNCHANGED vars
  <2>1. UNCHANGED cacheVars
    BY <1>0, <1>3, OthersQuiet DEF Quiet, vars
  <2> QED
    BY <1>0, <1>1, <2>1, QuietMem DEF IInv
<1>4. CASE Clear
  BY <1>0, <1>1, <1>4, MemClear DEF IInv
<1> QED
  BY <1>2, <1>3, <1>4 DEF Next

(* The cache, the table and the threads are always well typed, the mutexes  *)
(* exclude each other, ids are unique and mappings are owned: IInv is an    *)
(* invariant of the runtime, for every number of threads, files and calls.  *)
THEOREM Invariance == Spec => []IInv
<1>1. Init => IInv
  BY InitInv
<1>2. IInv /\ [Next]_vars => IInv'
  BY NextInv
<1> QED
  BY <1>1, <1>2, PTL DEF Spec

(* The state of the runtime is always well typed (MmapCache, FdTable).      *)
THEOREM TypeCorrect == Spec => []TypeOK
<1>1. IInv => TypeOK
  BY DEF IInv, CoreInv
<1> QED
  BY <1>1, Invariance, PTL

(* A descriptor opened since the latest clear() reads a slice that is       *)
(* cached and mapped to the file it was opened on.                          *)
THEOREM BackedHandles == Spec => []HandlesBacked
<1>1. IInv => HandlesBacked
  BY DEF IInv, CoreInv, IdInv, MemInv, Issued, HandlesBacked, TypeOK
<1> QED
  BY <1>1, Invariance, PTL

(* Descriptors opened on one path since the latest clear() read one slice:  *)
(* the program never sees two versions of a file side by side.              *)
THEOREM SingleVersion == Spec => []OneVersion
<1>1. IInv => OneVersion
  <2> SUFFICES ASSUME IInv, NEW fd \in DOMAIN handles, NEW other \in DOMAIN handles,
                      handles[fd].slice.id >= clearMark, handles[other].slice.id >= clearMark,
                      handles[fd].slice.file[1] = handles[other].slice.file[1]
               PROVE  handles[fd].slice = handles[other].slice
    BY DEF OneVersion
  <2>1. PICK k \in DOMAIN slices : slices[k].slice = handles[fd].slice
    BY DEF IInv, CoreInv, IdInv, Issued
  <2>2. PICK l \in DOMAIN slices : slices[l].slice = handles[other].slice
    BY DEF IInv, CoreInv, IdInv, Issued
  <2>3. k = l
    BY <2>1, <2>2 DEF IInv, CoreInv, KeyInv
  <2> QED
    BY <2>1, <2>2, <2>3
<1> QED
  BY <1>1, Invariance, PTL

(* What FdIdentity says of one step. *)
SlicesKept ==
    \A fd \in Base .. nextFd - 1 :
        fd \in DOMAIN handles' =>
            fd \in DOMAIN handles /\ handles'[fd].slice = handles[fd].slice

LEMMA KeepsSlices == ASSUME TypeOK, Next PROVE SlicesKept
<1> USE DEF SlicesKept
<1>1. ASSUME NEW t \in Threads, Insert(t) PROVE SlicesKept
  BY <1>1, GRuntimeAssumption DEF Insert, Put, TypeOK
<1>2. ASSUME NEW t \in Threads, Release(t) PROVE SlicesKept
  BY <1>2 DEF Release, Del
<1>3. ASSUME NEW t \in Threads,
             \/ IngestHit(t) \/ IngestMiss(t) \/ MapFail(t)
             \/ \E a \in Addrs : MapOk(t, a)
             \/ \E p \in Paths : OpenRead(t, p)
             \/ \E fd \in Fds : Close(t, fd)
      PROVE  SlicesKept
  <2>1. handles' = handles
    BY <1>3 DEF IngestHit, IngestMiss, MapFail, MapOk, OpenRead, Close, tableVars
  <2> QED
    BY <2>1
<1>4. CASE (\E fd \in Fds : TableCall(fd)) \/ Environment \/ Finished
  BY <1>4, OthersQuiet DEF Quiet
<1>5. CASE Clear
  BY <1>5 DEF Clear, tableVars
<1> QED
  BY <1>1, <1>2, <1>3, <1>4, <1>5 DEF Next, Step

(* A descriptor number is never issued twice and never changes its file.    *)
THEOREM DescriptorIdentity == Spec => FdIdentity
<1>1. TypeOK /\ [Next]_vars => [SlicesKept]_vars
  BY KeepsSlices
<1> QED
  BY <1>1, TypeCorrect, PTL DEF Spec, FdIdentity, SlicesKept
-----------------------------------------------------------------------------
(* Reference counts.  The users of an id are its descriptors and the        *)
(* open_read calls that are about to make one.                              *)

LEMMA UsersFinite ==
  ASSUME TypeOK, NEW id
  PROVE  IsFiniteSet(HandlesOn(id)) /\ IsFiniteSet(OpensOn(id))
<1>1. IsFiniteSet(Base .. nextFd - 1)
  BY FS_Interval, GRuntimeAssumption DEF TypeOK
<1>2. HandlesOn(id) \in SUBSET (Base .. nextFd - 1)
  BY DEF HandlesOn, TypeOK
<1>3. OpensOn(id) \in SUBSET Threads
  BY DEF OpensOn
<1> QED
  BY <1>1, <1>2, <1>3, FS_Subset, GRuntimeAssumption

Users(id) == Cardinality(HandlesOn(id)) + Cardinality(OpensOn(id))

LEMMA UsersNat == ASSUME TypeOK, NEW id PROVE Users(id) \in Nat
  BY UsersFinite, FS_CardinalityType DEF Users

LEMMA RefsUsers ==
  RefsExact <=> \A k \in DOMAIN slices :
                    slices[k].slice.size > 0 => slices[k].refs = Users(slices[k].slice.id)
  BY DEF RefsExact, Users

LEMMA RefsUsersNext ==
  ASSUME \A k \in DOMAIN slices' :
             slices'[k].slice.size > 0 => slices'[k].refs = Users(slices[k].slice.id)'
  PROVE  RefsExact'
  BY DEF RefsExact, Users

(* Nobody begins or ends the use of a slice. *)
LEMMA SameUsers ==
  ASSUME DOMAIN handles' = DOMAIN handles,
         \A fd \in DOMAIN handles : handles'[fd].slice = handles[fd].slice,
         \A t \in Threads : \/ call'[t] = call[t]
                            \/ call[t].pc # "insert" /\ call'[t].pc # "insert",
         NEW id
  PROVE  Users(id)' = Users(id)
<1>1. HandlesOn(id)' = HandlesOn(id)
  BY DEF HandlesOn
<1>2. OpensOn(id)' = OpensOn(id)
  BY DEF OpensOn
<1> QED
  BY <1>1, <1>2 DEF Users

(* An open_read call takes the slice s from the cache to the table. *)
LEMMA OneMoreUser ==
  ASSUME TypeOK, NEW t \in Threads, NEW s \in Slice, Delivered(t, s),
         call[t].pc # "insert", call'[t].pc = "insert", handles' = handles, NEW id
  PROVE  Users(id)' = IF id = s.id THEN Users(id) + 1 ELSE Users(id)
<1>1. HandlesOn(id)' = HandlesOn(id)
  BY DEF HandlesOn
<1>2. OpensOn(id)' = IF id = s.id THEN OpensOn(id) \cup {t} ELSE OpensOn(id)
  BY DEF OpensOn, Delivered
<1>3. t \notin OpensOn(id)
  BY DEF OpensOn
<1>4. IsFiniteSet(OpensOn(id)) /\ Cardinality(HandlesOn(id)) \in Nat /\ Cardinality(OpensOn(id)) \in Nat
  BY UsersFinite, FS_CardinalityType
<1>5. Cardinality(OpensOn(id) \cup {t}) = Cardinality(OpensOn(id)) + 1
  BY <1>3, <1>4, FS_AddElement
<1> QED
  BY <1>1, <1>2, <1>4, <1>5 DEF Users

(* ... or reports a null slice, which counts for nobody. *)
LEMMA NoMoreUser ==
  ASSUME TypeOK, NEW t \in Threads, NEW s \in Slice, Delivered(t, s),
         call[t].pc # "insert", call'[t].pc # "insert", handles' = handles, NEW id
  PROVE  Users(id)' = Users(id)
<1>1. \A u \in Threads : \/ call'[u] = call[u]
                         \/ call[u].pc # "insert" /\ call'[u].pc # "insert"
  BY DEF Delivered
<1> QED
  BY <1>1, SameUsers

(* A slice that open_read does not report as null is not empty. *)
LEMMA DeliverOutcome ==
  ASSUME TypeOK, NEW t \in Threads, NEW s \in Slice, Deliver(t, s)
  PROVE  call'[t].pc = "insert" <=> ~(s.data = Null /\ s.size = 0)
  BY DEF Deliver, TypeOK, Idle, At

(* The table's critical section turns an open_read call into a descriptor.  *)
LEMMA InsertUsers ==
  ASSUME TypeOK, NEW t \in Threads, Insert(t), NEW id
  PROVE  Users(id)' = Users(id)
<1>0. call \in [Threads -> Calls]
  BY DEF TypeOK, Calls
<1>1. nextFd \notin DOMAIN handles
  BY GRuntimeAssumption DEF TypeOK
<1>2. HandlesOn(id)' = IF id = call[t].slice.id THEN HandlesOn(id) \cup {nextFd} ELSE HandlesOn(id)
  BY <1>1 DEF Insert, Put, HandlesOn
<1>3. OpensOn(id)' = OpensOn(id) \ {t}
  BY <1>0 DEF Insert, OpensOn, Idle, At
<1>4. t \in OpensOn(id) <=> id = call[t].slice.id
  BY DEF Insert, OpensOn
<1>5. nextFd \notin HandlesOn(id)
  BY <1>1 DEF HandlesOn
<1>6. /\ IsFiniteSet(OpensOn(id)) /\ IsFiniteSet(HandlesOn(id))
      /\ Cardinality(HandlesOn(id)) \in Nat /\ Cardinality(OpensOn(id)) \in Nat
  BY UsersFinite, FS_CardinalityType
<1>7. Cardinality(HandlesOn(id) \cup {nextFd}) = Cardinality(HandlesOn(id)) + 1
  BY <1>5, <1>6, FS_AddElement
<1>8. Cardinality(OpensOn(id) \ {t}) = IF t \in OpensOn(id) THEN Cardinality(OpensOn(id)) - 1
                                       ELSE Cardinality(OpensOn(id))
  BY <1>6, FS_RemoveElement
<1> QED
  BY <1>2, <1>3, <1>4, <1>6, <1>7, <1>8 DEF Users

(* close() ends the use of one slice by one descriptor. *)
LEMMA ReleaseUsers ==
  ASSUME TypeOK, LockInv, NEW t \in Threads, Release(t), NEW id
  PROVE  /\ Users(id)' = IF id = handles[call[t].fd].slice.id THEN Users(id) - 1 ELSE Users(id)
         /\ id = handles[call[t].fd].slice.id => Users(id) > 0
<1> DEFINE fd == call[t].fd
<1>0. call \in [Threads -> Calls] /\ fd \in DOMAIN handles
  BY DEF TypeOK, Calls, LockInv, Release
<1>1. HandlesOn(id)' = HandlesOn(id) \ {fd}
  BY DEF Release, Del, HandlesOn
<1>2. OpensOn(id)' = OpensOn(id)
  BY <1>0 DEF Release, OpensOn, Idle, At
<1>3. fd \in HandlesOn(id) <=> id = handles[fd].slice.id
  BY <1>0 DEF HandlesOn
<1>4. /\ IsFiniteSet(HandlesOn(id))
      /\ Cardinality(HandlesOn(id)) \in Nat /\ Cardinality(OpensOn(id)) \in Nat
  BY UsersFinite, FS_CardinalityType
<1>5. Cardinality(HandlesOn(id) \ {fd}) = IF fd \in HandlesOn(id) THEN Cardinality(HandlesOn(id)) - 1
                                          ELSE Cardinality(HandlesOn(id))
  BY <1>4, FS_RemoveElement
<1>6. fd \in HandlesOn(id) => Cardinality(HandlesOn(id)) # 0
  BY <1>4, FS_EmptySet
<1> QED
  BY <1>1, <1>2, <1>3, <1>4, <1>5, <1>6 DEF Users

LEMMA RefsNext == ASSUME CoreInv, RefsExact, [Next]_vars PROVE RefsExact'
<1>0. /\ TypeOK /\ LockInv /\ IdInv /\ NullInv /\ call \in [Threads -> Calls]
      /\ \A k \in DOMAIN slices : slices[k].slice \in Slice /\ slices[k].refs \in Nat
  BY DEF CoreInv, TypeOK, Calls
<1>1. ASSUME UNCHANGED slices, \A id : Users(id)' = Users(id) PROVE RefsExact'
  BY <1>1, RefsUsers, RefsUsersNext
<1>2. ASSUME NEW t \in Threads, IngestHit(t) PROVE RefsExact'
  <2> DEFINE p == call[t].path
             s == slices[p].slice
  <2>1. /\ p \in DOMAIN slices /\ handles' = handles /\ Deliver(t, s) /\ call[t].pc = "ingest"
        /\ DOMAIN slices' = DOMAIN slices
        /\ \A k \in DOMAIN slices : k # p => slices'[k] = slices[k]
        /\ slices'[p].slice = s /\ slices'[p].refs = slices[p].refs + 1
    BY <1>2 DEF IngestHit, tableVars
  <2>2. s \in Slice /\ (s.data = Null <=> s.size = 0)
    BY <1>0, <2>1 DEF NullInv
  <2>3. Delivered(t, s) /\ (call'[t].pc = "insert" <=> s.size # 0)
    BY <1>0, <2>1, <2>2, DeliverCall, DeliverOutcome
  <2>4. CASE s.size = 0
    <3>1. \A id : Users(id)' = Users(id)
      BY <1>0, <2>1, <2>2, <2>3, <2>4, NoMoreUser
    <3> QED
      BY <2>1, <2>4, <3>1, RefsUsers, RefsUsersNext
  <2>5. CASE s.size # 0
    <3>1. \A id : Users(id)' = IF id = s.id THEN Users(id) + 1 ELSE Users(id)
      BY <1>0, <2>1, <2>2, <2>3, <2>5, OneMoreUser
    <3>2. \A k \in DOMAIN slices : k # p => slices[k].slice.id # s.id
      BY <1>0, <2>1 DEF IdInv
    <3>3. ASSUME NEW k \in DOMAIN slices', slices'[k].slice.size > 0
          PROVE  slices'[k].refs = Users(slices[k].slice.id)'
      <4>1. slices'[k].slice = slices[k].slice /\ k \in DOMAIN slices
        BY <2>1, <3>3
      <4>2. slices[k].refs = Users(slices[k].slice.id)
        BY <3>3, <4>1, RefsUsers
      <4>3. CASE k = p
        BY <2>1, <3>1, <4>1, <4>2, <4>3
      <4>4. CASE k # p
        BY <2>1, <3>1, <3>2, <4>1, <4>2, <4>4
      <4> QED
        BY <4>3, <4>4
    <3> QED
      BY <3>3, RefsUsersNext
  <2> QED
    BY <2>4, <2>5
<1>3. ASSUME NEW t \in Threads, NEW a \in Addrs, MapOk(t, a) PROVE RefsExact'
  <2> DEFINE p == call[t].path
             f == disk[p]
             s == [data |-> IF f.size = 0 THEN Null ELSE a, size |-> f.size,
                   id |-> nextId, file |-> f.file]
  <2>1. s \in Slice
    BY <1>0, <1>3, SizesInWord DEF MapOk, Data, TypeOK, Slice
  <2>2. /\ Deliver(t, s) /\ handles' = handles /\ p \notin DOMAIN slices /\ call[t].pc = "mapping"
        /\ slices' = Put(slices, p, [slice |-> s, refs |-> 1])
    BY <1>0, <1>3 DEF MapOk, Data, tableVars, LockInv
  <2>3. s.id = nextId /\ (s.data = Null <=> s.size = 0)
    BY GRuntimeAssumption
  <2> HIDE DEF s
  <2>4. Delivered(t, s) /\ (call'[t].pc = "insert" <=> s.size # 0)
    BY <1>0, <2>1, <2>2, <2>3, DeliverCall, DeliverOutcome
  <2>5. /\ DOMAIN slices' = DOMAIN slices \cup {p}
        /\ slices'[p].slice = s /\ slices'[p].refs = 1
        /\ \A k \in DOMAIN slices : slices'[k] = slices[k]
    BY <2>2 DEF Put
  <2>6. \A id : id # s.id \/ s.size = 0 => Users(id)' = Users(id)
    BY <1>0, <2>1, <2>2, <2>4, OneMoreUser, NoMoreUser
  <2>7. \A id : id = s.id /\ s.size # 0 => Users(id)' = Users(id) + 1
    BY <1>0, <2>1, <2>2, <2>4, OneMoreUser
  <2>8. Users(s.id) = 0
    <3>1. HandlesOn(s.id) = {} /\ OpensOn(s.id) = {}
      BY <1>0, <2>3 DEF IdInv, Issued, HandlesOn, OpensOn, TypeOK
    <3> QED
      BY <3>1, FS_EmptySet DEF Users
  <2>9. \A k \in DOMAIN slices : slices[k].slice.id # s.id
    BY <1>0, <2>3 DEF IdInv, TypeOK
  <2>10. ASSUME NEW k \in DOMAIN slices', k = p, s.size # 0
         PROVE  slices'[k].refs = Users(slices[k].slice.id)'
    BY <2>5, <2>7, <2>8, <2>10
  <2>11. ASSUME NEW k \in DOMAIN slices, slices[k].slice.size > 0
         PROVE  slices'[k].refs = Users(slices[k].slice.id)'
    BY <2>5, <2>6, <2>9, <2>11, RefsUsers
  <2>12. s.size \in Nat
    BY <2>1, GRuntimeAssumption DEF Slice, Word
  <2> QED
    BY <2>5, <2>10, <2>11, <2>12, RefsUsersNext
<1>4. ASSUME NEW t \in Threads, Insert(t) PROVE RefsExact'
  BY <1>0, <1>1, <1>4, InsertUsers DEF Insert, cacheVars
<1>5. ASSUME NEW t \in Threads, Release(t) PROVE RefsExact'
  <2> DEFINE s == handles[call[t].fd].slice
  <2>1. call[t].fd \in DOMAIN handles
    BY <1>0, <1>5 DEF Release, LockInv
  <2>2. DOMAIN slices' = DOMAIN slices /\ \A k \in DOMAIN slices : slices'[k].slice = slices[k].slice
    BY <1>5 DEF Release, Released
  <2>3. \A k \in DOMAIN slices :
           slices'[k].refs = IF slices[k].slice.id = s.id /\ slices[k].slice.data = s.data /\ slices[k].refs > 0
                             THEN slices[k].refs - 1 ELSE slices[k].refs
    BY <1>5 DEF Release, Released
  <2>4. \A id : /\ Users(id)' = IF id = s.id THEN Users(id) - 1 ELSE Users(id)
                /\ id = s.id => Users(id) > 0
    BY <1>0, <1>5, ReleaseUsers
  <2>5. \A k \in DOMAIN slices : slices[k].slice.id = s.id => slices[k].slice.data = s.data
    BY <1>0, <2>1 DEF IdInv, Issued
  <2> HIDE DEF s
  <2>6. ASSUME NEW k \in DOMAIN slices', slices'[k].slice.size > 0
        PROVE  slices'[k].refs = Users(slices[k].slice.id)'
    <3>1. k \in DOMAIN slices /\ slices'[k].slice = slices[k].slice
      BY <2>2, <2>6
    <3>2. slices[k].refs = Users(slices[k].slice.id)
      BY <2>6, <3>1, RefsUsers
    <3>3. Users(slices[k].slice.id)' = IF slices[k].slice.id = s.id THEN Users(slices[k].slice.id) - 1
                                       ELSE Users(slices[k].slice.id)
      BY <2>4, <3>1
    <3> QED
      BY <2>3, <2>4, <2>5, <3>1, <3>2, <3>3
  <2> QED
    BY <2>6, RefsUsersNext
<1>6. CASE Clear
  <2>1. DOMAIN slices' = {}
    BY <1>6 DEF Clear
  <2> QED
    BY <2>1, RefsUsersNext
<1>7. ASSUME NEW t \in Threads,
             \/ IngestMiss(t) \/ MapFail(t)
             \/ \E p \in Paths : OpenRead(t, p)
             \/ \E fd \in Fds : Close(t, fd)
      PROVE  RefsExact'
  <2>1. slices' = slices /\ handles' = handles
    BY <1>7 DEF IngestMiss, MapFail, OpenRead, Close, cacheVars, tableVars
  <2>2. ASSUME NEW u \in Threads
        PROVE  call'[u] = call[u] \/ (call[u].pc # "insert" /\ call'[u].pc # "insert")
    <3>1. CASE MapFail(t)
      <4>1. Delivered(t, NullSlice) /\ call'[t].pc # "insert" /\ call[t].pc = "mapping"
        BY <1>0, <3>1, NullSliceType, DeliverCall DEF MapFail, Delivered, NullSlice
      <4> QED
        BY <4>1 DEF Delivered
    <3>2. CASE IngestMiss(t) \/ (\E p \in Paths : OpenRead(t, p)) \/ (\E fd \in Fds : Close(t, fd))
      BY <1>0, <3>2 DEF IngestMiss, OpenRead, Close, At, Idle
    <3> QED
      BY <1>7, <3>1, <3>2
  <2>3. \A id : Users(id)' = Users(id)
    BY <2>1, <2>2, SameUsers
  <2> QED
    BY <1>1, <2>1, <2>3
<1>8. CASE (\E fd \in Fds : TableCall(fd)) \/ Environment \/ Finished \/ UNCHANGED vars
  <2>1. Quiet
    BY <1>0, <1>8, OthersQuiet DEF Quiet, vars, tableVars
  <2>2. \A id : Users(id)' = Users(id)
    BY <2>1, SameUsers DEF Quiet
  <2> QED
    BY <1>1, <2>1, <2>2 DEF Quiet, cacheVars
<1> QED
  BY <1>2, <1>3, <1>4, <1>5, <1>6, <1>7, <1>8 DEF Next, Step

(* A cached file's reference count is the number of its descriptors and of  *)
(* the open_read calls between their critical sections, whatever clear(),   *)
(* address reuse and late close() calls did before.                         *)
THEOREM ExactReferences == Spec => []RefsExact
<1>1. Init => RefsExact
  BY DEF Init, RefsExact
<1>2. IInv => CoreInv
  BY DEF IInv
<1> QED
  BY <1>1, <1>2, RefsNext, Invariance, PTL DEF Spec
-----------------------------------------------------------------------------
(* mmaps_ counts the entries of the cache, of which there are finitely many. *)
MmapsInv == IsFiniteSet(DOMAIN slices) /\ mmaps = Cardinality(DOMAIN slices)

LEMMA MmapsNext == ASSUME IInv, MmapsInv, [Next]_vars PROVE MmapsInv'
<1>1. ASSUME NEW t \in Threads, NEW a \in Addrs, MapOk(t, a) PROVE MmapsInv'
  <2>1. call[t].path \notin DOMAIN slices
    BY <1>1 DEF IInv, CoreInv, LockInv, MapOk
  <2>2. DOMAIN slices' = DOMAIN slices \cup {call[t].path} /\ mmaps' = mmaps + 1
    BY <1>1 DEF MapOk, Put
  <2> QED
    BY <2>1, <2>2, FS_AddElement DEF MmapsInv
<1>2. CASE Clear
  <2>1. DOMAIN slices' = {} /\ mmaps' = 0
    BY <1>2 DEF Clear
  <2> QED
    BY <2>1, FS_EmptySet DEF MmapsInv
<1>3. ASSUME DOMAIN slices' = DOMAIN slices, mmaps' = mmaps PROVE MmapsInv'
  BY <1>3 DEF MmapsInv
<1>4. ASSUME NEW t \in Threads,
             \/ IngestHit(t) \/ IngestMiss(t) \/ MapFail(t) \/ Insert(t) \/ Release(t)
             \/ \E p \in Paths : OpenRead(t, p)
             \/ \E fd \in Fds : Close(t, fd)
      PROVE  DOMAIN slices' = DOMAIN slices /\ mmaps' = mmaps
  BY <1>4 DEF IngestHit, IngestMiss, MapFail, Insert, Release, Released, OpenRead, Close, cacheVars
<1>5. CASE (\E fd \in Fds : TableCall(fd)) \/ Environment \/ Finished \/ UNCHANGED vars
  <2>1. Quiet
    BY <1>5, OthersQuiet DEF Quiet, vars, tableVars, IInv, CoreInv
  <2> QED
    BY <1>3, <2>1 DEF Quiet, cacheVars
<1> QED
  BY <1>1, <1>2, <1>3, <1>4, <1>5 DEF Next, Step

(* No mapping is lost: each one belongs to exactly one cached entry, and    *)
(* mmaps_ counts the entries.                                               *)
THEOREM OwnedMappings == Spec => []MappingsOwned
<1>1. Init => MmapsInv
  BY FS_EmptySet DEF Init, MmapsInv
<1>2. IInv /\ MmapsInv => MappingsOwned
  <2> SUFFICES ASSUME IInv, MmapsInv, NEW x \in DOMAIN mem
               PROVE  Cardinality({k \in DOMAIN slices : slices[k].slice.data = x}) = 1
    BY DEF MappingsOwned, MmapsInv
  <2>1. PICK k \in DOMAIN slices : slices[k].slice.data = x
    BY DEF IInv, CoreInv, MemInv
  <2>2. x # Null
    BY GRuntimeAssumption DEF IInv, CoreInv, TypeOK
  <2>3. {l \in DOMAIN slices : slices[l].slice.data = x} = {k}
    BY <2>1, <2>2 DEF IInv, CoreInv, MemInv
  <2> QED
    BY <2>3, FS_Singleton
<1> QED
  BY <1>1, <1>2, MmapsNext, Invariance, PTL DEF Spec
-----------------------------------------------------------------------------
(* size_t subtraction does not wrap when the position is inside the slice.  *)
LEMMA NoWrap == ASSUME NEW x \in Word, NEW y \in Word, y <= x
                PROVE  (x - y) % WordSize = x - y
  BY GRuntimeAssumption DEF Word

(* The calls that hand out bytes stay inside the slice. *)
LEMMA TableCallBounds ==
  ASSUME TypeOK, NEW fd \in Fds, TableCall(fd)
  PROVE  AccessInBounds'
<1>1. CASE fd \notin DOMAIN handles
  <2>1. \E op \in {"read", "pread", "lseek", "mmap", "set_pos"} :
           last' = Result(op, 0, 0, 0, -1)
    BY <1>1 DEF TableCall, Read, Pread, Lseek, MmapSlice, SetPosCall, On
  <2> QED
    BY <2>1 DEF AccessInBounds, Result
<1>2. CASE fd \in DOMAIN handles
  <2> DEFINE h == handles[fd]
  <2>0. h.slice.size \in Word /\ h.pos \in Word
    BY <1>2 DEF TypeOK, Slice
  <2>1. ASSUME NEW n \in Counts, Read(fd, n) PROVE AccessInBounds'
    <3> DEFINE avail == (h.slice.size - h.pos) % WordSize
               want  == Smaller(n, avail)
    <3>1. last' = Result("read", h.slice.id, h.slice.size, h.pos, want)
      BY <1>2, <2>1 DEF Read, On
    <3>2. h.pos <= h.slice.size => h.pos + want <= h.slice.size
      <4>1. SUFFICES ASSUME h.pos <= h.slice.size PROVE h.pos + want <= h.slice.size
        OBVIOUS
      <4>2. avail = h.slice.size - h.pos
        BY <2>0, <4>1, NoWrap
      <4>3. want <= avail /\ want \in Int
        BY <2>0, <4>2, GRuntimeAssumption DEF Smaller, Word
      <4> QED
        BY <2>0, <4>2, <4>3 DEF Word
    <3> HIDE DEF want
    <3> QED
      BY <3>1, <3>2 DEF AccessInBounds, Result
  <2>2. ASSUME NEW n \in Counts, NEW off \in Counts, Pread(fd, n, off) PROVE AccessInBounds'
    <3> DEFINE want == IF off >= h.slice.size THEN 0 ELSE Smaller(n, h.slice.size - off)
    <3>1. last' = Result("pread", h.slice.id, h.slice.size, off, want)
      BY <1>2, <2>2 DEF Pread, On
    <3>2. want <= 0 \/ off + want <= h.slice.size
      BY <2>0, GRuntimeAssumption DEF Smaller, Word
    <3> HIDE DEF want
    <3> QED
      BY <3>1, <3>2 DEF AccessInBounds, Result
  <2>3. ASSUME NEW n \in Counts, NEW off \in Counts, MmapSlice(fd, off, n) PROVE AccessInBounds'
    <3> DEFINE val == IF off <= h.slice.size /\ n <= h.slice.size - off THEN n ELSE -1
    <3>1. last' = Result("mmap", h.slice.id, h.slice.size, off, val)
      BY <1>2, <2>3 DEF MmapSlice, On
    <3>2. val <= 0 \/ off + val <= h.slice.size
      BY <2>0, GRuntimeAssumption DEF Word
    <3> HIDE DEF val
    <3> QED
      BY <3>1, <3>2 DEF AccessInBounds, Result
  <2>4. ASSUME NEW off \in Offsets, NEW whence \in Whences, Lseek(fd, off, whence)
        PROVE  AccessInBounds'
    <3>1. last'.op = "lseek"
      BY <1>2, <2>4 DEF Lseek, On, Result
    <3> QED
      BY <3>1 DEF AccessInBounds
  <2>5. ASSUME NEW pos \in Counts, SetPosCall(fd, pos) PROVE AccessInBounds'
    <3>1. last'.op = "set_pos"
      BY <1>2, <2>5 DEF SetPosCall, On, Result
    <3> QED
      BY <3>1 DEF AccessInBounds
  <2> QED
    BY <2>1, <2>2, <2>3, <2>4, <2>5 DEF TableCall
<1> QED
  BY <1>1, <1>2

(* pread and mmap_slice never reach outside the slice, nor does read from a *)
(* position inside it, for every word size, file size and argument.         *)
THEOREM BoundedAccess == Spec => []AccessInBounds
<1>1. Init => AccessInBounds
  BY DEF Init, AccessInBounds, Result
<1>2. TypeOK /\ AccessInBounds /\ [Next]_vars => AccessInBounds'
  <2> SUFFICES ASSUME TypeOK, AccessInBounds, [Next]_vars PROVE AccessInBounds'
    OBVIOUS
  <2>1. CASE \E fd \in Fds : TableCall(fd)
    BY <2>1, TableCallBounds
  <2>2. ASSUME NEW t \in Threads,
               Step(t) \/ (\E p \in Paths : OpenRead(t, p)) \/ (\E fd \in Fds : Close(t, fd))
        PROVE  last' = last \/ last'.op \in {"open", "close"}
    <3>1. CASE (\E p \in Paths : OpenRead(t, p)) \/ (\E fd \in Fds : Close(t, fd))
      BY <3>1 DEF OpenRead, Close, Result
    <3>2. CASE IngestHit(t) \/ MapFail(t) \/ \E a \in Addrs : MapOk(t, a)
      <4>1. \E s : Deliver(t, s)
        BY <3>2 DEF IngestHit, MapFail, MapOk
      <4> QED
        BY <4>1 DEF Deliver, Result
    <3>3. CASE IngestMiss(t) \/ Insert(t) \/ Release(t)
      BY <3>3 DEF IngestMiss, Insert, Release, Result
    <3> QED
      BY <2>2, <3>1, <3>2, <3>3 DEF Step
  <2>3. CASE Clear
    BY <2>3 DEF Clear, Result, AccessInBounds
  <2>4. CASE Environment \/ Finished \/ UNCHANGED vars
    <3>1. last' = last
      BY <2>4 DEF Environment, ReplaceFile, ExtendFile, RemoveFile, Change, Finished, vars
    <3> QED
      BY <3>1 DEF AccessInBounds
  <2>5. ASSUME last' = last \/ last'.op \in {"open", "close"} PROVE AccessInBounds'
    BY <2>5 DEF AccessInBounds
  <2> QED
    BY <2>1, <2>2, <2>3, <2>4, <2>5 DEF Next
<1> QED
  BY <1>1, <1>2, TypeCorrect, PTL DEF Spec
=============================================================================
