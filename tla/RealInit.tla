------------------------------ MODULE RealInit ------------------------------
(***************************************************************************)
(* real() of runtime/src/g_io_posix.cpp: the first hooked call looks up    *)
(* the libc functions the hooks replace and sets the flag init.  Neither   *)
(* the flag nor the pointers are synchronised, so two threads that make    *)
(* their first hooked calls at once both run the look-ups, and a third     *)
(* one may read the flag at any moment in between.                         *)
(*                                                                         *)
(* The data race, as an x86 build compiles it: dlsym() may call back into  *)
(* the hooks, so stores stay on their side of every dlsym() call, but      *)
(* between the last pointer's store and the flag's there is no call, and   *)
(* the compiler may swap the two.                                          *)
(***************************************************************************)
EXTENDS Naturals, Sequences

CONSTANT Threads   \* threads of the host program

(* struct Real: the pointers in the order in which real() fills them. *)
Symbols == <<"open", "open64", "openat", "read", "readchk", "pread", "pread64",
             "lseek", "lseek64", "close", "fstat", "fstat64", "fcntl", "mmap",
             "munmap", "posix_fadvise", "ioctl", "fdopen">>

N == Len(Symbols)

VARIABLES
    resolved,  \* indices of Symbols whose pointer is not nullptr
    init,      \* the flag
    pc,        \* per thread: "idle", "check", "store", "flag" or "use"
    at,        \* per thread: the next pointer to store
    missed     \* history: indices of Symbols that a hook found null

realVars == <<resolved, init, pc, at, missed>>

RealBegin ==
    /\ resolved = {} /\ init = FALSE
    /\ pc = [t \in Threads |-> "idle"]
    /\ at = [t \in Threads |-> 1]
    /\ missed = {}

Goto(t, l) == pc' = [pc EXCEPT ![t] = l]

(* A hook has nothing for the runtime to do and calls real(). *)
Call(t) ==
    /\ pc[t] = "idle"
    /\ Goto(t, "check")
    /\ UNCHANGED <<resolved, init, at, missed>>

Mutant_Check(t) ==
    /\ pc[t] = "check"
    /\ Goto(t, IF init THEN "use" ELSE "store")
    /\ at' = [at EXCEPT ![t] = 1]
    /\ init' = TRUE
    /\ UNCHANGED <<resolved, missed>>

(* if (!init): the flag is read once. *)
Check(t) ==
    /\ pc[t] = "check"
    /\ Goto(t, IF init THEN "use" ELSE "store")
    /\ at' = [at EXCEPT ![t] = 1]
    /\ UNCHANGED <<resolved, init, missed>>

(* r.X = dlsym(RTLD_NEXT, "X") for the pointers in turn; the last of these  *)
(* stores and the flag's come in either order.                              *)
Store(t) ==
    /\ pc[t] = "store"
    /\ \/ resolved' = resolved \cup {at[t]} /\ UNCHANGED init
       \/ at[t] = N /\ init' = TRUE /\ UNCHANGED resolved
    /\ IF at[t] < N
       THEN at' = [at EXCEPT ![t] = @ + 1] /\ UNCHANGED pc
       ELSE Goto(t, "flag") /\ UNCHANGED at
    /\ UNCHANGED missed

(* The other one of the two, and real() returns. *)
Flag(t) ==
    /\ pc[t] = "flag"
    /\ init' = TRUE /\ resolved' = resolved \cup {N}
    /\ Goto(t, "use")
    /\ UNCHANGED <<at, missed>>

(* real().X ? real().X(...) : -1, for the hook of any symbol X. *)
Use(t, s) ==
    /\ pc[t] = "use"
    /\ missed' = missed \cup ({s} \ resolved)
    /\ Goto(t, "idle")
    /\ UNCHANGED <<resolved, init, at>>

RealNext ==
    \E t \in Threads :
        \/ Call(t) \/ Check(t) \/ Store(t) \/ Flag(t)
        \/ \E s \in 1 .. N : Use(t, s)

RealSpec == RealBegin /\ [][RealNext]_realVars
-----------------------------------------------------------------------------
(* Type invariant. *)
RealTypeOK ==
    /\ resolved \subseteq 1 .. N
    /\ init \in BOOLEAN
    /\ pc \in [Threads -> {"idle", "check", "store", "flag", "use"}]
    /\ at \in [Threads -> 1 .. N]
    /\ missed \subseteq 1 .. N

(* A hook on its way to libc finds the function it replaces, also when      *)
(* other threads are still inside the first call, so the "-1" of            *)
(* "real().X ? real().X(...) : -1" is not returned to the program: for      *)
(* every function but fdopen, the last one looked up, whose store may       *)
(* follow the flag's.                                                       *)
CallsFindTheirFunction == missed \subseteq {N}

(* What makes it so, inductively: the flag, or a thread past the look-ups,  *)
(* vouches for every pointer but the last, and a thread's own look-ups stay *)
(* done (r is filled in place and never reset).                             *)
ResolvedBehind ==
    /\ init => 1 .. N - 1 \subseteq resolved
    /\ \A t \in Threads : pc[t] \in {"flag", "use"} => 1 .. N - 1 \subseteq resolved
    /\ \A t \in Threads : pc[t] = "store" => 1 .. at[t] - 1 \subseteq resolved

RealIInv == RealTypeOK /\ ResolvedBehind /\ CallsFindTheirFunction
=============================================================================
