--------------------------- MODULE RealInit_proofs ---------------------------
(***************************************************************************)
(* For any number of threads, a hooked call that reaches libc finds its    *)
(* function, in spite of the unsynchronised first call of real().          *)
(***************************************************************************)
EXTENDS RealInit, TLAPS

(* real() fills some pointers (struct Real is not empty). *)
LEMMA NPositive == N \in Nat /\ N > 0
<1>1. N = 18
  BY DEF N, Symbols
<1> QED
  BY <1>1

(* Before the first hooked call nothing is resolved and nobody relies on it. *)
LEMMA InitRealIInv == RealBegin => RealIInv
<1> SUFFICES ASSUME RealBegin PROVE RealIInv
  OBVIOUS
<1>1. RealTypeOK
  <2>1. init \in BOOLEAN
    BY Zenon DEF RealBegin
  <2>2. at \in [Threads -> 1 .. N]
    BY NPositive DEF RealBegin
  <2>3. pc \in [Threads -> {"idle", "check", "store", "flag", "use"}]
    BY DEF RealBegin
  <2>4. resolved \subseteq 1 .. N /\ missed \subseteq 1 .. N
    BY DEF RealBegin
  <2> QED
    BY <2>1, <2>2, <2>3, <2>4 DEF RealTypeOK
<1>2. ResolvedBehind
  BY DEF RealBegin, ResolvedBehind
<1>3. CallsFindTheirFunction
  BY DEF RealBegin, CallsFindTheirFunction
<1> QED
  BY <1>1, <1>2, <1>3 DEF RealIInv

(* Each step of real() and of the hooks keeps the promise the flag makes. *)
LEMMA NextRealIInv == RealIInv /\ [RealNext]_realVars => RealIInv'
<1> SUFFICES ASSUME RealIInv, [RealNext]_realVars PROVE RealIInv'
  OBVIOUS
<1> USE NPositive
<1>1. ASSUME NEW t \in Threads, Call(t) PROVE RealIInv'
  BY <1>1 DEF RealIInv, RealTypeOK, ResolvedBehind, CallsFindTheirFunction, Call, Goto
<1>2. ASSUME NEW t \in Threads, Check(t) PROVE RealIInv'
  BY <1>2 DEF RealIInv, RealTypeOK, ResolvedBehind, CallsFindTheirFunction, Check, Goto
<1>3. ASSUME NEW t \in Threads, Store(t) PROVE RealIInv'
  <2>1. RealTypeOK'
    <3>1. init' \in BOOLEAN
      BY <1>3, Zenon DEF RealIInv, RealTypeOK, Store
    <3>2. at' \in [Threads -> 1 .. N]
      BY <1>3 DEF RealIInv, RealTypeOK, Store
    <3>3. pc' \in [Threads -> {"idle", "check", "store", "flag", "use"}]
      BY <1>3 DEF RealIInv, RealTypeOK, Store, Goto
    <3>4. resolved' \subseteq 1 .. N /\ missed' \subseteq 1 .. N
      BY <1>3 DEF RealIInv, RealTypeOK, Store
    <3> QED
      BY <3>1, <3>2, <3>3, <3>4 DEF RealTypeOK
  <2>2. resolved \subseteq resolved'
    BY <1>3 DEF Store
  <2>3. at[t] < N => 1 .. at[t] \subseteq resolved'
    BY <1>3 DEF RealIInv, RealTypeOK, ResolvedBehind, Store
  <2>4. at[t] = N => 1 .. N - 1 \subseteq resolved'
    BY <1>3, <2>2 DEF RealIInv, RealTypeOK, ResolvedBehind, Store
  <2>5. init' => 1 .. N - 1 \subseteq resolved'
    BY <1>3, <2>2, <2>4 DEF RealIInv, RealTypeOK, ResolvedBehind, Store
  <2>6. ASSUME NEW u \in Threads, pc'[u] \in {"flag", "use"}
        PROVE  1 .. N - 1 \subseteq resolved'
    BY <1>3, <2>2, <2>4, <2>6 DEF RealIInv, RealTypeOK, ResolvedBehind, Store, Goto
  <2>7. ASSUME NEW u \in Threads, pc'[u] = "store"
        PROVE  1 .. at'[u] - 1 \subseteq resolved'
    <3>1. CASE u = t
      BY <1>3, <2>3, <2>7, <3>1 DEF RealIInv, RealTypeOK, Store, Goto
    <3>2. CASE u # t
      BY <1>3, <2>2, <2>7, <3>2 DEF RealIInv, RealTypeOK, ResolvedBehind, Store, Goto
    <3> QED
      BY <3>1, <3>2
  <2>8. CallsFindTheirFunction'
    BY <1>3 DEF RealIInv, CallsFindTheirFunction, Store
  <2> QED
    BY <2>1, <2>5, <2>6, <2>7, <2>8 DEF RealIInv, ResolvedBehind
<1>4. ASSUME NEW t \in Threads, Flag(t) PROVE RealIInv'
  BY <1>4 DEF RealIInv, RealTypeOK, ResolvedBehind, CallsFindTheirFunction, Flag, Goto
<1>5. ASSUME NEW t \in Threads, NEW s \in 1 .. N, Use(t, s) PROVE RealIInv'
  BY <1>5 DEF RealIInv, RealTypeOK, ResolvedBehind, CallsFindTheirFunction, Use, Goto
<1>6. CASE UNCHANGED realVars
  BY <1>6 DEF RealIInv, RealTypeOK, ResolvedBehind, CallsFindTheirFunction, realVars
<1> QED
  BY <1>1, <1>2, <1>3, <1>4, <1>5, <1>6 DEF RealNext

(* The scan of real() stays inside the table and no entry behind a thread's *)
(* position, or behind the flag, is unresolved.                             *)
THEOREM Invariance == RealSpec => []RealIInv
  BY InitRealIInv, NextRealIInv, PTL DEF RealSpec

(* A hook on its way to libc finds the function it replaces (every one but  *)
(* fdopen), whichever threads are inside the first call of real().          *)
THEOREM FunctionsFound == RealSpec => []CallsFindTheirFunction
<1>1. RealIInv => CallsFindTheirFunction
  BY DEF RealIInv
<1> QED
  BY Invariance, <1>1, PTL
=============================================================================
