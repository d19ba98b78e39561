------------------------------ MODULE SimdScan ------------------------------
(***************************************************************************)
(* The vector primitives of core/include/gcore/simd_scan.h, as the tools'  *)
(* loops see them.  A mask is the set of its one bits; bit j of the mask   *)
(* of the block at p is the byte at p + j.                                 *)
(***************************************************************************)
EXTENDS Integers, FiniteSetsExt

CONSTANTS
    Block,       \* bytes per step: 64 with AVX-512, otherwise twice 32
    Avx512       \* does the processor have AVX-512?

ASSUME SimdScanAssumption ==
    /\ Block \in Nat \ {0} /\ Block % 2 = 0
    /\ Avx512 \in BOOLEAN

Half == Block \div 2

(* One register: the bytes of S among the width bytes from p. *)
Compare(bytes, p, width, S) == {j \in 0 .. width - 1 : bytes[p + j] \in S}

(* printable_mask64, zero_mask64: one register, or two halves put together. *)
Mask64(bytes, p, S) ==
    IF Avx512 THEN Compare(bytes, p, Block, S)
    ELSE Compare(bytes, p, Half, S) \cup {j + Half : j \in Compare(bytes, p + Half, Half, S)}

(* find_byte over from..to-1: whole registers, then the rest byte by byte;  *)
(* "to" when there is no byte of S.                                         *)
find_byte(bytes, S, from, to) ==
    LET width == IF Avx512 THEN Block ELSE Half
        whole == (to - from) \div width
        mask(k) == Compare(bytes, from + k * width, width, S)
        hits == {k \in 0 .. whole - 1 : mask(k) # {}}
    IN  IF hits # {} THEN from + Min(hits) * width + Min(mask(Min(hits)))
        ELSE Min({i \in from + whole * width .. to - 1 : bytes[i] \in S} \cup {to})

Mutant_NextZero(bytes, p, zero) ==
    LET z0 == Mask64(bytes, p, {zero})
        z1 == Mask64(bytes, p + 1, {zero})
        m0 == z0 \cup {j + 1 : j \in z1 \ {Block - 1}}
    IN  {j - 1 : j \in m0 \ {0}}

(* s1 of unicode_worker: bit j says that the byte after p + j is zero.  The *)
(* shift left drops the top bit of z1; it comes back as the top bit of s1.  *)
NextZero(bytes, p, zero) ==
    LET z0 == Mask64(bytes, p, {zero})
        z1 == Mask64(bytes, p + 1, {zero})
        m0 == z0 \cup {j + 1 : j \in z1 \ {Block - 1}}
    IN  {j - 1 : j \in m0 \ {0}} \cup (z1 \cap {Block - 1})
=============================================================================
