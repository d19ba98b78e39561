------------------------------ MODULE Sections ------------------------------
(***************************************************************************)
(* run_sections of tools/g-analyze/g_analyze.cpp: the section table of an  *)
(* ELF or PE file.  An image is what the parser finds in the file: the     *)
(* file's size and the header fields, which may hold anything.  Sizes are  *)
(* scaled down: a file header, a PE header and a table entry have sizes of *)
(* their own.  A span [from, to) is a range of file offsets.               *)
(***************************************************************************)
EXTENDS Integers, Sequences

CONSTANTS
    WordSize,    \* 2^64: the modulus of size_t
    MinImage,    \* smallest file that is looked at (64); holds the file header
    EntrySize,   \* an entry of the section table (ELF 64 or 40, PE 40)
    PeHeader,    \* signature and COFF header (24)
    NameMax,     \* bytes of a name that strncpy copies at most (31)
    Images       \* the images

(* Sizes and header fields are unsigned; sizes fit in a size_t. *)
ASSUME SectionsAssumption ==
    /\ WordSize \in Nat \ {0} /\ {MinImage, EntrySize, PeHeader, NameMax} \subseteq Nat
    /\ \A img \in Images :
         /\ img.kind \in {"elf", "pe", "other"}
         /\ img.size \in 0 .. WordSize - 1 /\ img.num \in Nat
         /\ img.kind # "other" => img.off \in Nat /\ img.sz \in Nat
         /\ img.kind = "elf" => /\ img.shoff \in Nat /\ img.entsize \in Nat
                                /\ img.strndx \in Nat /\ img.name \in Nat /\ img.len \in Nat
         /\ img.kind = "pe" => img.lfanew \in Nat /\ img.opt \in Nat /\ img.signed \in BOOLEAN

(* within(): is [p, p + n) inside a file of this size?  The distance to the *)
(* end is computed in size_t.                                               *)
within(size, p, n) == n <= (size - p) % WordSize

Span(from, n) == [from |-> from, to |-> from + n]

(* The section table: at e_shoff, or behind the optional header of the PE   *)
(* header at e_lfanew.                                                      *)
TableAt(img) == IF img.kind = "elf" THEN img.shoff ELSE img.lfanew + PeHeader + img.opt

HasPeHeader(img) == img.kind = "pe" /\ within(img.size, img.lfanew, PeHeader)

Mutant_HasTable(img) ==
    \/ img.kind = "elf" /\ img.num > 0 /\ img.entsize >= EntrySize /\ img.shoff < img.size
    \/ HasPeHeader(img) /\ img.signed /\ within(img.size, TableAt(img), img.num * EntrySize)

(* The checks before the table is read. *)
HasTable(img) ==
    \/ /\ img.kind = "elf" /\ img.num > 0 /\ img.entsize >= EntrySize
       /\ img.shoff < img.size /\ img.num * img.entsize <= img.size - img.shoff
    \/ HasPeHeader(img) /\ img.signed /\ within(img.size, TableAt(img), img.num * EntrySize)

(* Entry k of the table, from 0. *)
Entry(img, k) ==
    Span(TableAt(img) + k * (IF img.kind = "elf" THEN img.entsize ELSE EntrySize), EntrySize)

(* section_entropy: the bytes of a section that are in the file. *)
Measured(img) ==
    IF img.sz = 0 \/ img.off >= img.size THEN Span(0, 0)
    ELSE Span(img.off, IF img.sz < img.size - img.off THEN img.sz ELSE img.size - img.off)

(* The records; all entries of an image have offset img.off and size img.sz. *)
SectionRecords(img) ==
    [k \in 1 .. IF HasTable(img) THEN img.num ELSE 0 |->
        [offset |-> img.off, size |-> img.sz, measured |-> Measured(img)]]

(* A name is copied when the string table is in the file and the name       *)
(* begins in the string table.                                              *)
HasNames(img) ==
    /\ img.kind = "elf" /\ HasTable(img) /\ img.strndx < img.num
    /\ img.off < img.size /\ img.sz <= img.size - img.off
    /\ img.name < img.sz

When(cond, S) == IF cond THEN S ELSE {}

(* What the parser reads: the file header, the PE header, the table and the *)
(* bytes whose entropy it takes ...                                         *)
TableReads(img) ==
    {Span(0, MinImage)}
      \cup When(HasPeHeader(img), {Span(img.lfanew, PeHeader)})
      \cup When(HasTable(img), {Entry(img, k) : k \in 0 .. img.num - 1} \cup {Measured(img)})

(* ... and the names: strncpy reads up to the NUL, which is the len-th byte *)
(* from where the name begins, or NameMax bytes, wherever they lie.         *)
NameReads(img) ==
    When(HasNames(img),
         {Span(img.off + img.name, IF img.len < NameMax THEN img.len ELSE NameMax)})

Reads(img) == TableReads(img) \cup NameReads(img)
=============================================================================
