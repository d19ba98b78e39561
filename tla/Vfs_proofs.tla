----------------------------- MODULE Vfs_proofs -----------------------------
(***************************************************************************)
(* For paths, roots and directories of any length: the hooks answer with   *)
(* the file a plain path names, normalize() leaves its own results alone   *)
(* under a safe root, and case does not split the cache where it must not. *)
(***************************************************************************)
EXTENDS Vfs, SequenceTheorems, TLAPS

Path == Seq(Char)

(* What is done to one character. *)
Sep(c) == IF c = "\\" THEN PathSep ELSE c

LEMMA CharTypes ==
    ASSUME NEW c \in Char
    PROVE  Upper(c) \in Char /\ Lower(c) \in Char /\ Sep(c) \in Char
  BY VfsAssumption DEF Upper, Lower, Sep, PathSep

(* A path, character by character. *)
LEMMA EachUpper ==
    ASSUME NEW p \in Path
    PROVE  /\ Each(Upper, p) \in Path /\ Len(Each(Upper, p)) = Len(p)
           /\ \A k \in 1 .. Len(p) : Each(Upper, p)[k] = Upper(p[k])
  BY CharTypes DEF Path, Each

LEMMA EachSep ==
    ASSUME NEW p \in Path
    PROVE  /\ Each(LAMBDA c : IF c = "\\" THEN PathSep ELSE c, p) \in Path
           /\ Len(Each(LAMBDA c : IF c = "\\" THEN PathSep ELSE c, p)) = Len(p)
           /\ \A k \in 1 .. Len(p) :
                 Each(LAMBDA c : IF c = "\\" THEN PathSep ELSE c, p)[k] = Sep(p[k])
  BY CharTypes DEF Path, Each, Sep

LEMMA CutPath ==
    ASSUME NEW p \in Path
    PROVE  Cut(p) \in Path
  BY DEF Path, Cut, Prefixed

LEMMA UnrootedPath ==
    ASSUME NEW p \in Path, cfg.root \in Path
    PROVE  Unrooted(p) \in Path
  BY DEF Path, Unrooted, IsPrefix

LEMMA ConcatPath ==
    ASSUME NEW p \in Path, NEW q \in Path
    PROVE  /\ p \o q \in Path /\ Len(p \o q) = Len(p) + Len(q)
           /\ \A k \in 1 .. Len(p) : (p \o q)[k] = p[k]
           /\ \A k \in 1 .. Len(q) : (p \o q)[Len(p) + k] = q[k]
<1>1. p \o q \in Path /\ Len(p \o q) = Len(p) + Len(q)
  BY DEF Path
<1>2. Len(p) \in Nat /\ Len(q) \in Nat
  BY DEF Path
<1>3. ASSUME NEW k \in 1 .. Len(p) PROVE (p \o q)[k] = p[k]
  BY <1>2 DEF Path
<1>4. ASSUME NEW k \in 1 .. Len(q) PROVE (p \o q)[Len(p) + k] = q[k]
  BY <1>2 DEF Path
<1> QED
  BY <1>1, <1>3, <1>4

(* normalize() is the root followed by the rest, each character on its own. *)
Cased(c) == IF CaseInsensitive THEN Upper(c) ELSE c

LEMMA Normalized ==
    ASSUME NEW p \in Path, cfg.root \in Path
    PROVE  LET rest == Unrooted(Cut(p)) IN
           /\ normalize(p) \in Path
           /\ Len(normalize(p)) = Len(cfg.root) + Len(rest)
           /\ \A k \in 1 .. Len(cfg.root) : normalize(p)[k] = Cased(cfg.root[k])
           /\ \A k \in 1 .. Len(rest) : normalize(p)[Len(cfg.root) + k] = Cased(Sep(rest[k]))
<1> DEFINE rest == Unrooted(Cut(p))
           sep  == Each(LAMBDA c : IF c = "\\" THEN PathSep ELSE c, rest)
           out  == cfg.root \o sep
<1>1. rest \in Path
  BY CutPath, UnrootedPath
<1>2. /\ sep \in Path /\ Len(sep) = Len(rest)
      /\ \A k \in 1 .. Len(rest) : sep[k] = Sep(rest[k])
  BY <1>1, EachSep
<1>3. normalize(p) = IF CaseInsensitive THEN Each(Upper, out) ELSE out
  BY Zenon DEF normalize
<1> HIDE DEF rest, sep
<1>4. /\ out \in Path /\ Len(out) = Len(cfg.root) + Len(rest)
      /\ \A k \in 1 .. Len(cfg.root) : out[k] = cfg.root[k]
      /\ \A k \in 1 .. Len(rest) : out[Len(cfg.root) + k] = Sep(rest[k])
  <2>1. /\ out \in Path /\ Len(out) = Len(cfg.root) + Len(sep)
        /\ \A k \in 1 .. Len(cfg.root) : out[k] = cfg.root[k]
        /\ \A k \in 1 .. Len(sep) : out[Len(cfg.root) + k] = sep[k]
    BY <1>2, ConcatPath
  <2> HIDE DEF out
  <2> QED
    BY <1>2, <2>1
<1> HIDE DEF out
<1>5. /\ Each(Upper, out) \in Path /\ Len(Each(Upper, out)) = Len(out)
      /\ \A k \in 1 .. Len(out) : Each(Upper, out)[k] = Upper(out[k])
  BY <1>4, EachUpper
<1>6. CASE CaseInsensitive
  <2>1. normalize(p) = Each(Upper, out)
    BY <1>3, <1>6
  <2>2. \A k \in 1 .. Len(cfg.root) : k \in 1 .. Len(out)
    BY <1>1, <1>4 DEF Path
  <2>3. \A k \in 1 .. Len(rest) : Len(cfg.root) + k \in 1 .. Len(out)
    BY <1>1, <1>4 DEF Path
  <2> QED
    BY <1>4, <1>5, <1>6, <2>1, <2>2, <2>3 DEF Cased, rest
<1>7. CASE ~CaseInsensitive
  BY <1>3, <1>4, <1>7 DEF Cased, rest
<1> QED
  BY <1>6, <1>7

(* Two paths are equal when their characters are. *)
LEMMA SamePath ==
    ASSUME NEW p \in Path, NEW q \in Path, Len(p) = Len(q),
           \A k \in 1 .. Len(p) : p[k] = q[k]
    PROVE  p = q
  BY DEF Path

-----------------------------------------------------------------------------
(* normalize() of its own result, under a safe root. *)
LEMMA RootKept ==
    ASSUME NEW p \in Path, cfg.root \in Path, SafeRoot
    PROVE  normalize(normalize(p)) = normalize(p)
<1> DEFINE rest  == Unrooted(Cut(p))
           n     == Len(cfg.root)
           norm  == normalize(p)
           rest2 == Unrooted(Cut(norm))
<1>1. rest \in Path /\ Len(rest) \in Nat /\ n \in Nat /\ n >= 2
  BY CutPath, UnrootedPath DEF SafeRoot, Path
<1>2. /\ norm \in Path /\ Len(norm) = n + Len(rest)
      /\ \A k \in 1 .. n : norm[k] = Cased(cfg.root[k])
      /\ \A k \in 1 .. Len(rest) : norm[n + k] = Cased(Sep(rest[k]))
  BY Normalized
<1>3. \A k \in 1 .. n : Cased(cfg.root[k]) = cfg.root[k]
  <2>1. CASE CaseInsensitive
    <3>1. cfg.root = Each(Upper, cfg.root)
      BY <2>1 DEF SafeRoot, CaseInsensitive
    <3> QED
      BY <2>1, <3>1, EachUpper DEF Cased
  <2>2. CASE ~CaseInsensitive
    BY <2>2 DEF Cased
  <2> QED
    BY <2>1, <2>2
<1>4. \A k \in 1 .. n : norm[k] = cfg.root[k]
  BY <1>2, <1>3
<1> HIDE DEF norm, rest
<1>5. Cut(norm) = norm
  <2>1. norm[1] = cfg.root[1] /\ norm[2] = cfg.root[2]
    BY <1>1, <1>4
  <2> QED
    BY <1>1, <1>2, <2>1 DEF Cut, Prefixed, SafeRoot
<1>6. IsPrefix(cfg.root, norm)
  <2>1. n <= Len(norm) /\ Len(norm) \in Nat
    BY <1>1, <1>2
  <2>2. SubSeq(cfg.root, 1, n) = SubSeq(norm, 1, n)
    BY <1>1, <1>2, <1>4, <2>1 DEF Path
  <2> QED
    BY <2>1, <2>2 DEF IsPrefix
<1>7. rest2 = SubSeq(norm, n + 1, Len(norm))
  <2>1. cfg.root # <<>>
    BY <1>1
  <2> QED
    BY <1>5, <1>6, <2>1, Zenon DEF Unrooted
<1>8. /\ Len(rest2) = Len(rest)
      /\ \A k \in 1 .. Len(rest) : rest2[k] = norm[n + k]
  BY <1>1, <1>2, <1>7 DEF Path
<1>9. /\ normalize(norm) \in Path /\ Len(normalize(norm)) = n + Len(rest2)
      /\ \A k \in 1 .. n : normalize(norm)[k] = Cased(cfg.root[k])
      /\ \A k \in 1 .. Len(rest2) : normalize(norm)[n + k] = Cased(Sep(rest2[k]))
  BY <1>2, Normalized
<1> HIDE DEF rest2
<1>10. \A c \in Char : Cased(Sep(Cased(Sep(c)))) = Cased(Sep(c))
  BY DEF Cased, Sep, PathSep, Upper
<1>11. ASSUME NEW k \in 1 .. Len(norm) PROVE normalize(norm)[k] = norm[k]
  <2>1. CASE k \in 1 .. n
    BY <1>2, <1>9, <2>1
  <2>2. CASE k \notin 1 .. n
    <3>1. PICK j \in 1 .. Len(rest) : k = n + j
      <4>1. k - n \in 1 .. Len(rest) /\ k = n + (k - n)
        BY <1>1, <1>2, <2>2 DEF Path
      <4> QED
        BY <4>1
    <3>2. rest[j] \in Char
      BY <1>1 DEF Path
    <3> QED
      BY <1>2, <1>8, <1>9, <1>10, <3>1, <3>2
  <2> QED
    BY <2>1, <2>2
<1> QED
  BY <1>2, <1>8, <1>9, <1>11, SamePath DEF norm

(* Spellings that differ in case have one normal form. *)
LEMMA OneKey ==
    ASSUME NEW p \in Path, NEW q \in Path, cfg.root \in Path, CaseInsensitive,
           Each(Upper, p) = Each(Upper, q),
           Unrooted(Cut(p)) = Cut(p), Unrooted(Cut(q)) = Cut(q)
    PROVE  normalize(p) = normalize(q)
<1>1. Len(p) = Len(q) /\ \A k \in 1 .. Len(p) : Upper(p[k]) = Upper(q[k])
  BY DEF Each, Path
<1>2. \A k \in 1 .. Len(p) : /\ p[k] \in Separators <=> q[k] \in Separators
                             /\ p[k] = ":" <=> q[k] = ":"
  BY <1>1 DEF Upper, Separators
<1>3. Prefixed(p) <=> Prefixed(q)
  BY <1>1, <1>2 DEF Prefixed, Path
<1>4. /\ Cut(p) \in Path /\ Cut(q) \in Path /\ Len(Cut(p)) = Len(Cut(q))
      /\ \A k \in 1 .. Len(Cut(p)) : Upper(Cut(p)[k]) = Upper(Cut(q)[k])
  BY <1>1, <1>3 DEF Cut, Prefixed, Path
<1>5. \A k \in 1 .. Len(Cut(p)) : Cased(Sep(Cut(p)[k])) = Cased(Sep(Cut(q)[k]))
  BY <1>4 DEF Cased, Sep, PathSep, Upper
<1> DEFINE n == Len(cfg.root)
<1>6. /\ normalize(p) \in Path /\ Len(normalize(p)) = n + Len(Cut(p))
      /\ \A k \in 1 .. n : normalize(p)[k] = Cased(cfg.root[k])
      /\ \A k \in 1 .. Len(Cut(p)) : normalize(p)[n + k] = Cased(Sep(Cut(p)[k]))
  <2>1. /\ normalize(p) \in Path /\ Len(normalize(p)) = n + Len(Unrooted(Cut(p)))
        /\ \A k \in 1 .. n : normalize(p)[k] = Cased(cfg.root[k])
        /\ \A k \in 1 .. Len(Unrooted(Cut(p))) :
              normalize(p)[n + k] = Cased(Sep(Unrooted(Cut(p))[k]))
    BY Normalized
  <2> QED
    BY <2>1
<1>7. /\ normalize(q) \in Path /\ Len(normalize(q)) = n + Len(Cut(p))
      /\ \A k \in 1 .. n : normalize(q)[k] = Cased(cfg.root[k])
      /\ \A k \in 1 .. Len(Cut(p)) : normalize(q)[n + k] = Cased(Sep(Cut(q)[k]))
  BY Normalized, <1>4
<1>8. ASSUME NEW k \in 1 .. Len(normalize(p)) PROVE normalize(p)[k] = normalize(q)[k]
  <2>1. CASE k \in 1 .. n
    BY <1>6, <1>7, <2>1
  <2>2. CASE k \notin 1 .. n
    <3>1. n \in Nat /\ Len(Cut(p)) \in Nat
      BY <1>4 DEF Path
    <3>2. k - n \in 1 .. Len(Cut(p)) /\ k = n + (k - n)
      BY <1>6, <2>2, <3>1
    <3> QED
      BY <1>5, <1>6, <1>7, <3>2
  <2> QED
    BY <2>1, <2>2
<1> QED
  BY <1>6, <1>7, <1>8, SamePath
-----------------------------------------------------------------------------
LEMMA ConfigRoot ==
    ASSUME TypeOK
    PROVE  cfg.root \in Path /\ cfg.platform \in {"Linux", "Vita", "Win32"}
  BY VfsAssumption DEF TypeOK, Path

(* The kernel's answer for an absolute name does not depend on the          *)
(* directory.                                                               *)
LEMMA AbsoluteLookup ==
    ASSUME NEW p, Absolute(p), NEW d, NEW e
    PROVE  Lookup(d, p) = Lookup(e, p)
  BY DEF Lookup, Resolve

(* In the default configuration a plain path is its own normal form and key. *)
LEMMA PlainKept ==
    ASSUME NEW p \in Path, Hooked, Plain(p)
    PROVE  normalize(p) = p /\ cache_key(p) = p
<1>1. cfg.root \in Path /\ cfg.root = <<>> /\ ~CaseInsensitive
  BY DEF Hooked, CaseInsensitive, Path
<1>2. Cut(p) = p
  BY DEF Plain, Cut
<1>3. Unrooted(Cut(p)) = p
  BY <1>1, <1>2 DEF Unrooted
<1>4. /\ normalize(p) \in Path
      /\ Len(normalize(p)) = Len(cfg.root) + Len(Unrooted(Cut(p)))
      /\ \A k \in 1 .. Len(Unrooted(Cut(p))) :
            normalize(p)[Len(cfg.root) + k] = Cased(Sep(Unrooted(Cut(p))[k]))
  BY <1>1, Normalized
<1>5. Len(cfg.root) = 0
  BY <1>1
<1>6. Len(p) \in Nat /\ Len(normalize(p)) = Len(p)
  BY <1>3, <1>4, <1>5 DEF Path
<1>7. ASSUME NEW k \in 1 .. Len(p) PROVE normalize(p)[k] = p[k]
  <2>1. normalize(p)[k] = Cased(Sep(p[k]))
    BY <1>3, <1>4, <1>5, <1>6
  <2>2. p[k] # "\\"
    BY DEF Plain, ToSet
  <2> QED
    BY <1>1, <2>1, <2>2 DEF Cased, Sep
<1>8. normalize(p) = p
  BY <1>4, <1>6, <1>7, SamePath
<1> QED
  BY <1>1, <1>8 DEF cache_key

(* What openat() passes to the runtime: plain only when it names the same   *)
(* file from everywhere, or when it is the path itself.                     *)
LEMMA FullNames ==
    ASSUME TypeOK, NEW p \in Inputs, NEW full \in {Full(p), p}, Plain(full), NEW d
    PROVE  /\ full \in Path
           /\ Lookup(d, full) = Lookup(IF Absolute(full) THEN cwd ELSE d, p)
<1>1. p \in Path
  BY VfsAssumption DEF Path
<1>2. CASE full = p
  BY <1>1, <1>2, AbsoluteLookup
<1>3. CASE full # p
  <2>1. ~Absolute(p) /\ full = Getcwd \o <<"/">> \o p
    BY <1>3 DEF Full
  <2>2. cwd \in Path /\ (cwd # <<>> => cwd[1] = "/")
    BY VfsAssumption DEF TypeOK, Path
  <2>3. <<"/">> \in Path /\ Len(<<"/">>) = 1 /\ <<"/">>[1] = "/"
    BY VfsAssumption DEF Path
  <2>4. /\ <<"/">> \o <<"/">> \in Path
        /\ (<<"/">> \o <<"/">>)[1] = "/" /\ (<<"/">> \o <<"/">>)[2] = "/"
        /\ Len(<<"/">> \o <<"/">>) = 2
    BY VfsAssumption DEF Path
  <2>5. ASSUME cwd = <<>> PROVE FALSE
    <3>1. full = (<<"/">> \o <<"/">>) \o p
      BY <2>1, <2>5 DEF Getcwd
    <3>2. full[1] = "/" /\ full[2] = "/" /\ Len(full) >= 2
      BY <1>1, <2>4, <3>1, ConcatPath DEF Path
    <3> QED
      BY <3>2 DEF Plain, Prefixed, Separators
  <2>6. full = (cwd \o <<"/">>) \o p
    BY <2>1, <2>5 DEF Getcwd
  <2>7. cwd \o <<"/">> \in Path /\ full \in Path
    BY <1>1, <2>2, <2>3, <2>6, ConcatPath
  <2>8. full[1] = "/" /\ Len(full) >= 1
    <3>1. Len(cwd) \in Nat /\ Len(cwd) >= 1
      BY <2>2, <2>5 DEF Path
    <3>2. Len(cwd \o <<"/">>) >= 1 /\ (cwd \o <<"/">>)[1] = "/"
      BY <2>2, <2>3, <2>5, <3>1, ConcatPath
    <3> QED
      BY <1>1, <2>6, <2>7, <3>2, ConcatPath DEF Path
  <2>9. Absolute(full)
    BY <2>8 DEF Absolute
  <2>10. Resolve(d, full) = Resolve(cwd, p)
    BY <2>1, <2>6, <2>9 DEF Resolve
  <2> QED
    BY <2>7, <2>9, <2>10 DEF Lookup
<1> QED
  BY <1>2, <1>3
-----------------------------------------------------------------------------
(* The configuration does not change, so neither does what normalize() makes. *)
LEMMA SameNormal ==
    ASSUME UNCHANGED cfg, NEW p
    PROVE  normalize(p)' = normalize(p)
  BY DEF normalize, Unrooted, PathSep, CaseInsensitive, Each

(* The file that open_read() finds for a name. *)
LEMMA RuntimeAnswer ==
    ASSUME IInv, Hooked, NEW full,
           NEW file, file = IF cache_key(full) \in DOMAIN slices THEN slices[cache_key(full)]
                            ELSE Lookup(cwd, normalize(full))
    PROVE  \E d \in dirs : file = Lookup(d, cache_key(full))
<1>1. cache_key(full) = normalize(full)
  BY DEF cache_key, CaseInsensitive, Hooked
<1>2. CASE cache_key(full) \in DOMAIN slices
  BY <1>2 DEF IInv, KeysNameFiles
<1>3. CASE cache_key(full) \notin DOMAIN slices
  BY <1>1, <1>3 DEF IInv, TypeOK
<1> QED
  BY <1>2, <1>3

LEMMA InitIInv == Init => IInv
<1> SUFFICES ASSUME Init PROVE IInv
  OBVIOUS
<1>1. TypeOK
  BY DEF Init, TypeOK
<1>2. KeysNameFiles
  BY DEF Init, KeysNameFiles
<1>3. RightFile
  BY DEF Init, RightFile
<1> QED
  BY <1>1, <1>2, <1>3 DEF IInv

LEMMA OpenReadIInv ==
    ASSUME IInv, Hooked, NEW op \in {"open", "openat"}, NEW p \in Inputs,
           NEW full \in {Full(p), p}, OpenRead(op, p, full)
    PROVE  IInv'
<1> DEFINE key  == cache_key(full)
           file == IF key \in DOMAIN slices THEN slices[key] ELSE Lookup(cwd, normalize(full))
<1>1. /\ slices' = IF file = None THEN slices
                   ELSE [k \in DOMAIN slices \cup {key} |-> IF k = key THEN file ELSE slices[k]]
      /\ ret' = [op |-> op, path |-> p, full |-> full,
                 file |-> IF file = None THEN Lookup(cwd, p) ELSE file,
                 norm |-> normalize(p), dir |-> cwd]
      /\ cfg' = cfg /\ cwd' = cwd /\ dirs' = dirs
  BY DEF OpenRead, Answer
<1>2. PICK d \in dirs : file = Lookup(d, key)
  BY RuntimeAnswer
<1>3. TypeOK'
  BY <1>1, SameNormal DEF IInv, TypeOK
<1>4. KeysNameFiles'
  <2> HIDE DEF file, key
  <2>1. \A k \in DOMAIN slices' :
           \/ k = key /\ slices'[k] = file
           \/ k \in DOMAIN slices /\ slices'[k] = slices[k]
    <3>1. CASE file = None
      BY <1>1, <3>1
    <3>2. CASE file # None
      BY <1>1, <3>2
    <3> QED
      BY <3>1, <3>2
  <2> QED
    BY <1>1, <1>2, <2>1 DEF IInv, KeysNameFiles, Lookup
<1>5. RightFile'
  <2> SUFFICES ASSUME Plain(full)
               PROVE  \E e \in IF Absolute(full) THEN {cwd} ELSE dirs :
                         (IF file = None THEN Lookup(cwd, p) ELSE file) = Lookup(e, p)
    BY <1>1 DEF RightFile, Lookup, Plain
  <2>1. TypeOK /\ cwd \in dirs
    BY DEF IInv, TypeOK
  <2>2. CASE file = None
    BY <2>1, <2>2
  <2>3. CASE file # None
    <3>1. full \in Path /\ Lookup(d, full) = Lookup(IF Absolute(full) THEN cwd ELSE d, p)
      BY <2>1, FullNames
    <3>2. key = full
      BY <3>1, PlainKept
    <3>3. file = Lookup(IF Absolute(full) THEN cwd ELSE d, p)
      BY <1>2, <3>1, <3>2
    <3> HIDE DEF file, key
    <3> QED
      BY <2>3, <3>3
  <2> QED
    BY <2>2, <2>3
<1> QED
  BY <1>3, <1>4, <1>5 DEF IInv

LEMMA NextIInv == IInv /\ [Next]_vars => IInv'
<1> SUFFICES ASSUME IInv, [Next]_vars PROVE IInv'
  OBVIOUS
<1>1. ASSUME NEW p \in Inputs, Open(p) PROVE IInv'
  BY <1>1, OpenReadIInv DEF Open
<1>2. ASSUME NEW p \in Inputs, Openat(p) PROVE IInv'
  BY <1>2, OpenReadIInv DEF Openat
<1>3. ASSUME NEW p \in Inputs, Translate(p) PROVE IInv'
  <2>1. /\ ret' = [op |-> "translate", path |-> p, full |-> p, file |-> None,
                   norm |-> normalize(p), dir |-> cwd]
        /\ UNCHANGED <<cfg, cwd, dirs, slices>>
    BY <1>3 DEF Translate, Answer
  <2>2. TypeOK'
    BY <2>1, SameNormal DEF IInv, TypeOK
  <2>3. KeysNameFiles' /\ RightFile'
    BY <2>1 DEF IInv, KeysNameFiles, RightFile, Lookup
  <2> QED
    BY <2>2, <2>3 DEF IInv
<1>4. ASSUME NEW d \in Dirs, Chdir(d) PROVE IInv'
  <2>1. cwd' = d /\ dirs' = dirs \cup {d} /\ UNCHANGED <<cfg, slices, ret>>
    BY <1>4 DEF Chdir
  <2>2. TypeOK'
    BY <2>1, SameNormal DEF IInv, TypeOK
  <2>3. KeysNameFiles'
    BY <2>1 DEF IInv, KeysNameFiles, Lookup
  <2>4. RightFile'
    BY <2>1 DEF IInv, RightFile, Lookup, Plain
  <2> QED
    BY <2>2, <2>3, <2>4 DEF IInv
<1>5. CASE UNCHANGED vars
  <2>1. UNCHANGED <<cfg, cwd, dirs, slices, ret>>
    BY <1>5 DEF vars
  <2>2. TypeOK'
    BY <2>1, SameNormal DEF IInv, TypeOK
  <2>3. KeysNameFiles' /\ RightFile'
    BY <2>1 DEF IInv, KeysNameFiles, RightFile, Lookup, Plain
  <2> QED
    BY <2>2, <2>3 DEF IInv
<1> QED
  BY <1>1, <1>2, <1>3, <1>4, <1>5 DEF Next, Finished

(* The cache only holds files under keys that name them.                    *)
THEOREM Invariance == Spec => []IInv
  BY InitIInv, NextIInv, PTL DEF Spec

(* The hooks answer with the file that a plain path names, for every set of *)
(* files and directories and every order of open, openat and chdir.         *)
THEOREM RightFiles == Spec => []RightFile
<1>1. IInv => RightFile
  BY DEF IInv
<1> QED
  BY Invariance, <1>1, PTL

(* normalize() leaves the paths it has made as they are, for every path and *)
(* every safe root.                                                         *)
THEOREM RootsKept == Spec => []RootedOnce
<1>1. IInv => RootedOnce
  <2> SUFFICES ASSUME IInv, ret.op = "translate", SafeRoot
               PROVE  normalize(ret.norm) = ret.norm
    BY DEF RootedOnce
  <2>1. cfg.root \in Path
    BY ConfigRoot DEF IInv
  <2>2. ret.path \in Path /\ ret.norm = normalize(ret.path)
    BY VfsAssumption DEF IInv, TypeOK, Path
  <2> QED
    BY <2>1, <2>2, RootKept
<1> QED
  BY Invariance, <1>1, PTL

(* Where case does not tell files apart, two spellings of a path have one   *)
(* key in the cache.                                                        *)
THEOREM CaseBlindKeys == Spec => []CaseBlind
<1>1. IInv => CaseBlind
  <2> SUFFICES ASSUME IInv, ret.op = "translate", cfg.platform # "Linux", NEW q \in Inputs,
                      Each(Upper, q) = Each(Upper, ret.path),
                      Unrooted(Cut(q)) = Cut(q), Unrooted(Cut(ret.path)) = Cut(ret.path)
               PROVE  cache_key(q) = cache_key(ret.path)
    BY DEF CaseBlind
  <2>1. cfg.root \in Path /\ CaseInsensitive
    BY ConfigRoot DEF IInv, CaseInsensitive
  <2>2. ret.path \in Path /\ q \in Path
    BY VfsAssumption DEF IInv, TypeOK, Path
  <2>3. normalize(q) = normalize(ret.path)
    BY <2>1, <2>2, OneKey
  <2> QED
    BY <2>3 DEF cache_key
<1> QED
  BY Invariance, <1>1, PTL
=============================================================================
