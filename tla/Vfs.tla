-------------------------------- MODULE Vfs --------------------------------
(***************************************************************************)
(* grt::Vfs (runtime/include/grt/g_runtime.hpp): which file a path string  *)
(* stands for.  normalize() makes the path that MmapCache::ingest opens,   *)
(* cache_key() the key it caches the file under.  The open hooks of        *)
(* g_io_posix.cpp use a Vfs in its default configuration while the program *)
(* changes its directory; a port to another platform uses one with a root. *)
(* A path is a sequence of characters; files are never replaced here       *)
(* (GRuntime has that).                                                    *)
(***************************************************************************)
EXTENDS Naturals, SequencesExt

CONSTANTS
    Char,        \* characters
    Configs,     \* VfsConfigs: [platform, root]
    Inputs,      \* paths the program passes
    Dirs,        \* directories it may be in, without a trailing separator
    Existing,    \* files that exist, by absolute name
    None,        \* no file
    MaxCalls     \* bound: calls of open, openat and chdir

ASSUME VfsAssumption ==
    /\ {"/", "\\", ":", "x", "X"} \subseteq Char
    /\ \A c \in Configs : c.platform \in {"Linux", "Vita", "Win32"} /\ c.root \in Seq(Char)
    /\ \A p \in Inputs : p \in Seq(Char)
    /\ \A d \in Dirs : d \in Seq(Char) /\ (d # <<>> => d[1] = "/")
    /\ MaxCalls \in Nat

VARIABLES
    cfg,      \* the configuration of the Vfs
    cwd,      \* the program's directory
    dirs,     \* history: the directories it has been in
    slices,   \* MmapCache::slices_: key -> file
    ret,      \* the latest answer: [op, path, full, file, norm, dir]
    calls     \* calls so far

vars == <<cfg, cwd, dirs, slices, ret, calls>>

(* The letters: "x" and "X" are one letter in two cases. *)
Upper(c) == IF c = "x" THEN "X" ELSE c
Lower(c) == IF c = "X" THEN "x" ELSE c
Each(f(_), p) == [k \in 1 .. Len(p) |-> f(p[k])]

Separators == {"/", "\\"}

Mutant_CaseInsensitive == cfg.platform = "Win32"

(* Vfs(cfg): set from the platform. *)
CaseInsensitive == cfg.platform # "Linux"
PathSep         == IF cfg.platform = "Win32" THEN "\\" ELSE "/"

(* The drive or the "//" that normalize() cuts off. *)
Prefixed(p) ==
    /\ Len(p) >= 2
    /\ p[2] = ":" \/ (p[1] \in Separators /\ p[2] \in Separators)
Cut(p) == IF Prefixed(p) THEN SubSeq(p, 3, Len(p)) ELSE p

Mutant_Unrooted(p) == p

(* The root in front of the rest is not doubled. *)
Unrooted(p) ==
    IF cfg.root # <<>> /\ IsPrefix(cfg.root, p) THEN SubSeq(p, Len(cfg.root) + 1, Len(p)) ELSE p

normalize(p) ==
    LET rest == Unrooted(Cut(p))
        out  == cfg.root \o Each(LAMBDA c : IF c = "\\" THEN PathSep ELSE c, rest)
    IN  IF CaseInsensitive THEN Each(Upper, out) ELSE out

Mutant_cache_key(p) == Each(Lower, normalize(p))

cache_key(p) == IF CaseInsensitive THEN Each(Lower, normalize(p)) ELSE normalize(p)
-----------------------------------------------------------------------------
(* The kernel's name for the file a path stands for in directory d:         *)
(* external.  Repeated separators are one.                                  *)
Squeezed(p) ==
    LET keep == SelectSeq([k \in 1 .. Len(p) |-> k],
                          LAMBDA k : ~(k > 1 /\ p[k] = "/" /\ p[k - 1] = "/"))
    IN  [k \in 1 .. Len(keep) |-> p[keep[k]]]
Absolute(p)  == p # <<>> /\ p[1] = "/"
Resolve(d, p) == Squeezed(IF Absolute(p) THEN p ELSE d \o <<"/">> \o p)
Lookup(d, p)  == IF Resolve(d, p) \in Existing THEN Resolve(d, p) ELSE None

(* getcwd: the root directory is "/". *)
Getcwd == IF cwd = <<>> THEN <<"/">> ELSE cwd
-----------------------------------------------------------------------------
Init ==
    /\ cfg \in Configs
    /\ cwd \in Dirs /\ dirs = {cwd}
    /\ slices = [k \in {} |-> None]
    /\ ret = [op |-> "none", path |-> <<>>, full |-> <<>>, file |-> None, norm |-> <<>>,
              dir |-> cwd]
    /\ calls = 0

Enter == calls < MaxCalls /\ calls' = calls + 1

Answer(op, p, full, file) ==
    ret' = [op |-> op, path |-> p, full |-> full, file |-> file, norm |-> normalize(p),
            dir |-> cwd]

(* open_read(full), and the kernel's open of p when that returns -1. *)
OpenRead(op, p, full) ==
    /\ Enter
    /\ LET key  == cache_key(full)
           file == IF key \in DOMAIN slices THEN slices[key] ELSE Lookup(cwd, normalize(full))
       IN  /\ slices' = IF file = None THEN slices
                        ELSE [k \in DOMAIN slices \cup {key} |-> IF k = key THEN file ELSE slices[k]]
           /\ Answer(op, p, full, IF file = None THEN Lookup(cwd, p) ELSE file)
    /\ UNCHANGED <<cfg, cwd, dirs>>

(* The hooks answer from the cache on Linux, in the default configuration. *)
Hooked == cfg.platform = "Linux" /\ cfg.root = <<>>

Open(p) == Hooked /\ OpenRead("open", p, p)

(* openat(AT_FDCWD, p): a relative path behind the directory. *)
Full(p) == IF Absolute(p) THEN p ELSE Getcwd \o <<"/">> \o p

(* openat; getcwd may fail. *)
Openat(p) ==
    /\ Hooked
    /\ \E full \in {Full(p), p} : OpenRead("openat", p, full)

Chdir(d) ==
    /\ Enter
    /\ Hooked
    /\ cwd' = d /\ dirs' = dirs \cup {d}
    /\ UNCHANGED <<cfg, slices, ret>>

(* A port asks its Vfs for the path of a game file. *)
Translate(p) ==
    /\ ~Hooked
    /\ Enter
    /\ Answer("translate", p, p, None)
    /\ UNCHANGED <<cfg, cwd, dirs, slices>>

Finished == calls = MaxCalls /\ UNCHANGED vars

Next ==
    \/ \E p \in Inputs : Open(p) \/ Openat(p) \/ Translate(p)
    \/ \E d \in Dirs : Chdir(d)
    \/ Finished

Spec == Init /\ [][Next]_vars
-----------------------------------------------------------------------------
(* The paths normalize() leaves alone in the default configuration. *)
Plain(p) == ~Prefixed(p) /\ "\\" \notin ToSet(p)

(* The program gets the file its path names, "byte-identical to running     *)
(* without the shim" (README.md:256): always when the name that reaches the *)
(* cache is absolute, and otherwise for a directory the program has been    *)
(* in, since the key of a relative path does not tell where it was cached   *)
(* (ingest, open, openat).  For plain paths: normalize() takes a drive, a   *)
(* leading "//" and backslashes out of the others, also on Linux.           *)
RightFile ==
    ret.op \in {"open", "openat"} /\ Plain(ret.full) =>
        \E d \in IF Absolute(ret.full) THEN {ret.dir} ELSE dirs : ret.file = Lookup(d, ret.path)

(* A root whose first characters normalize() does not take for a drive or   *)
(* a "//", with or without what follows it; of upper case where the paths   *)
(* that normalize() makes are.                                              *)
SafeRoot ==
    /\ Len(cfg.root) >= 2 /\ ~Prefixed(cfg.root)
    /\ cfg.platform # "Linux" => cfg.root = Each(Upper, cfg.root)

(* A path that normalize() has made stays as it is: the root it is already  *)
(* under is not put in front of it again ("idempotent", g_runtime.hpp:67),  *)
(* for safe roots.                                                          *)
RootedOnce == ret.op = "translate" /\ SafeRoot => normalize(ret.norm) = ret.norm

(* On a platform where case does not tell files apart, neither does the     *)
(* key: spellings of a path that differ in case have one entry in the       *)
(* cache, unless one of them begins with the root, which normalize() looks  *)
(* for letter by letter.                                                    *)
CaseBlind ==
    ret.op = "translate" /\ cfg.platform # "Linux" =>
        \A q \in Inputs :
            /\ Each(Upper, q) = Each(Upper, ret.path)
            /\ Unrooted(Cut(q)) = Cut(q) /\ Unrooted(Cut(ret.path)) = Cut(ret.path)
            => cache_key(q) = cache_key(ret.path)
-----------------------------------------------------------------------------
(* Type invariant: the program is in a directory it has been in, and the    *)
(* latest answer is that of the configuration, which does not change.       *)
TypeOK ==
    /\ cfg \in Configs
    /\ cwd \in dirs /\ dirs \subseteq Dirs
    /\ ret.op # "none" => \E p \in Inputs : ret.path = p /\ ret.norm = normalize(p)

(* A cached file is the one its key names, seen from a directory the        *)
(* program has been in.                                                     *)
KeysNameFiles ==
    \A k \in DOMAIN slices : \E d \in dirs : slices[k] = Lookup(d, k)

IInv == TypeOK /\ KeysNameFiles /\ RightFile
=============================================================================
