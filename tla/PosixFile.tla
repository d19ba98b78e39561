----------------------------- MODULE PosixFile -----------------------------
(***************************************************************************)
(* What a program expects of the files it reads, call by call, of the      *)
(* calls that the g_io hooks replace: open gives a fresh descriptor at     *)
(* position 0; read moves the position and stops at the end of the file;   *)
(* pread and mmap do not move it; FIONREAD is what is left to read; a call *)
(* on a descriptor that is not open returns -1 and changes nothing.        *)
(***************************************************************************)
EXTENDS Integers

CONSTANTS Paths, Counts, Offsets, Null

VARIABLES
    fs,    \* the files: path -> [file, size]
    ofd,   \* open descriptors: fd -> [file, size, pos]
    ret    \* the latest call that returned: [op, fd, file, at, val]

vars == <<fs, ofd, ret>>

Returns(op, fd, at, val) ==
    ret' = [op |-> op, fd |-> fd, at |-> at, val |-> val,
            file |-> IF fd \in DOMAIN ofd THEN ofd[fd].file ELSE Null]

Init == /\ ofd = [fd \in {} |-> Null]
        /\ ret = [op |-> "none", fd |-> -1, at |-> 0, val |-> 0, file |-> Null]

Left(fd, pos) == IF pos >= ofd[fd].size THEN 0 ELSE ofd[fd].size - pos
Smaller(a, b) == IF a < b THEN a ELSE b

Open(p) ==
    /\ p \in DOMAIN fs
    /\ \E fd \in (DOMAIN ofd') \ DOMAIN ofd :
         /\ ofd' = [x \in DOMAIN ofd \cup {fd} |->
                      IF x = fd THEN [file |-> fs[p].file, size |-> fs[p].size, pos |-> 0]
                      ELSE ofd[x]]
         /\ Returns("open", -1, 0, fd)

OpenFails == Returns("open", -1, 0, -1) /\ UNCHANGED ofd

BadFd(op, fd) == fd \notin DOMAIN ofd /\ Returns(op, fd, 0, -1) /\ UNCHANGED ofd

Read(fd, n) ==
    LET val == Smaller(n, Left(fd, ofd[fd].pos))
    IN  /\ ofd' = [ofd EXCEPT ![fd].pos = @ + val]
        /\ Returns("read", fd, ofd[fd].pos, val)

Pread(fd, n, off) ==
    /\ IF off < 0 THEN Returns("pread", fd, 0, -1)
       ELSE Returns("pread", fd, off, Smaller(n, Left(fd, off)))
    /\ UNCHANGED ofd

Lseek(fd, off, whence) ==
    LET target == off + CASE whence = "SET" -> 0
                          [] whence = "CUR" -> ofd[fd].pos
                          [] whence = "END" -> ofd[fd].size
                          [] OTHER -> 0
    IN  IF whence = "other" \/ target < 0
        THEN Returns("lseek", fd, 0, -1) /\ UNCHANGED ofd
        ELSE Returns("lseek", fd, 0, target) /\ ofd' = [ofd EXCEPT ![fd].pos = target]

Mmap(fd, off, len) ==
    /\ Returns("mmap", fd, off, IF len > 0 THEN len ELSE -1)
    /\ UNCHANGED ofd

Fionread(fd) == Returns("fionread", fd, 0, Left(fd, ofd[fd].pos)) /\ UNCHANGED ofd

Fstat(fd) == Returns("fstat", fd, 0, ofd[fd].size) /\ UNCHANGED ofd

Ioctl(fd) == Returns("ioctl", fd, 0, -1) /\ UNCHANGED ofd

Fcntl(fd) == Returns("fcntl", fd, 0, 0) /\ UNCHANGED ofd

Fadvise(fd) == Returns("fadvise", fd, 0, 0) /\ UNCHANGED ofd

Close(fd) ==
    /\ ofd' = [x \in DOMAIN ofd \ {fd} |-> ofd[x]]
    /\ Returns("close", fd, 0, 0)

Next ==
    /\ UNCHANGED fs
    /\ \/ \E p \in Paths : Open(p)
       \/ OpenFails
       \/ \E op \in {"read", "pread", "lseek", "mmap", "fionread", "ioctl", "fstat", "close"} :
             BadFd(op, ret'.fd)
       \/ \E fd \in DOMAIN ofd :
            \/ \E n \in Counts : Read(fd, n)
            \/ \E n \in Counts, off \in Counts \cup Offsets : Pread(fd, n, off)
            \/ \E n, off \in Counts : Mmap(fd, off, n)
            \/ \E off \in Offsets, whence \in {"SET", "CUR", "END", "other"} : Lseek(fd, off, whence)
            \/ Fionread(fd) \/ Ioctl(fd) \/ Fstat(fd) \/ Fcntl(fd) \/ Fadvise(fd)
            \/ Close(fd)

Spec == Init /\ [][Next]_vars
=============================================================================
