------------------------------- MODULE Mounts --------------------------------
(***************************************************************************)
(* The mount table of kernel/fs/vfs.c and the search of a path in it.      *)
(*                                                                         *)
(* A path is a sequence of characters, of which only the slash matters.    *)
(* There is no unmount, and a refused mount leaves its slot unused: a      *)
(* table is the sequence of its used slots, which are the first ones.      *)
(***************************************************************************)
EXTENDS Integers, Sequences

CONSTANTS
    VFS_MAX_MOUNTS,        \* vfs.h: 8
    VFS_MOUNTPOINT_MAX,    \* vfs.h: 32, the terminating zero included
    MountCalls,            \* sequences of mount points, one per call of vfs_mount
    SearchPaths            \* the paths that are searched after such calls

ASSUME MountsAssumption ==
    /\ VFS_MAX_MOUNTS \in Nat /\ VFS_MOUNTPOINT_MAX \in Nat
    /\ MountCalls \subseteq Seq(Seq(STRING))
    /\ SearchPaths \subseteq Seq(STRING)

Root == <<"/">>
Absolute(path) == path # << >> /\ path[1] = "/"

-----------------------------------------------------------------------------
(* vfs_mount: what it refuses, and the table that it leaves.               *)
TooLong(mountpoint) == Len(mountpoint) >= VFS_MOUNTPOINT_MAX
MountRefused(table, mountpoint) ==
    \/ ~Absolute(mountpoint)
    \/ \E i \in DOMAIN table : table[i].mountpoint = mountpoint
    \/ Len(table) >= VFS_MAX_MOUNTS
    \/ TooLong(mountpoint)

WithMount(table, mountpoint, fs, ctx) ==
    IF MountRefused(table, mountpoint) THEN table
    ELSE Append(table, [mountpoint |-> mountpoint, fs |-> fs, ctx |-> ctx])

(* vfs_mountpoint_matches: the mount point is the path or a directory      *)
(* above it.                                                               *)
MatchesPrefix(mountpoint, path) ==
    \/ mountpoint = Root /\ Absolute(path)
    \/ Len(mountpoint) <= Len(path) /\ SubSeq(path, 1, Len(mountpoint)) = mountpoint
Matches(mountpoint, path) ==
    IF mountpoint = Root THEN Absolute(path)
    ELSE /\ Len(mountpoint) <= Len(path)
         /\ SubSeq(path, 1, Len(mountpoint)) = mountpoint
         /\ Len(path) > Len(mountpoint) => path[Len(mountpoint) + 1] = "/"

(* vfs_find_mount: the loop over the table, which keeps the longest match, *)
(* 0 for none.                                                             *)
FindMount(table, path) ==
    LET best[i \in 0 .. Len(table)] ==
            IF i = 0 THEN 0
            ELSE LET best_len == IF best[i - 1] = 0 THEN 0
                                 ELSE Len(table[best[i - 1]].mountpoint)
                 IN  IF /\ Matches(table[i].mountpoint, path)
                        /\ Len(table[i].mountpoint) > best_len
                     THEN i ELSE best[i - 1]
    IN  IF Absolute(path) THEN best[Len(table)] ELSE 0

(* The path inside the file system with this mount point.  One slash after *)
(* the mount point is dropped, a second one is not.                        *)
Relative(mountpoint, path) ==
    LET rest == SubSeq(path, Len(mountpoint) + 1, Len(path))
    IN  IF mountpoint # Root /\ rest # << >> /\ rest[1] = "/"
        THEN Tail(rest) ELSE rest

-----------------------------------------------------------------------------
(* The table after further calls of vfs_mount, refused ones included.      *)
TableAfter(start, calls) ==
    LET table[n \in 0 .. Len(calls)] ==
            IF n = 0 THEN start ELSE WithMount(table[n - 1], calls[n], "fs", "ctx")
    IN  table[Len(calls)]

(* The reference for the search.  The directories on the way to a path are *)
(* the root and what ends where a component ends; a path belongs to the    *)
(* longest of them that is mounted, and to none only if none is mounted.   *)
Above(path) ==
    {Root} \cup {SubSeq(path, 1, n) : n \in {k \in 1 .. Len(path) :
                                               k = Len(path) \/ path[k + 1] = "/"}}

IsNearest(table, path) ==
    LET near == {i \in DOMAIN table : table[i].mountpoint \in Above(path)}
        best == FindMount(table, path)
    IN  IF near = {} THEN best = 0
        ELSE /\ best \in near
             /\ \A i \in near : Len(table[i].mountpoint) <= Len(table[best].mountpoint)

(* The mount point and the relative path make up the path again, with the  *)
(* slash between them that the search took away, and the relative path has *)
(* no leading slash.                                                       *)
IsSplit(table, path) ==
    LET best == FindMount(table, path)
        mountpoint == table[best].mountpoint
        rel == Relative(mountpoint, path)
    IN  best # 0 =>
           /\ ~Absolute(rel)
           /\ \/ mountpoint = Root /\ path = Root \o rel
              \/ mountpoint # Root /\ path \in {mountpoint, mountpoint \o <<"/">> \o rel}

DoubledSlash(path) == \E k \in 2 .. Len(path) : path[k - 1] = "/" /\ path[k] = "/"
=============================================================================
