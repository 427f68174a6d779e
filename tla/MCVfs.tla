-------------------------------- MODULE MCVfs --------------------------------
(* Vfs with two descriptors, a disk of three sectors and a partition of    *)
(* one, in sectors of two bytes, positions of three bits and fewer heap    *)
(* objects than two cached files and the mount need.                       *)
EXTENDS Vfs, TLC

CONSTANTS h1, h2, h3, h4

MCSectors == [d \in BlockDevices |-> IF d = PyfsDevice THEN 1 ELSE 3]
MCPaths == { <<"/", "d", "/", "n">>, <<"/", "d", "/", "z">>, <<"/", "d", "/", "k">>,
             <<"/", "p", "/", "s">>, <<"/", "n">>, <<"/", "d", "/", "/", "n">>, <<"n">> }

(* For the search: three calls of vfs_mount with the strings of up to two  *)
(* characters and some of three, then paths of up to five.                 *)
Strings(n) == UNION {[1 .. k -> {"/", "a"}] : k \in 0 .. n}
MCMountCalls == [1 .. 3 -> Strings(2) \cup {<<"/", "a", "a">>, <<"/", "a", "/">>, <<"/", "/", "a">>}]
MCSearchPaths == Strings(5)

MCHandles == {h1, h2, h3, h4}
HandleSymmetry == Permutations(MCHandles)
=============================================================================
