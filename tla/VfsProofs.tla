------------------------------ MODULE VfsProofs ------------------------------
(***************************************************************************)
(* Proofs about files and mounts, for every number of descriptors, device, *)
(* sector size and position width: VfsInv is inductive, so reads deliver   *)
(* the file and the heap matches the tables; and the search of the mount   *)
(* table, a loop, is proved by induction.                                  *)
(***************************************************************************)
EXTENDS Vfs, SequenceTheorems, WellFoundedInduction, TLAPS

-----------------------------------------------------------------------------
(* The inductive invariant.                                                *)
Objects == [kind : {"pyfs", "devctx", "pyctx", "cache"}, link : Handles \cup {NULL},
            dev : BlockDevices \cup {"none"}]

VfsTypeOK ==
    /\ registered \subseteq BlockDevices
    /\ g_open \in [Fds -> [ops : {"none", "null", "zero", "block", "pyfs"},
                           ctx : Handles \cup {NULL}, pos : Nat]]
    /\ Allocated \subseteq Handles /\ heap \in [Allocated -> Objects]
    /\ got \in [Fds -> Nat] /\ spoilt \in [Fds -> BOOLEAN]
    /\ pc # "run" => OpenFds = {}

(* What k_main has mounted at each point: none of its mounts is refused.   *)
RootEntry == [mountpoint |-> Root, fs |-> "nullfs", ctx |-> NULL]
DevEntry == [mountpoint |-> DevMount, fs |-> "devfs", ctx |-> NULL]
PyEntry(h) == [mountpoint |-> PyMount, fs |-> "pyfs", ctx |-> h]

MountsInv ==
    \/ pc = "root" /\ g_mounts = << >>
    \/ pc = "dev" /\ g_mounts = <<RootEntry>>
    \/ pc \in {"py", "run"} /\ g_mounts = <<RootEntry, DevEntry>>
    \/ pc = "run" /\ \E h \in Handles : g_mounts = <<RootEntry, DevEntry, PyEntry(h)>>

(* Where each descriptor stands, and what it reads from.                   *)
PlaceOK(fd) ==
    /\ g_open[fd].ops = "null" => got[fd] = 0
    /\ g_open[fd].ops = "block" =>
          /\ Ctx(fd).dev \in BlockDevices
          /\ g_open[fd].pos = got[fd] /\ got[fd] <= Sectors[Ctx(fd).dev] * SECTOR
    /\ g_open[fd].ops = "pyfs" =>
          /\ Ctx(fd).dev = PyfsDevice
          /\ g_open[fd].pos = got[fd] /\ got[fd] <= SECTOR
          /\ Ctx(fd).link # NULL /\ heap[Ctx(fd).link].dev = "none" => spoilt[fd]

PlacesInv ==
    /\ \A fd \in OpenFds : PlaceOK(fd)
    /\ \A h \in MountOwned : heap[h].dev = PyfsDevice

VfsInv ==
    /\ VfsTypeOK
    /\ MountsInv
    /\ HeapMatchesTables
    /\ PlacesInv
    /\ UnspoiltReadsDeliverFile

-----------------------------------------------------------------------------
(* Induction over the natural numbers, for a set of them.                  *)
LEMMA LeastOf ==
    ASSUME NEW T, T \subseteq Nat, T # {}
    PROVE  \E n \in T : \A m \in T : n <= m
<1> DEFINE R == OpToRel(<, Nat)
<1>1. IsWellFoundedOn(R, Nat)
    BY NatLessThanWellFounded
<1>2. \A x, y \in Nat : y < x => <<y, x>> \in R
    BY DEF OpToRel
<1> HIDE DEF R
<1>3. PICK n \in T : \A m \in T : <<m, n>> \notin R
    BY <1>1, WFMin
<1>4. \A m \in T : ~(m < n)
    BY <1>2, <1>3
<1>5. n \in Nat /\ \A m \in T : m \in Nat
    OBVIOUS
<1> QED BY <1>4, <1>5

LEMMA InductionOn ==
    ASSUME NEW S, S \subseteq Nat, 0 \in S, \A n \in Nat : n \in S => n + 1 \in S
    PROVE  S = Nat
<1> SUFFICES ASSUME Nat \ S # {} PROVE FALSE
    OBVIOUS
<1>1. PICK n \in Nat \ S : \A m \in Nat \ S : n <= m
    BY LeastOf
<1>2. n # 0 /\ n - 1 \in Nat /\ n - 1 \notin Nat \ S
    BY <1>1
<1> QED BY <1>2

(* A loop of N iterations that computes with values of X has a run.        *)
LoopBodies(N, X) == [X \X (1..N) -> X]
IsRun(f, N, X, x0, step) ==
    f \in [0..N -> X] /\ f[0] = x0 /\ \A k \in 1..N : f[k] = step[<<f[k - 1], k>>]

LEMMA LoopRuns ==
    ASSUME NEW N \in Nat, NEW X, NEW x0 \in X, NEW step \in LoopBodies(N, X)
    PROVE  \E f : IsRun(f, N, X, x0, step)
<1> DEFINE P(n) == \E f \in [0..n -> X] : f[0] = x0 /\ \A k \in 1..n : f[k] = step[<<f[k - 1], k>>]
           S == {n \in Nat : n <= N => P(n)}
<1>1. 0 \in S
  <2> DEFINE f == [k \in 0..0 |-> x0]
  <2>1. f \in [0..0 -> X] /\ f[0] = x0 /\ \A k \in 1..0 : FALSE
      OBVIOUS
  <2> HIDE DEF f
  <2>2. P(0)
      BY <2>1
  <2> QED BY <2>2
<1>2. ASSUME NEW n \in S PROVE n + 1 \in S
  <2> SUFFICES ASSUME n + 1 <= N PROVE P(n + 1)
      OBVIOUS
  <2>1. n \in Nat /\ n <= N /\ n + 1 \in 1..N
      OBVIOUS
  <2>7. step \in [X \X (1..N) -> X]
      BY DEF LoopBodies
  <2>2. PICK f \in [0..n -> X] : f[0] = x0 /\ \A k \in 1..n : f[k] = step[<<f[k - 1], k>>]
      BY <2>1
  <2> DEFINE g == [k \in 0..(n + 1) |-> IF k = n + 1 THEN step[<<f[n], n + 1>>] ELSE f[k]]
  <2>3. step[<<f[n], n + 1>>] \in X
      BY <2>7, <2>1
  <2>4. g \in [0..(n + 1) -> X]
      BY <2>1, <2>3
  <2>5. g[0] = x0
      BY <2>1, <2>2
  <2>6. ASSUME NEW k \in 1..(n + 1) PROVE g[k] = step[<<g[k - 1], k>>]
    <3>1. k - 1 \in 0..n /\ g[k - 1] = f[k - 1]
        BY <2>1
    <3>2. CASE k = n + 1
      <4>1. k - 1 = n /\ g[n + 1] = step[<<f[n], n + 1>>]
          BY <2>1, <3>2
      <4> QED BY <3>1, <3>2, <4>1
    <3>3. CASE k # n + 1
        BY <2>1, <2>2, <3>1, <3>3
    <3> QED BY <3>2, <3>3
  <2> HIDE DEF g
  <2> QED BY <2>4, <2>5, <2>6
<1> HIDE DEF P
<1>3. S = Nat
    BY <1>1, <1>2, InductionOn
<1>4. P(N)
    BY <1>3
<1> QED BY <1>4 DEF P, IsRun

(* A loop that keeps a value or takes its index stays in range.            *)
LEMMA LoopInRange ==
    ASSUME NEW N \in Nat, NEW best, best[0] = 0, \A k \in 1..N : best[k] \in {k, best[k - 1]}
    PROVE  \A n \in 0..N : best[n] \in 0..n
<1> DEFINE S == {n \in Nat : n <= N => best[n] \in 0..n}
<1>1. 0 \in S
    OBVIOUS
<1>2. ASSUME NEW n \in S PROVE n + 1 \in S
  <2> SUFFICES ASSUME n + 1 <= N PROVE best[n + 1] \in 0..(n + 1)
      OBVIOUS
  <2>1. n \in Nat /\ n + 1 \in 1..N /\ (n + 1) - 1 = n /\ best[n] \in 0..n
      OBVIOUS
  <2>2. best[n + 1] \in {n + 1, best[n]}
      BY <2>1
  <2> QED BY <2>1, <2>2
<1>3. S = Nat
    BY <1>1, <1>2, InductionOn
<1> QED BY <1>3

(* A loop that keeps the longest of those that are ok, 0 for none.         *)
LEMMA LongestKept ==
    ASSUME NEW N \in Nat, NEW ok, NEW len \in [1..N -> Nat \ {0}], NEW best, best[0] = 0,
           \A k \in 1..N : best[k] = IF /\ k \in ok
                                        /\ len[k] > (IF best[k - 1] = 0 THEN 0 ELSE len[best[k - 1]])
                                     THEN k ELSE best[k - 1]
    PROVE  /\ best[N] \in 0..N
           /\ best[N] = 0 => \A k \in 1..N : k \notin ok
           /\ best[N] # 0 => best[N] \in ok /\ \A k \in 1..N : k \in ok => len[k] <= len[best[N]]
<1> DEFINE P(n) == /\ best[n] \in 0..n
                   /\ best[n] = 0 => \A k \in 1..n : k \notin ok
                   /\ best[n] # 0 => best[n] \in ok /\ \A k \in 1..n : k \in ok => len[k] <= len[best[n]]
           S == {n \in Nat : n <= N => P(n)}
<1>1. 0 \in S
  <2>1. P(0)
      OBVIOUS
  <2> QED BY <2>1
<1>2. ASSUME NEW n \in S PROVE n + 1 \in S
  <2> SUFFICES ASSUME n + 1 <= N PROVE P(n + 1)
      OBVIOUS
  <2>1. n \in Nat /\ n <= N /\ n + 1 \in 1..N /\ (n + 1) - 1 = n /\ P(n)
      OBVIOUS
  <2>2. 1..(n + 1) = (1..n) \cup {n + 1} /\ 1..n \subseteq 1..N /\ 0..n \subseteq 0..(n + 1)
      BY <2>1
  <2>3. best[n + 1] = IF n + 1 \in ok /\ len[n + 1] > (IF best[n] = 0 THEN 0 ELSE len[best[n]])
                      THEN n + 1 ELSE best[n]
      BY <2>1
  <2>4. len[n + 1] \in Nat /\ len[n + 1] > 0 /\ \A k \in 1..n : len[k] \in Nat
      BY <2>1, <2>2
  <2>5. best[n] # 0 => best[n] \in 1..n
      BY <2>1
  <2>6. CASE best[n + 1] = n + 1 /\ n + 1 \in ok
                /\ len[n + 1] > (IF best[n] = 0 THEN 0 ELSE len[best[n]])
    <3>1. \A k \in 1..n : k \in ok => len[k] <= len[n + 1]
        BY <2>1, <2>4, <2>5, <2>6
    <3> QED BY <2>1, <2>2, <2>4, <2>6, <3>1
  <2>7. CASE best[n + 1] = best[n]
                /\ ~(n + 1 \in ok /\ len[n + 1] > (IF best[n] = 0 THEN 0 ELSE len[best[n]]))
    <3>1. best[n] = 0 => n + 1 \notin ok
        BY <2>4, <2>7
    <3>2. best[n] # 0 /\ n + 1 \in ok => len[n + 1] <= len[best[n]]
        BY <2>4, <2>5, <2>7
    <3> QED BY <2>1, <2>2, <2>7, <3>1, <3>2
  <2> QED BY <2>3, <2>6, <2>7
<1> HIDE DEF P
<1>3. S = Nat
    BY <1>1, <1>2, InductionOn
<1>4. P(N)
    BY <1>3
<1> QED BY <1>4 DEF P

-----------------------------------------------------------------------------
(* Mount tables: every mount point is absolute, so not empty.              *)
Chars == STRING \cup {"/", "d", "p"}
AbsolutePaths == {m \in Seq(Chars) : Absolute(m)}
MountEntries == [mountpoint : AbsolutePaths, fs : {"nullfs", "devfs", "pyfs", "fs"},
                 ctx : Handles \cup {NULL, "ctx"}]
MountTables == Seq(MountEntries)

LEMMA MountTableLength ==
    ASSUME NEW table \in MountTables
    PROVE  /\ Len(table) \in Nat /\ DOMAIN table = 1..Len(table)
           /\ \A k \in 1..Len(table) : /\ table[k].mountpoint \in Seq(Chars)
                                       /\ Absolute(table[k].mountpoint)
                                       /\ Len(table[k].mountpoint) \in Nat \ {0}
<1>1. \A m \in AbsolutePaths : m \in Seq(Chars) /\ Absolute(m) /\ Len(m) \in Nat \ {0}
    BY DEF AbsolutePaths, Absolute
<1>2. \A k \in 1..Len(table) : table[k].mountpoint \in AbsolutePaths
  <2>1. \A k \in 1..Len(table) : table[k] \in MountEntries
      BY DEF MountTables
  <2> QED BY <2>1 DEF MountEntries
<1> QED BY <1>1, <1>2 DEF MountTables

(* vfs_find_mount finds a longest match.                                   *)
LEMMA SearchFinds ==
    ASSUME NEW table \in MountTables, NEW path, Absolute(path)
    PROVE  LET m == FindMount(table, path)
           IN  /\ m \in 0..Len(table)
               /\ m = 0 => \A k \in DOMAIN table : ~Matches(table[k].mountpoint, path)
               /\ m # 0 => /\ Matches(table[m].mountpoint, path)
                           /\ \A k \in DOMAIN table : Matches(table[k].mountpoint, path) =>
                                 Len(table[k].mountpoint) <= Len(table[m].mountpoint)
<1> DEFINE N == Len(table)
           ok == {k \in 1..N : Matches(table[k].mountpoint, path)}
           len == [k \in 1..N |-> Len(table[k].mountpoint)]
           R(b) == b = [i \in 0..N |->
                          IF i = 0 THEN 0
                          ELSE LET best_len == IF b[i - 1] = 0 THEN 0
                                               ELSE Len(table[b[i - 1]].mountpoint)
                               IN  IF /\ Matches(table[i].mountpoint, path)
                                      /\ Len(table[i].mountpoint) > best_len
                                   THEN i ELSE b[i - 1]]
           best == CHOOSE b : R(b)
           pick(p) == IF /\ p[2] \in ok
                         /\ len[p[2]] > (IF p[1] = 0 THEN 0 ELSE len[p[1]])
                      THEN p[2] ELSE p[1]
           step == [p \in (0..N) \X (1..N) |-> pick(p)]
<1>1. FindMount(table, path) = best[N]
    BY Zenon DEF FindMount
<1>2. N \in Nat /\ DOMAIN table = 1..N /\ len \in [1..N -> Nat \ {0}]
    BY MountTableLength
<1>3. R(best)
  <2>1. step \in [(0..N) \X (1..N) -> 0..N]
    <3>1. \A p \in (0..N) \X (1..N) : pick(p) \in 0..N
        BY <1>2
    <3> QED BY <3>1
  <2>2. 0 \in 0..N
      BY <1>2
  <2>6. N \in Nat
      BY <1>2
  <2> HIDE DEF step, N
  <2>3. PICK f \in [0..N -> 0..N] : f[0] = 0 /\ \A k \in 1..N : f[k] = step[<<f[k - 1], k>>]
    <3> DEFINE X == 0..N  x0 == 0
    <3>1. x0 \in X /\ step \in LoopBodies(N, X)
        BY <2>1, <2>2 DEF LoopBodies
    <3> HIDE DEF X, x0
    <3>2. \E f : IsRun(f, N, X, x0, step)
        BY <2>6, <3>1, LoopRuns
    <3> QED BY <3>2 DEF X, x0, IsRun
  <2>4. \A k \in 1..N : /\ f[k - 1] \in 0..N
                        /\ f[k] = IF k \in ok /\ len[k] > (IF f[k - 1] = 0 THEN 0 ELSE len[f[k - 1]])
                                  THEN k ELSE f[k - 1]
    <3> SUFFICES ASSUME NEW k \in 1..N
                 PROVE  /\ f[k - 1] \in 0..N
                        /\ f[k] = IF k \in ok /\ len[k] > (IF f[k - 1] = 0 THEN 0 ELSE len[f[k - 1]])
                                  THEN k ELSE f[k - 1]
        OBVIOUS
    <3>1. k - 1 \in 0..N
        BY <1>2
    <3>2. <<f[k - 1], k>> \in (0..N) \X (1..N)
        BY <3>1
    <3>3. step[<<f[k - 1], k>>] = pick(<<f[k - 1], k>>)
        BY <3>2 DEF step
    <3> QED BY <2>3, <3>1, <3>3
  <2>5. R(f)
    <3>1. \A k \in 1..N : f[k - 1] # 0 => len[f[k - 1]] = Len(table[f[k - 1]].mountpoint)
        BY <2>4
    <3>2. \A k \in 1..N : len[k] = Len(table[k].mountpoint)
                           /\ (k \in ok <=> Matches(table[k].mountpoint, path))
        OBVIOUS
    <3>3. 0..N = {0} \cup 1..N /\ 0 \notin 1..N
        BY <2>6
    <3> HIDE DEF len, ok
    <3> QED BY <2>3, <2>4, <3>1, <3>2, <3>3
  <2> HIDE DEF R
  <2> QED BY <2>5
<1>4. /\ best[0] = 0
      /\ \A k \in 1..N : best[k] = IF /\ Matches(table[k].mountpoint, path)
                                      /\ len[k] > (IF best[k - 1] = 0 THEN 0
                                                   ELSE Len(table[best[k - 1]].mountpoint))
                                   THEN k ELSE best[k - 1]
  <2>1. N \in Nat
      BY <1>2
  <2> HIDE DEF best, N
  <2>2. best[0] = 0
      BY <1>3, <2>1
  <2>3. ASSUME NEW k \in 1..N
        PROVE  best[k] = IF /\ Matches(table[k].mountpoint, path)
                            /\ len[k] > (IF best[k - 1] = 0 THEN 0
                                         ELSE Len(table[best[k - 1]].mountpoint))
                         THEN k ELSE best[k - 1]
    <3>1. k \in 0..N /\ k # 0 /\ len[k] = Len(table[k].mountpoint)
        BY <2>1
    <3> HIDE DEF len, ok
    <3> QED BY <1>3, <3>1
  <2> QED BY <2>2, <2>3
<1>5. \A n \in 0..N : best[n] \in 0..n
    BY <1>2, <1>4, LoopInRange
<1>6. \A k \in 1..N : best[k] = IF k \in ok /\ len[k] > (IF best[k - 1] = 0 THEN 0 ELSE len[best[k - 1]])
                               THEN k ELSE best[k - 1]
  <2> SUFFICES ASSUME NEW k \in 1..N
               PROVE  best[k] = IF k \in ok /\ len[k] > (IF best[k - 1] = 0 THEN 0 ELSE len[best[k - 1]])
                                THEN k ELSE best[k - 1]
      OBVIOUS
  <2>1. k - 1 \in 0..N /\ best[k - 1] \in 0..(k - 1)
      BY <1>2, <1>5
  <2>2. best[k - 1] # 0 => len[best[k - 1]] = Len(table[best[k - 1]].mountpoint)
    <3>1. best[k - 1] # 0 => best[k - 1] \in 1..N
      <4> HIDE DEF best
      <4> QED BY <1>2, <2>1
    <3> HIDE DEF best
    <3> QED BY <3>1
  <2>3. k \in ok <=> Matches(table[k].mountpoint, path)
      OBVIOUS
  <2> HIDE DEF best, ok, len
  <2> QED BY <1>4, <2>2, <2>3
<1>7. /\ best[N] \in 0..N
      /\ best[N] = 0 => \A k \in 1..N : k \notin ok
      /\ best[N] # 0 => best[N] \in ok /\ \A k \in 1..N : k \in ok => len[k] <= len[best[N]]
  <2> HIDE DEF best, ok, len, N
  <2> QED BY <1>2, <1>4, <1>6, LongestKept
<1> HIDE DEF best
<1> QED BY <1>1, <1>2, <1>7

(* vfs_mount keeps the table one of absolute mount points.                 *)
LEMMA MountKeeps ==
    ASSUME NEW table \in MountTables, NEW m \in Seq(Chars)
    PROVE  WithMount(table, m, "fs", "ctx") \in MountTables
<1>1. CASE MountRefused(table, m)
    BY <1>1 DEF WithMount
<1>2. CASE ~MountRefused(table, m)
  <2>1. m \in AbsolutePaths
      BY <1>2 DEF MountRefused, AbsolutePaths
  <2>2. [mountpoint |-> m, fs |-> "fs", ctx |-> "ctx"] \in MountEntries
      BY <2>1 DEF MountEntries
  <2> QED BY <1>2, <2>2 DEF WithMount, MountTables
<1> QED BY <1>1, <1>2

LEMMA CallsKeep ==
    ASSUME NEW start \in MountTables, NEW calls \in Seq(Seq(Chars))
    PROVE  TableAfter(start, calls) \in MountTables
<1> DEFINE N == Len(calls)
           R(t) == t = [n \in 0..N |-> IF n = 0 THEN start ELSE WithMount(t[n - 1], calls[n], "fs", "ctx")]
           table == CHOOSE t : R(t)
           step == [p \in MountTables \X (1..N) |-> WithMount(p[1], calls[p[2]], "fs", "ctx")]
<1>1. TableAfter(start, calls) = table[N]
    BY Zenon DEF TableAfter
<1>2. N \in Nat /\ \A k \in 1..N : calls[k] \in Seq(Chars)
    OBVIOUS
<1>3. step \in LoopBodies(N, MountTables)
  <2>1. \A p \in MountTables \X (1..N) : WithMount(p[1], calls[p[2]], "fs", "ctx") \in MountTables
      BY <1>2, MountKeeps
  <2> QED BY <2>1 DEF LoopBodies
<1> HIDE DEF N
<1>4. R(table)
  <2>1. PICK f : IsRun(f, N, MountTables, start, step)
    <3> HIDE DEF step
    <3> QED BY <1>2, <1>3, LoopRuns
  <2>2. f \in [0..N -> MountTables] /\ f[0] = start
      BY <2>1 DEF IsRun
  <2>3. \A k \in 1..N : f[k] = WithMount(f[k - 1], calls[k], "fs", "ctx")
    <3> SUFFICES ASSUME NEW k \in 1..N PROVE f[k] = WithMount(f[k - 1], calls[k], "fs", "ctx")
        OBVIOUS
    <3>1. <<f[k - 1], k>> \in MountTables \X (1..N)
        BY <1>2, <2>2
    <3>2. f[k] = step[<<f[k - 1], k>>]
        BY <2>1 DEF IsRun
    <3> QED BY <3>1, <3>2
  <2>4. 0..N = {0} \cup 1..N /\ 0 \notin 1..N
      BY <1>2
  <2>5. R(f)
      BY <2>2, <2>3, <2>4
  <2> HIDE DEF R
  <2> QED BY <2>5
<1> DEFINE S == {n \in Nat : n <= N => table[n] \in MountTables}
<1>5. 0 \in S
  <2> HIDE DEF table
  <2>1. table[0] = start
      BY <1>2, <1>4
  <2> QED BY <2>1
<1>6. ASSUME NEW n \in S PROVE n + 1 \in S
  <2> SUFFICES ASSUME n + 1 <= N PROVE table[n + 1] \in MountTables
      OBVIOUS
  <2>1. n \in Nat /\ n + 1 \in 1..N /\ n + 1 \in 0..N /\ (n + 1) - 1 = n /\ n + 1 # 0
        /\ table[n] \in MountTables
      BY <1>2
  <2> HIDE DEF table
  <2>2. table[n + 1] = WithMount(table[n], calls[n + 1], "fs", "ctx")
      BY <1>4, <2>1
  <2> QED BY <1>2, <2>1, <2>2, MountKeeps
<1>7. S = Nat
    BY <1>5, <1>6, InductionOn
<1>8. table[N] \in MountTables
    BY <1>2, <1>7
<1> QED BY <1>1, <1>8

(* A mount point matches a path if it is a directory on the way to it.     *)
LEMMA MatchesIsAbove ==
    ASSUME NEW m \in Seq(Chars), Absolute(m), NEW path \in Seq(Chars), Absolute(path)
    PROVE  Matches(m, path) <=> m \in Above(path)
<1>1. CASE m = Root
    BY <1>1 DEF Matches, Above
<1>2. CASE m # Root
  <2>1. Len(m) \in Nat \ {0} /\ Len(path) \in Nat
      BY DEF Absolute
  <2>2. ASSUME Matches(m, path) PROVE m \in Above(path)
    <3>1. /\ Len(m) <= Len(path) /\ SubSeq(path, 1, Len(m)) = m
          /\ Len(path) > Len(m) => path[Len(m) + 1] = "/"
        BY <1>2, <2>2 DEF Matches
    <3>2. Len(m) \in 1..Len(path) /\ (Len(m) = Len(path) \/ path[Len(m) + 1] = "/")
        BY <2>1, <3>1
    <3> QED BY <3>1, <3>2 DEF Above
  <2>3. ASSUME m \in Above(path) PROVE Matches(m, path)
    <3>1. PICK n \in 1..Len(path) : (n = Len(path) \/ path[n + 1] = "/") /\ m = SubSeq(path, 1, n)
        BY <1>2, <2>3 DEF Above
    <3>2. Len(m) = n
        BY <2>1, <3>1
    <3> QED BY <1>2, <2>1, <3>1, <3>2 DEF Matches
  <2> QED BY <2>2, <2>3
<1> QED BY <1>1, <1>2

LEMMA SearchIsNearest ==
    ASSUME NEW table \in MountTables, NEW path \in Seq(Chars), Absolute(path)
    PROVE  IsNearest(table, path)
<1> DEFINE m == FindMount(table, path)
<1>1. /\ m \in 0..Len(table) /\ DOMAIN table = 1..Len(table) /\ Len(table) \in Nat
      /\ m = 0 => \A k \in DOMAIN table : ~Matches(table[k].mountpoint, path)
      /\ m # 0 => /\ Matches(table[m].mountpoint, path)
                  /\ \A k \in DOMAIN table : Matches(table[k].mountpoint, path) =>
                        Len(table[k].mountpoint) <= Len(table[m].mountpoint)
    BY SearchFinds, MountTableLength
<1>2. \A k \in DOMAIN table : Matches(table[k].mountpoint, path) <=> table[k].mountpoint \in Above(path)
    BY <1>1, MountTableLength, MatchesIsAbove
<1>3. m # 0 => m \in DOMAIN table
    BY <1>1
<1> HIDE DEF m
<1>4. IF {k \in DOMAIN table : table[k].mountpoint \in Above(path)} = {} THEN m = 0
      ELSE /\ m \in {k \in DOMAIN table : table[k].mountpoint \in Above(path)}
           /\ \A k \in {j \in DOMAIN table : table[j].mountpoint \in Above(path)} :
                 Len(table[k].mountpoint) <= Len(table[m].mountpoint)
    BY <1>1, <1>2, <1>3
<1> QED BY <1>4 DEF IsNearest, m

(* Nothing of a path is lost between the mount point and what follows.     *)
LosesNothing(table, path) ==
    LET best == FindMount(table, path)
        mountpoint == table[best].mountpoint
        rel == Relative(mountpoint, path)
    IN  \/ best = 0
        \/ mountpoint = Root /\ path = Root \o rel
        \/ mountpoint # Root /\ path \in {mountpoint, mountpoint \o <<"/">> \o rel}

LEMMA SearchLosesNothing ==
    ASSUME NEW table \in MountTables, NEW path \in Seq(Chars)
    PROVE  LosesNothing(table, path)
<1>1. CASE ~Absolute(path)
    BY <1>1 DEF LosesNothing, FindMount
<1>2. CASE Absolute(path)
  <2> DEFINE b == FindMount(table, path)  m == table[b].mountpoint  rel == Relative(m, path)
  <2> SUFFICES ASSUME b # 0
               PROVE  \/ m = Root /\ path = Root \o rel
                      \/ m # Root /\ path \in {m, m \o <<"/">> \o rel}
      BY DEF LosesNothing
  <2>1. b \in 1..Len(table) /\ Matches(m, path)
      BY <1>2, SearchFinds, MountTableLength
  <2>2. m \in Seq(Chars) /\ Absolute(m) /\ Len(m) \in Nat \ {0} /\ Len(path) \in Nat /\ Len(path) > 0
      BY <1>2, <2>1, MountTableLength DEF Absolute
  <2> HIDE DEF m
  <2>3. CASE m = Root
    <3>1. rel = SubSeq(path, 2, Len(path)) /\ path[1] = "/"
        BY <1>2, <2>3 DEF Relative, Root, Absolute
    <3>2. path = Root \o SubSeq(path, 2, Len(path))
        BY <2>2, <3>1 DEF Root
    <3> QED BY <2>3, <3>1, <3>2
  <2>4. CASE m # Root
    <3>1. /\ Len(m) <= Len(path) /\ SubSeq(path, 1, Len(m)) = m
          /\ Len(path) > Len(m) => path[Len(m) + 1] = "/"
        BY <2>1, <2>4 DEF Matches
    <3>2. CASE Len(path) = Len(m)
      <4>1. path = m
          BY <2>2, <3>1, <3>2
      <4> QED BY <2>4, <4>1
    <3>3. CASE Len(path) > Len(m)
      <4> DEFINE rest == SubSeq(path, Len(m) + 1, Len(path))
      <4>1. rest \in Seq(Chars) /\ Len(rest) = Len(path) - Len(m) /\ rest[1] = "/" /\ rest # << >>
            /\ \A k \in 1..Len(rest) : rest[k] = path[Len(m) + k]
        <5>1. rest \in Seq(Chars) /\ Len(rest) = Len(path) - Len(m)
            BY <2>2, <3>1, <3>3
        <5>2. \A k \in 1..Len(rest) : rest[k] = path[Len(m) + k]
            BY <2>2, <3>1, <3>3, <5>1
        <5> HIDE DEF rest
        <5>3. 1 \in 1..Len(rest) /\ rest # << >>
            BY <2>2, <3>3, <5>1
        <5> QED BY <3>1, <3>3, <5>1, <5>2, <5>3
      <4>2. rel = Tail(rest)
          BY <2>4, <4>1 DEF Relative
      <4> HIDE DEF rest, rel
      <4>3. /\ rel \in Seq(Chars) /\ Len(rel) = Len(rest) - 1
            /\ \A k \in 1..Len(rel) : rel[k] = rest[k + 1]
          BY <4>1, <4>2
      <4>4. \A k \in 1..Len(m) : m[k] = path[k]
          BY <2>2, <3>1
      <4> DEFINE whole == m \o <<"/">> \o rel
      <4>5. whole \in Seq(Chars) /\ Len(whole) = Len(m) + 1 + Len(rel)
        <5> DEFINE slash == <<"/">>  dir == m \o slash
        <5>1. slash \in Seq(Chars) /\ Len(slash) = 1
          <6>1. "/" \in Chars
              BY DEF Chars
          <6> QED BY <6>1
        <5> HIDE DEF slash
        <5>2. dir \in Seq(Chars)
            BY <2>2, <5>1, ConcatProperties, Zenon
        <5>3. Len(dir) = Len(m) + Len(slash)
            BY <2>2, <5>1, ConcatProperties, Zenon
        <5>4. whole = dir \o rel
            BY DEF slash
        <5> HIDE DEF dir, whole
        <5>5. dir \o rel \in Seq(Chars)
            BY <4>3, <5>2, ConcatProperties, Zenon
        <5>6. Len(dir \o rel) = Len(dir) + Len(rel)
            BY <4>3, <5>2, ConcatProperties, Zenon
        <5> QED BY <5>1, <5>3, <5>4, <5>5, <5>6
      <4>6. \A k \in 1..Len(whole) : whole[k] = IF k <= Len(m) THEN m[k]
                                                ELSE IF k = Len(m) + 1 THEN "/" ELSE rel[k - Len(m) - 1]
          BY <2>2, <4>3, <4>5
      <4> HIDE DEF whole
      <4>7. Len(whole) = Len(path)
          BY <2>2, <3>3, <4>1, <4>3, <4>5
      <4>8. ASSUME NEW k \in 1..Len(path) PROVE whole[k] = path[k]
        <5>1. CASE k <= Len(m)
            BY <2>2, <4>4, <4>6, <4>7, <5>1
        <5>2. CASE k = Len(m) + 1
            BY <2>2, <3>1, <3>3, <4>6, <4>7, <5>2
        <5>3. CASE k > Len(m) + 1
          <6>1. k - Len(m) - 1 \in 1..Len(rel) /\ k - Len(m) \in 1..Len(rest) /\ k \in Nat
                /\ (k - Len(m) - 1) + 1 = k - Len(m) /\ Len(m) + (k - Len(m)) = k
              BY <2>2, <4>1, <4>3, <5>3
          <6>2. whole[k] = rel[k - Len(m) - 1]
              BY <2>2, <4>6, <4>7, <5>3
          <6>3. rel[k - Len(m) - 1] = rest[k - Len(m)] /\ rest[k - Len(m)] = path[k]
              BY <4>1, <4>3, <6>1
          <6> QED BY <6>2, <6>3
        <5> QED BY <2>2, <5>1, <5>2, <5>3
      <4>9. path = whole
          BY <4>5, <4>7, <4>8, SeqEqual
      <4> QED BY <2>4, <4>9 DEF whole
    <3> QED BY <2>2, <3>1, <3>2, <3>3
  <2> QED BY <2>3, <2>4
<1> QED BY <1>1, <1>2

(* A path without doubled slashes leaves no slash at the head of the       *)
(* relative path.                                                          *)
LEMMA NoLeadingSlash ==
    ASSUME NEW m \in Seq(Chars), Absolute(m), NEW path \in Seq(Chars), Absolute(path),
           Matches(m, path), ~DoubledSlash(path)
    PROVE  ~Absolute(Relative(m, path))
<1> DEFINE rest == SubSeq(path, Len(m) + 1, Len(path))  rel == Relative(m, path)
<1> SUFFICES ASSUME Absolute(rel) PROVE FALSE
    OBVIOUS
<1>1. Len(m) \in Nat \ {0} /\ Len(path) \in Nat /\ path[1] = "/" /\ Len(path) > 0
    BY DEF Absolute
<1>2. rest \in Seq(Chars) /\ \A k \in 1 .. Len(rest) : rest[k] = path[Len(m) + k]
    BY <1>1
<1>3. Len(rest) = IF Len(m) < Len(path) THEN Len(path) - Len(m) ELSE 0
    BY <1>1
<1>4. CASE m = Root
  <2>1. rel = rest /\ Len(m) = 1
      BY <1>4 DEF Relative, Root
  <2> HIDE DEF rest
  <2>2. Len(rest) >= 1 /\ rest[1] = "/"
      BY <1>2, <2>1 DEF Absolute
  <2>3. Len(path) >= 2 /\ path[2] = "/"
      BY <1>1, <1>2, <1>3, <2>1, <2>2
  <2> QED BY <1>1, <2>3 DEF DoubledSlash
<1>5. CASE m # Root
  <2>1. rest # << >> => rest[1] = "/"
    <3>1. Len(path) > Len(m) => path[Len(m) + 1] = "/"
        BY <1>5 DEF Matches
    <3> HIDE DEF rest
    <3> QED BY <1>1, <1>2, <1>3, <3>1
  <2>2. CASE rest = << >>
    <3>1. rel = << >>
        BY <1>5, <2>2 DEF Relative
    <3> QED BY <3>1 DEF Absolute
  <2>3. CASE rest # << >>
    <3>1. rel = Tail(rest)
        BY <1>5, <2>1, <2>3 DEF Relative
    <3> HIDE DEF rest, rel
    <3>2. Len(rest) >= 2 /\ rest[2] = "/"
        BY <1>2, <2>3, <3>1 DEF Absolute
    <3>3. /\ Len(m) + 2 \in 2 .. Len(path)
          /\ path[Len(m) + 2] = "/" /\ path[(Len(m) + 2) - 1] = "/"
        BY <1>1, <1>2, <1>3, <2>1, <2>3, <3>2
    <3> QED BY <3>3 DEF DoubledSlash
  <2> QED BY <2>2, <2>3
<1> QED BY <1>4, <1>5

LEMMA SearchIsSplit ==
    ASSUME NEW table \in MountTables, NEW path \in Seq(Chars), ~DoubledSlash(path)
    PROVE  IsSplit(table, path)
<1> DEFINE b == FindMount(table, path)  m == table[b].mountpoint
<1>1. CASE b = 0
    BY <1>1 DEF IsSplit
<1>2. CASE b # 0
  <2>1. Absolute(path)
      BY <1>2 DEF FindMount
  <2>2. b \in 1..Len(table) /\ Matches(m, path)
      BY <1>2, <2>1, SearchFinds, MountTableLength
  <2>3. m \in Seq(Chars) /\ Absolute(m)
      BY <2>2, MountTableLength
  <2>4. ~Absolute(Relative(m, path))
    <3> HIDE DEF m
    <3> QED BY <2>1, <2>2, <2>3, NoLeadingSlash
  <2> QED BY <1>2, <2>4, SearchLosesNothing DEF LosesNothing, IsSplit
<1> QED BY <1>1, <1>2

-----------------------------------------------------------------------------
(* The objects of a descriptor, none when it is closed.                    *)
Objs(fd) == IF fd \in OpenFds THEN Owned(fd) ELSE {}

LEMMA NullIsNone == NULL \notin Handles
BY VfsAssumption

(* What is open points to what is allocated.                               *)
LEMMA OpenObjects ==
    ASSUME VfsTypeOK, HeapMatchesTables, NEW fd \in OpenFds
    PROVE  /\ fd \in Fds /\ g_open[fd].ctx \in Allocated /\ Ctx(fd) \in Objects
           /\ Ctx(fd) = heap[g_open[fd].ctx] /\ Owned(fd) \subseteq Allocated
           /\ Ctx(fd).link # NULL => Ctx(fd).link \in Allocated /\ heap[Ctx(fd).link] \in Objects
<1>1. Owned(fd) \subseteq Allocated
    BY DEF HeapMatchesTables
<1>2. fd \in Fds /\ g_open[fd].ctx \in Allocated
    BY <1>1 DEF OpenFds, Owned
<1>3. Ctx(fd).link # NULL => Ctx(fd).link \in Allocated
    BY <1>1 DEF Owned
<1> QED BY <1>1, <1>2, <1>3 DEF Ctx, VfsTypeOK

(* A step that touches the objects of one descriptor only: they are        *)
(* replaced by `new', which no one else has.                               *)
LEMMA OneDescriptor ==
    ASSUME VfsTypeOK, HeapMatchesTables, NEW fd \in Fds, NEW new,
           UNCHANGED g_mounts,
           \A o \in Fds \ {fd} : g_open'[o] = g_open[o],
           new \cap (Allocated \ Objs(fd)) = {},
           Allocated' = (Allocated \ Objs(fd)) \cup new,
           \A k \in Allocated \ Objs(fd) : heap'[k] = heap[k],
           g_open'[fd].ops = "none" => new = {},
           g_open'[fd].ops # "none" =>
                /\ Owned(fd)' = new
                /\ Ctx(fd)'.kind = IF g_open'[fd].ops = "pyfs" THEN "pyctx" ELSE "devctx"
                /\ Ctx(fd)'.link # NULL => heap'[Ctx(fd)'.link].kind = "cache"
    PROVE  /\ HeapMatchesTables'
           /\ MountOwned' = MountOwned /\ \A h \in MountOwned : heap'[h] = heap[h] /\ h \in Allocated'
           /\ \A o \in OpenFds' \ {fd} :
                 /\ o \in OpenFds /\ Ctx(o)' = Ctx(o)
                 /\ Ctx(o).link # NULL => heap'[Ctx(o).link] = heap[Ctx(o).link]
<1>1. MountOwned' = MountOwned
    BY DEF MountOwned
<1>2. \A o \in Fds \ {fd} : o \in OpenFds' <=> o \in OpenFds
    BY DEF OpenFds
<1>3. MountOwned \cap Objs(fd) = {} /\ MountOwned \subseteq Allocated
    BY DEF HeapMatchesTables, Objs
<1>4. \A h \in MountOwned : heap'[h] = heap[h] /\ h \in Allocated'
    BY <1>3
<1>5. ASSUME NEW o \in OpenFds \ {fd}
      PROVE  /\ Owned(o) \subseteq Allocated \ Objs(fd) /\ Ctx(o)' = Ctx(o) /\ Owned(o)' = Owned(o)
             /\ Ctx(o).link # NULL => heap'[Ctx(o).link] = heap[Ctx(o).link]
  <2>1. Owned(o) \subseteq Allocated
      BY DEF HeapMatchesTables
  <2>2. Owned(o) \cap Objs(fd) = {}
      BY DEF HeapMatchesTables, Objs
  <2>3. o \in Fds \ {fd} /\ g_open'[o] = g_open[o]
      BY DEF OpenFds
  <2>4. g_open[o].ctx \in Allocated \ Objs(fd)
      BY <2>1, <2>2 DEF Owned
  <2>5. Ctx(o)' = Ctx(o)
      BY <2>3, <2>4 DEF Ctx
  <2>6. Owned(o)' = Owned(o)
      BY <2>3, <2>5 DEF Owned
  <2>7. Ctx(o).link # NULL => Ctx(o).link \in Allocated \ Objs(fd)
      BY <2>1, <2>2 DEF Owned
  <2> QED BY <2>1, <2>2, <2>5, <2>6, <2>7
<1>6. OpenFds \subseteq Fds /\ OpenFds' \subseteq Fds /\ (fd \in OpenFds' <=> g_open'[fd].ops # "none")
    BY DEF OpenFds
<1>7. Allocated \ Objs(fd) = MountOwned \cup UNION {Owned(o) : o \in OpenFds \ {fd}}
  <2>1. Allocated = MountOwned \cup UNION {Owned(o) : o \in OpenFds}
      BY DEF HeapMatchesTables
  <2>2. \A o \in OpenFds \ {fd} : Owned(o) \cap Objs(fd) = {}
      BY <1>5
  <2>3. CASE fd \in OpenFds
    <3>1. UNION {Owned(o) : o \in OpenFds} = Owned(fd) \cup UNION {Owned(o) : o \in OpenFds \ {fd}}
        BY <2>3
    <3> QED BY <1>3, <2>1, <2>2, <2>3, <3>1 DEF Objs
  <2>4. CASE fd \notin OpenFds
      BY <2>1, <2>4 DEF Objs
  <2> QED BY <2>3, <2>4
<1>8. /\ OpenFds' \ {fd} = OpenFds \ {fd}
      /\ UNION {Owned(o)' : o \in OpenFds' \ {fd}} = UNION {Owned(o) : o \in OpenFds \ {fd}}
  <2>1. OpenFds' \ {fd} = OpenFds \ {fd}
      BY <1>2, <1>6
  <2> QED BY <1>5, <2>1
<1>9. Allocated' = (MountOwned \cup UNION {Owned(o) : o \in OpenFds})'
  <2>1. CASE fd \in OpenFds'
    <3>1. UNION {Owned(o)' : o \in OpenFds'} = new \cup UNION {Owned(o)' : o \in OpenFds' \ {fd}}
        BY <1>6, <2>1
    <3> QED BY <1>1, <1>7, <1>8, <3>1
  <2>2. CASE fd \notin OpenFds'
      BY <1>1, <1>6, <1>7, <1>8, <2>2
  <2> QED BY <2>1, <2>2
<1>10. \A o \in OpenFds' \ {fd} :
          /\ Owned(o)' \cap MountOwned' = {} /\ Owned(o)' \cap new = {}
          /\ \A other \in OpenFds' \ {fd, o} : Owned(o)' \cap Owned(other)' = {}
          /\ Ctx(o)'.kind = IF g_open'[o].ops = "pyfs" THEN "pyctx" ELSE "devctx"
          /\ Ctx(o)'.link # NULL => heap'[Ctx(o)'.link].kind = "cache"
    BY <1>1, <1>5, <1>6, <1>8 DEF HeapMatchesTables
<1>11. new \cap MountOwned = {}
    BY <1>3
<1>12. \A o \in OpenFds' :
          /\ Owned(o)' \cap MountOwned' = {}
          /\ \A other \in OpenFds' \ {o} : Owned(o)' \cap Owned(other)' = {}
          /\ Ctx(o)'.kind = IF g_open'[o].ops = "pyfs" THEN "pyctx" ELSE "devctx"
          /\ Ctx(o)'.link # NULL => heap'[Ctx(o)'.link].kind = "cache"
  <2> SUFFICES ASSUME NEW o \in OpenFds'
               PROVE  /\ Owned(o)' \cap MountOwned' = {}
                      /\ \A other \in OpenFds' \ {o} : Owned(o)' \cap Owned(other)' = {}
                      /\ Ctx(o)'.kind = IF g_open'[o].ops = "pyfs" THEN "pyctx" ELSE "devctx"
                      /\ Ctx(o)'.link # NULL => heap'[Ctx(o)'.link].kind = "cache"
      OBVIOUS
  <2>1. CASE o = fd
      BY <1>1, <1>6, <1>10, <1>11, <2>1
  <2>2. CASE o # fd
    <3>1. \A other \in OpenFds' \ {o} : Owned(o)' \cap Owned(other)' = {}
        BY <1>6, <1>10, <2>2
    <3> QED BY <1>10, <2>2, <3>1
  <2> QED BY <2>1, <2>2
<1>13. \A h \in MountOwned' : heap'[h].kind = "pyfs"
    BY <1>1, <1>4 DEF HeapMatchesTables
<1> HIDE DEF Allocated, MountOwned, Owned, Ctx
<1>14. HeapMatchesTables'
    BY <1>9, <1>12, <1>13 DEF HeapMatchesTables
<1> QED BY <1>1, <1>4, <1>5, <1>8, <1>14
-----------------------------------------------------------------------------
(* The mounts of k_main are accepted, and their table can be searched.     *)
LEMMA Characters ==
    /\ Root \in Seq(Chars) /\ DevMount \in Seq(Chars) /\ PyMount \in Seq(Chars)
    /\ Seq(STRING) \subseteq Seq(Chars) /\ Seq(Seq(STRING)) \subseteq Seq(Seq(Chars))
<1>1. "/" \in Chars /\ "d" \in Chars /\ "p" \in Chars /\ STRING \subseteq Chars
    BY DEF Chars
<1> HIDE DEF Chars
<1>2. Root \in Seq(Chars) /\ DevMount \in Seq(Chars) /\ PyMount \in Seq(Chars)
    BY <1>1 DEF Root, DevMount, PyMount
<1>3. ASSUME NEW A, NEW B, A \subseteq B PROVE Seq(A) \subseteq Seq(B)
    BY <1>3
<1>4. Seq(STRING) \subseteq Seq(Chars)
    BY <1>1, <1>3
<1>5. Seq(Seq(STRING)) \subseteq Seq(Seq(Chars))
    BY <1>3, <1>4, Zenon
<1> QED BY <1>2, <1>4, <1>5

LEMMA StartTables ==
    ASSUME MountsInv
    PROVE  /\ g_mounts \in MountTables
           /\ \A i \in DOMAIN g_mounts : /\ g_mounts[i].fs \in {"nullfs", "devfs", "pyfs"}
                                         /\ g_mounts[i].ctx \in Handles \cup {NULL}
                                         /\ g_mounts[i].fs = "pyfs" <=> g_mounts[i].ctx # NULL
<1>1. Root \in AbsolutePaths /\ DevMount \in AbsolutePaths /\ PyMount \in AbsolutePaths
  <2>1. Absolute(Root) /\ Absolute(DevMount) /\ Absolute(PyMount)
      BY DEF Absolute, Root, DevMount, PyMount
  <2> QED BY <2>1, Characters DEF AbsolutePaths
<1>2. RootEntry \in MountEntries /\ DevEntry \in MountEntries /\ \A h \in Handles : PyEntry(h) \in MountEntries
    BY <1>1 DEF RootEntry, DevEntry, PyEntry, MountEntries
<1>3. /\ RootEntry.fs = "nullfs" /\ RootEntry.ctx = NULL /\ DevEntry.fs = "devfs" /\ DevEntry.ctx = NULL
      /\ \A h \in Handles : PyEntry(h).fs = "pyfs" /\ PyEntry(h).ctx = h /\ h # NULL
    BY NullIsNone DEF RootEntry, DevEntry, PyEntry
<1> HIDE DEF RootEntry, DevEntry, PyEntry, MountEntries
<1>4. CASE g_mounts = << >>
    BY <1>4 DEF MountTables
<1>5. CASE g_mounts = <<RootEntry>>
    BY <1>2, <1>3, <1>5 DEF MountTables
<1>6. CASE g_mounts = <<RootEntry, DevEntry>>
    BY <1>2, <1>3, <1>6 DEF MountTables
<1>7. CASE \E h \in Handles : g_mounts = <<RootEntry, DevEntry, PyEntry(h)>>
    BY <1>2, <1>3, <1>7 DEF MountTables
<1> QED BY <1>4, <1>5, <1>6, <1>7 DEF MountsInv

LEMMA MountsAccepted ==
    /\ WithMount(<< >>, Root, "nullfs", NULL) = <<RootEntry>>
    /\ WithMount(<<RootEntry>>, DevMount, "devfs", NULL) = <<RootEntry, DevEntry>>
    /\ \A h : WithMount(<<RootEntry, DevEntry>>, PyMount, "pyfs", h) = <<RootEntry, DevEntry, PyEntry(h)>>
<1>1. /\ Absolute(Root) /\ Absolute(DevMount) /\ Absolute(PyMount)
      /\ ~TooLong(Root) /\ ~TooLong(DevMount) /\ ~TooLong(PyMount)
    BY VfsAssumption, MountsAssumption DEF Absolute, Root, DevMount, PyMount, TooLong
<1>2. Root # DevMount /\ Root # PyMount /\ DevMount # PyMount
    BY DEF Root, DevMount, PyMount
<1>3. RootEntry.mountpoint = Root /\ DevEntry.mountpoint = DevMount
    BY DEF RootEntry, DevEntry
<1>4. VFS_MAX_MOUNTS \in Nat /\ VFS_MAX_MOUNTS >= 3
    BY VfsAssumption, MountsAssumption
<1>5. ~MountRefused(<< >>, Root)
    BY <1>1, <1>4 DEF MountRefused
<1>6. ~MountRefused(<<RootEntry>>, DevMount)
    BY <1>1, <1>2, <1>3, <1>4 DEF MountRefused
<1>7. ~MountRefused(<<RootEntry, DevEntry>>, PyMount)
    BY <1>1, <1>2, <1>3, <1>4 DEF MountRefused
<1>8. WithMount(<< >>, Root, "nullfs", NULL) = <<RootEntry>>
    BY <1>5 DEF WithMount, RootEntry
<1>9. WithMount(<<RootEntry>>, DevMount, "devfs", NULL) = <<RootEntry, DevEntry>>
  <2>1. ASSUME NEW a, NEW b PROVE Append(<<a>>, b) = <<a, b>>
    <3> DEFINE S == {a, b}  s == Append(<<a>>, b)  t == <<a, b>>
    <3>1. s \in Seq(S) /\ t \in Seq(S) /\ Len(s) = 2 /\ Len(t) = 2
        OBVIOUS
    <3>2. s[1] = t[1] /\ s[2] = t[2]
        OBVIOUS
    <3> HIDE DEF S, s, t
    <3>3. \A i \in 1..Len(s) : s[i] = t[i]
        BY <3>1, <3>2
    <3>4. s = t
        BY <3>1, <3>3, SeqEqual
    <3> QED BY <3>4 DEF s, t
  <2>2. WithMount(<<RootEntry>>, DevMount, "devfs", NULL) = Append(<<RootEntry>>, DevEntry)
      BY <1>6, Zenon DEF WithMount, DevEntry
  <2> QED BY <2>1, <2>2, Zenon
<1>10. ASSUME NEW h PROVE WithMount(<<RootEntry, DevEntry>>, PyMount, "pyfs", h) = <<RootEntry, DevEntry, PyEntry(h)>>
  <2>1. ASSUME NEW a, NEW b, NEW c PROVE Append(<<a, b>>, c) = <<a, b, c>>
    <3> DEFINE S == {a, b, c}  s == Append(<<a, b>>, c)  t == <<a, b, c>>
    <3>1. s \in Seq(S) /\ t \in Seq(S) /\ Len(s) = 3 /\ Len(t) = 3
        OBVIOUS
    <3>2. s[1] = t[1] /\ s[2] = t[2] /\ s[3] = t[3]
        OBVIOUS
    <3> HIDE DEF S, s, t
    <3>3. \A i \in 1..Len(s) : s[i] = t[i]
        BY <3>1, <3>2
    <3>4. s = t
        BY <3>1, <3>3, SeqEqual
    <3> QED BY <3>4 DEF s, t
  <2>2. WithMount(<<RootEntry, DevEntry>>, PyMount, "pyfs", h) = Append(<<RootEntry, DevEntry>>, PyEntry(h))
      BY <1>7, Zenon DEF WithMount, PyEntry
  <2> QED BY <2>1, <2>2, Zenon
<1> QED BY <1>8, <1>9, <1>10

(* PathsFindTheirMount follows from what is mounted.                       *)
LEMMA SearchIsRight ==
    ASSUME MountsInv
    PROVE  PathsFindTheirMount
<1>1. g_mounts \in MountTables
    BY StartTables
<1>2. ASSUME NEW calls \in MountCalls, NEW path \in SearchPaths
      PROVE  /\ Absolute(path) => IsNearest(TableAfter(g_mounts, calls), path)
             /\ ~DoubledSlash(path) => IsSplit(TableAfter(g_mounts, calls), path)
  <2>1. calls \in Seq(Seq(Chars)) /\ path \in Seq(Chars)
      BY MountsAssumption, Characters, Zenon
  <2>2. TableAfter(g_mounts, calls) \in MountTables
      BY <1>1, <2>1, CallsKeep, Zenon
  <2> QED BY <2>1, <2>2, SearchIsNearest, SearchIsSplit, Zenon
<1> QED BY <1>2, Zenon DEF PathsFindTheirMount
-----------------------------------------------------------------------------
(* What the reads deliver, as sequences.                                   *)
LEMMA Deliveries ==
    ASSUME NEW n \in Nat, NEW dev, NEW from
    PROVE  /\ Len(Zeros(n)) = n /\ Len(Garbage(n)) = n /\ Len(DeviceBytes(dev, from, n)) = n
           /\ DeviceBytes(dev, from, 0) = << >>
<1>1. Len(Zeros(n)) = n
    BY DEF Zeros
<1>2. Len(Garbage(n)) = n
    BY DEF Garbage
<1>3. Len(DeviceBytes(dev, from, n)) = n
    BY DEF DeviceBytes
<1>4. DeviceBytes(dev, from, 0) = << >>
    BY DEF DeviceBytes
<1> QED BY <1>1, <1>2, <1>3, <1>4

(* Whole sectors which the device has end at its last byte or before.      *)
LEMMA WholeSectors ==
    ASSUME NEW sec \in Nat \ {0}, NEW N \in Nat, NEW pos \in Nat, NEW size \in Nat,
           pos % sec = 0, size % sec = 0, pos <= N * sec,
           \A i \in 0 .. (size \div sec) - 1 : pos \div sec + i < N
    PROVE  sec * (pos \div sec) = pos /\ pos + size <= N * sec
<1> DEFINE p == pos \div sec  q == size \div sec
<1>1. p \in Nat /\ q \in Nat /\ pos = sec * p /\ size = sec * q
    OBVIOUS
<1> HIDE DEF p, q
<1>2. CASE q = 0
    BY <1>1, <1>2
<1>3. CASE q > 0
  <2>1. p + (q - 1) < N
      BY <1>1, <1>3 DEF p, q
  <2>2. p + q <= N
      BY <1>1, <2>1
  <2>3. PICK r \in Nat : N = p + q + r
    <3>1. N - (p + q) \in Nat /\ N = p + q + (N - (p + q))
        BY <1>1, <2>2
    <3> QED BY <3>1
  <2>4. N * sec = sec * p + sec * q + sec * r /\ sec * r \in Nat
      BY <1>1, <2>3
  <2> QED BY <1>1, <2>4 DEF p
<1> QED BY <1>1, <1>2, <1>3
-----------------------------------------------------------------------------
(* A call changes one descriptor: what is left to show of it.              *)
LEMMA CallKeeps ==
    ASSUME VfsInv, NEW fd \in Fds, NEW new,
           UNCHANGED << g_mounts, pc >>, VfsTypeOK', UnspoiltReadsDeliverFile',
           \A o \in Fds \ {fd} : g_open'[o] = g_open[o] /\ got'[o] = got[o] /\ spoilt'[o] = spoilt[o],
           new \cap (Allocated \ Objs(fd)) = {},
           Allocated' = (Allocated \ Objs(fd)) \cup new,
           \A k \in Allocated \ Objs(fd) : heap'[k] = heap[k],
           g_open'[fd].ops = "none" => new = {},
           g_open'[fd].ops # "none" =>
                /\ Owned(fd)' = new
                /\ Ctx(fd)'.kind = IF g_open'[fd].ops = "pyfs" THEN "pyctx" ELSE "devctx"
                /\ Ctx(fd)'.link # NULL => heap'[Ctx(fd)'.link].kind = "cache"
                /\ PlaceOK(fd)'
    PROVE  VfsInv'
<1>1. /\ HeapMatchesTables'
      /\ MountOwned' = MountOwned /\ \A h \in MountOwned : heap'[h] = heap[h] /\ h \in Allocated'
      /\ \A o \in OpenFds' \ {fd} :
            /\ o \in OpenFds /\ Ctx(o)' = Ctx(o)
            /\ Ctx(o).link # NULL => heap'[Ctx(o).link] = heap[Ctx(o).link]
  <2>1. VfsTypeOK /\ HeapMatchesTables
      BY DEF VfsInv
  <2> HIDE DEF Allocated, Objs, Owned, Ctx, HeapMatchesTables, VfsTypeOK, OpenFds, MountOwned, PlaceOK, Fds, VfsInv
  <2> QED BY <2>1, OneDescriptor
<1>2. ASSUME NEW o \in OpenFds' PROVE PlaceOK(o)'
  <2>1. CASE o = fd
      BY <2>1 DEF OpenFds
  <2>2. CASE o # fd
    <3>1. o \in OpenFds /\ Ctx(o)' = Ctx(o) /\ (Ctx(o).link # NULL => heap'[Ctx(o).link] = heap[Ctx(o).link])
        BY <1>1, <2>2
    <3>2. o \in Fds \ {fd} /\ g_open'[o] = g_open[o] /\ got'[o] = got[o] /\ spoilt'[o] = spoilt[o]
        BY <2>2, <3>1 DEF OpenFds
    <3>3. PlaceOK(o)
        BY <3>1 DEF VfsInv, PlacesInv
    <3> HIDE DEF Ctx
    <3> QED BY <3>1, <3>2, <3>3 DEF PlaceOK
  <2> QED BY <2>1, <2>2
<1>3. PlacesInv'
  <2>1. \A h \in MountOwned' : heap'[h].dev = PyfsDevice
      BY <1>1 DEF VfsInv, PlacesInv
  <2> QED BY <1>2, <2>1 DEF PlacesInv
<1>4. MountsInv'
    BY DEF VfsInv, MountsInv
<1> QED BY <1>1, <1>3, <1>4 DEF VfsInv

(* What vfs_read changes when it delivers.                                 *)
LEMMA Delivered ==
    ASSUME VfsInv, NEW fd \in OpenFds, NEW size, NEW data, Len(data) \in Nat, Delivers(fd, size, data)
    PROVE  /\ g_open'[fd].ops = g_open[fd].ops /\ g_open'[fd].ctx = g_open[fd].ctx
           /\ g_open'[fd].pos = (g_open[fd].pos + Len(data)) % U32
           /\ got'[fd] = got[fd] + Len(data) /\ spoilt' = spoilt
           /\ \A o \in Fds \ {fd} : g_open'[o] = g_open[o] /\ got'[o] = got[o]
           /\ g_open' \in [Fds -> [ops : {"none", "null", "zero", "block", "pyfs"},
                                   ctx : Handles \cup {NULL}, pos : Nat]]
           /\ got' \in [Fds -> Nat] /\ spoilt' \in [Fds -> BOOLEAN]
           /\ UNCHANGED << registered, g_mounts, pc >> /\ pc' = "run"
           /\ OpenFds' = OpenFds
<1> DEFINE T == [ops : {"none", "null", "zero", "block", "pyfs"}, ctx : Handles \cup {NULL}, pos : Nat]
<1>1. g_open \in [Fds -> T] /\ got \in [Fds -> Nat] /\ spoilt \in [Fds -> BOOLEAN] /\ fd \in Fds
    BY DEF VfsInv, VfsTypeOK, OpenFds
<1>2. U32 \in Nat \ {0}
    BY VfsAssumption
<1>3. Advance(g_open[fd].pos, Len(data)) \in Nat
    BY <1>1, <1>2 DEF Advance
<1>4. /\ g_open' = [g_open EXCEPT ![fd].pos = Advance(@, Len(data))]
      /\ got' = [got EXCEPT ![fd] = @ + Len(data)]
      /\ UNCHANGED << registered, g_mounts, pc, spoilt >> /\ pc = "run"
    BY DEF Delivers
<1>5. g_open'[fd].ops = g_open[fd].ops /\ g_open'[fd].ctx = g_open[fd].ctx
      /\ g_open'[fd].pos = Advance(g_open[fd].pos, Len(data))
    BY <1>1, <1>4
<1>6. g_open' \in [Fds -> T]
    BY <1>1, <1>3, <1>4
<1>7. got' \in [Fds -> Nat] /\ got'[fd] = got[fd] + Len(data)
    BY <1>1, <1>4
<1>8. \A o \in Fds \ {fd} : g_open'[o] = g_open[o] /\ got'[o] = got[o]
    BY <1>1, <1>4
<1>9. OpenFds' = OpenFds
    BY <1>5, <1>8 DEF OpenFds
<1> QED BY <1>1, <1>4, <1>5, <1>6, <1>7, <1>8, <1>9 DEF Advance

(* Such a read that leaves the heap alone.                                 *)
LEMMA ReadKeeps ==
    ASSUME VfsInv, NEW fd \in OpenFds, NEW size, NEW data, Len(data) \in Nat, Delivers(fd, size, data),
           UNCHANGED heap, PlaceOK(fd)', UnspoiltReadsDeliverFile'
    PROVE  VfsInv'
<1>1. /\ g_open'[fd].ops = g_open[fd].ops /\ g_open'[fd].ctx = g_open[fd].ctx /\ spoilt' = spoilt
      /\ \A o \in Fds \ {fd} : g_open'[o] = g_open[o] /\ got'[o] = got[o]
      /\ g_open' \in [Fds -> [ops : {"none", "null", "zero", "block", "pyfs"},
                              ctx : Handles \cup {NULL}, pos : Nat]]
      /\ got' \in [Fds -> Nat] /\ spoilt' \in [Fds -> BOOLEAN]
      /\ UNCHANGED << registered, g_mounts, pc >> /\ pc' = "run"
    BY Delivered
<1>2. VfsTypeOK'
    BY <1>1 DEF VfsInv, VfsTypeOK, Allocated
<1>3. fd \in Fds /\ g_open[fd].ops # "none"
    BY DEF OpenFds
<1>4. Ctx(fd)' = Ctx(fd) /\ Owned(fd)' = Owned(fd) /\ Objs(fd) = Owned(fd)
    BY <1>1 DEF Ctx, Owned, Objs
<1>5. Owned(fd) \subseteq Allocated
    BY OpenObjects DEF VfsInv
<1>6. /\ Ctx(fd).kind = IF g_open[fd].ops = "pyfs" THEN "pyctx" ELSE "devctx"
      /\ Ctx(fd).link # NULL => heap[Ctx(fd).link].kind = "cache"
    BY DEF VfsInv, HeapMatchesTables
<1>7. Allocated' = Allocated
    BY DEF Allocated
<1>8. /\ Owned(fd) \cap (Allocated \ Objs(fd)) = {}
      /\ Allocated' = (Allocated \ Objs(fd)) \cup Owned(fd)
      /\ \A k \in Allocated \ Objs(fd) : heap'[k] = heap[k]
    BY <1>4, <1>5, <1>7
<1>9. /\ g_open'[fd].ops # "none" /\ Owned(fd)' = Owned(fd)
      /\ Ctx(fd)'.kind = IF g_open'[fd].ops = "pyfs" THEN "pyctx" ELSE "devctx"
      /\ Ctx(fd)'.link # NULL => heap'[Ctx(fd)'.link].kind = "cache"
    BY <1>1, <1>3, <1>4, <1>6
<1> HIDE DEF Allocated, Objs, Owned, Ctx, PlaceOK, VfsInv, VfsTypeOK, UnspoiltReadsDeliverFile, Fds, OpenFds
<1> QED BY <1>1, <1>2, <1>3, <1>8, <1>9, CallKeeps
-----------------------------------------------------------------------------
(* The reads.                                                              *)
LEMMA LastRead ==
    ASSUME NEW fd, NEW size, NEW data, Delivers(fd, size, data),
           ~spoilt[fd] => data = Expected(IF g_open[fd].ops = "pyfs" THEN "superblock" ELSE File(fd), got[fd], size)
    PROVE  UnspoiltReadsDeliverFile'
<1> DEFINE f == IF g_open[fd].ops = "pyfs" THEN "superblock" ELSE File(fd)
<1>1. last' = [file |-> f, start |-> got[fd], size |-> size, data |-> data, spoilt |-> spoilt[fd]]
    BY DEF Delivers
<1> HIDE DEF f
<1>2. last'.spoilt = spoilt[fd] /\ last'.data = data /\ last'.file = f /\ last'.start = got[fd] /\ last'.size = size
    BY <1>1
<1>3. ~spoilt[fd] => data = Expected(f, got[fd], size)
    BY DEF f
<1> QED BY <1>2, <1>3 DEF UnspoiltReadsDeliverFile, ReadsDeliverFile

LEMMA OpenPlace ==
    ASSUME VfsInv, NEW fd \in Fds, g_open[fd].ops # "none"
    PROVE  /\ fd \in OpenFds /\ PlaceOK(fd) /\ g_open[fd].pos \in Nat /\ got[fd] \in Nat
           /\ spoilt[fd] \in BOOLEAN
BY DEF OpenFds, VfsInv, PlacesInv, VfsTypeOK

LEMMA ReadNullKeeps ==
    ASSUME VfsInv, NEW fd \in Fds, NEW size \in Nat, ReadNull(fd, size)
    PROVE  VfsInv'
<1>1. g_open[fd].ops = "null" /\ Delivers(fd, size, << >>) /\ UNCHANGED heap
    BY DEF ReadNull
<1>2. fd \in OpenFds /\ PlaceOK(fd) /\ got[fd] = 0
    BY <1>1, OpenPlace DEF PlaceOK
<1>3. Len(<< >>) = 0
    OBVIOUS
<1>4. g_open'[fd].ops = "null" /\ got'[fd] = 0
    BY <1>1, <1>2, <1>3, Delivered
<1>5. PlaceOK(fd)'
    BY <1>4 DEF PlaceOK
<1>6. << >> = Expected("null", 0, size)
  <2>1. FileSize("null") = 0
      BY DEF FileSize
  <2>2. Expected("null", 0, size) = DeviceBytes("null", 0, 0)
      BY <2>1 DEF Expected
  <2> QED BY <2>2, Deliveries
<1>7. UnspoiltReadsDeliverFile'
    BY <1>1, <1>2, <1>6, LastRead DEF File
<1> HIDE DEF PlaceOK, VfsInv, UnspoiltReadsDeliverFile
<1> QED BY <1>1, <1>2, <1>3, <1>5, <1>7, ReadKeeps

LEMMA ReadZeroKeeps ==
    ASSUME VfsInv, NEW fd \in Fds, NEW size \in Nat, ReadZero(fd, size)
    PROVE  VfsInv'
<1>1. g_open[fd].ops = "zero" /\ Delivers(fd, size, Zeros(size)) /\ UNCHANGED heap
    BY DEF ReadZero
<1>2. fd \in OpenFds
    BY <1>1, OpenPlace
<1>3. Len(Zeros(size)) = size
    BY Deliveries
<1>4. g_open'[fd].ops = "zero"
    BY <1>1, <1>2, <1>3, Delivered
<1>5. PlaceOK(fd)'
    BY <1>4 DEF PlaceOK
<1>6. Zeros(size) = Expected("zero", got[fd], size)
    BY DEF Expected
<1>7. UnspoiltReadsDeliverFile'
    BY <1>1, <1>6, LastRead DEF File
<1> HIDE DEF PlaceOK, VfsInv, UnspoiltReadsDeliverFile, Zeros
<1> QED BY <1>1, <1>2, <1>3, <1>5, <1>7, ReadKeeps

LEMMA ReadBlockKeeps ==
    ASSUME VfsInv, NEW fd \in Fds, NEW size \in Nat, ReadBlock(fd, size)
    PROVE  VfsInv'
<1> DEFINE pos == g_open[fd].pos  dev == Ctx(fd).dev  N == Sectors[dev]
           data == DeviceBytes(dev, SECTOR * (pos \div SECTOR), size)
<1>1. /\ g_open[fd].ops = "block" /\ pos % SECTOR = 0 /\ size % SECTOR = 0
      /\ \A i \in 0 .. (size \div SECTOR) - 1 : pos \div SECTOR + i < N
      /\ Delivers(fd, size, data) /\ UNCHANGED heap
    BY DEF ReadBlock
<1>2. /\ fd \in OpenFds /\ dev \in BlockDevices /\ pos \in Nat /\ pos = got[fd] /\ pos <= N * SECTOR
    BY <1>1, OpenPlace DEF PlaceOK
<1>3. SECTOR \in Nat \ {0} /\ N \in Nat \ {0} /\ U32 \in Nat \ {0} /\ N * SECTOR < U32
    BY <1>2, VfsAssumption
<1>4. Len(data) = size
    BY Deliveries
<1>5. /\ g_open'[fd].ops = "block" /\ g_open'[fd].ctx = g_open[fd].ctx
      /\ g_open'[fd].pos = (pos + size) % U32 /\ got'[fd] = got[fd] + size
    BY <1>1, <1>2, <1>4, Delivered
<1>6. Ctx(fd)' = Ctx(fd)
    BY <1>1, <1>5 DEF Ctx
<1> HIDE DEF dev, N, pos
<1>7. SECTOR * (pos \div SECTOR) = pos /\ pos + size <= N * SECTOR
    BY <1>1, <1>2, <1>3, WholeSectors
<1>8. (pos + size) % U32 = pos + size
  <2>1. N * SECTOR \in Nat
      BY <1>3
  <2>2. pos + size \in Nat /\ pos + size < U32
      BY <1>2, <1>3, <1>7, <2>1
  <2> QED BY <1>3, <2>2
<1>9. PlaceOK(fd)'
    BY <1>2, <1>5, <1>6, <1>7, <1>8 DEF PlaceOK, dev, N
<1>10. data = Expected(dev, got[fd], size)
  <2>1. dev \notin {"null", "zero", "superblock"}
      BY <1>2, VfsAssumption
  <2>2. FileSize(dev) = N * SECTOR
      BY <2>1 DEF FileSize, N
  <2>3. N * SECTOR \in Nat
      BY <1>3
  <2> DEFINE rest == FileSize(dev) - pos
  <2>4. size = IF size < rest THEN size ELSE rest
      BY <1>2, <1>7, <2>2, <2>3
  <2>5. Expected(dev, pos, size) = DeviceBytes(dev, pos, IF size < rest THEN size ELSE rest)
      BY <2>1, Zenon DEF Expected
  <2> HIDE DEF rest
  <2> QED BY <1>2, <1>7, <2>4, <2>5
<1>11. UnspoiltReadsDeliverFile'
  <2> HIDE DEF data
  <2> QED BY <1>1, <1>10, LastRead DEF File, dev
<1> HIDE DEF PlaceOK, VfsInv, UnspoiltReadsDeliverFile, data
<1> QED BY <1>1, <1>2, <1>4, <1>5, <1>9, <1>11, ReadKeeps

(* The place of a PyFS descriptor, before and after a read from its cache. *)
LEMMA PyfsPlace ==
    ASSUME VfsInv, NEW fd \in Fds, NEW size \in Nat, g_open[fd].ops = "pyfs"
    PROVE  /\ fd \in OpenFds /\ ToCopy(fd, size) \in Nat /\ Ctx(fd).dev = PyfsDevice
           /\ g_open[fd].pos = got[fd] /\ got[fd] \in Nat /\ got[fd] + ToCopy(fd, size) <= SECTOR
           /\ (g_open[fd].pos + ToCopy(fd, size)) % U32 = got[fd] + ToCopy(fd, size)
           /\ DeviceBytes(Ctx(fd).dev, g_open[fd].pos, ToCopy(fd, size)) = Expected("superblock", got[fd], size)
<1> DEFINE pos == g_open[fd].pos  n == ToCopy(fd, size)
<1>1. fd \in OpenFds /\ pos \in Nat /\ pos = got[fd] /\ pos <= SECTOR /\ Ctx(fd).dev = PyfsDevice
    BY OpenPlace DEF PlaceOK
<1>2. SECTOR \in Nat \ {0} /\ U32 \in Nat \ {0} /\ SECTOR < U32
  <2>1. /\ SECTOR \in Nat \ {0} /\ Sectors[PyfsDevice] \in Nat \ {0} /\ U32 \in Nat \ {0}
        /\ Sectors[PyfsDevice] * SECTOR < U32
      BY VfsAssumption
  <2>2. Sectors[PyfsDevice] * SECTOR >= SECTOR
      BY <2>1
  <2>3. Sectors[PyfsDevice] * SECTOR \in Nat
      BY <2>1
  <2> QED BY <2>1, <2>2, <2>3
<1>3. n = IF size < SECTOR - pos THEN size ELSE SECTOR - pos
    BY <1>1, <1>2 DEF ToCopy, Remaining
<1> HIDE DEF pos, n
<1>4. n \in Nat /\ pos + n <= SECTOR
    BY <1>1, <1>2, <1>3
<1>5. (pos + n) % U32 = pos + n
    BY <1>1, <1>2, <1>4
<1>6. FileSize("superblock") = SECTOR
    BY DEF FileSize
<1>7. Expected("superblock", pos, size) = DeviceBytes(PyfsDevice, pos, n)
    BY <1>3, <1>6 DEF Expected
<1> QED BY <1>1, <1>4, <1>5, <1>7 DEF pos, n

LEMMA ReadPyCachedKeeps ==
    ASSUME VfsInv, NEW fd \in Fds, NEW size \in Nat, ReadPyCached(fd, size)
    PROVE  VfsInv'
<1> DEFINE n == ToCopy(fd, size)
           bad == heap[Ctx(fd).link].dev = "none"
           data == IF bad THEN Garbage(n) ELSE DeviceBytes(Ctx(fd).dev, g_open[fd].pos, n)
<1>1. g_open[fd].ops = "pyfs" /\ Ctx(fd).link # NULL /\ Delivers(fd, size, data) /\ UNCHANGED heap
    BY DEF ReadPyCached
<1>2. /\ fd \in OpenFds /\ n \in Nat /\ Ctx(fd).dev = PyfsDevice
      /\ g_open[fd].pos = got[fd] /\ got[fd] \in Nat /\ got[fd] + n <= SECTOR
      /\ (g_open[fd].pos + n) % U32 = got[fd] + n
      /\ DeviceBytes(Ctx(fd).dev, g_open[fd].pos, n) = Expected("superblock", got[fd], size)
    BY <1>1, PyfsPlace
<1>3. bad => spoilt[fd]
    BY <1>1, OpenPlace DEF PlaceOK
<1> HIDE DEF n, bad
<1>4. Len(data) = n
    BY <1>2, Deliveries
<1>5. data = Expected("superblock", got[fd], size) \/ spoilt[fd]
    BY <1>2, <1>3
<1> HIDE DEF data
<1>6. /\ g_open'[fd].ops = "pyfs" /\ g_open'[fd].ctx = g_open[fd].ctx /\ spoilt' = spoilt
      /\ g_open'[fd].pos = got[fd] + n /\ got'[fd] = got[fd] + n
    BY <1>1, <1>2, <1>4, Delivered
<1>7. Ctx(fd)' = Ctx(fd)
    BY <1>1, <1>6 DEF Ctx
<1>8. PlaceOK(fd)'
    BY <1>1, <1>2, <1>3, <1>6, <1>7 DEF PlaceOK, bad
<1>9. UnspoiltReadsDeliverFile'
    BY <1>1, <1>5, LastRead
<1> HIDE DEF PlaceOK, VfsInv, UnspoiltReadsDeliverFile
<1> QED BY <1>1, <1>2, <1>4, <1>8, <1>9, ReadKeeps
LEMMA StutterKeeps ==
    ASSUME VfsInv, UNCHANGED vars
    PROVE  VfsInv'
<1>1. UNCHANGED << registered, g_mounts, g_open, heap, pc, got, spoilt, last >>
    BY DEF vars
<1>2. VfsTypeOK'
    BY <1>1 DEF VfsInv, VfsTypeOK, Allocated, OpenFds
<1>3. MountsInv'
    BY <1>1 DEF VfsInv, MountsInv
<1>4. Allocated' = Allocated /\ MountOwned' = MountOwned /\ OpenFds' = OpenFds
    BY <1>1 DEF Allocated, MountOwned, OpenFds
<1>5. \A fd : Ctx(fd)' = Ctx(fd) /\ Owned(fd)' = Owned(fd) /\ (PlaceOK(fd)' <=> PlaceOK(fd))
    BY <1>1 DEF Ctx, Owned, PlaceOK
<1> HIDE DEF Allocated, MountOwned, OpenFds, Ctx, Owned, PlaceOK
<1>6. HeapMatchesTables'
    BY <1>1, <1>4, <1>5 DEF VfsInv, HeapMatchesTables
<1>7. PlacesInv'
    BY <1>1, <1>4, <1>5 DEF VfsInv, PlacesInv
<1>8. UnspoiltReadsDeliverFile'
    BY <1>1 DEF VfsInv, UnspoiltReadsDeliverFile, ReadsDeliverFile
<1> QED BY <1>2, <1>3, <1>6, <1>7, <1>8 DEF VfsInv

(* A failed read of a block device leaves the position.                    *)
LEMMA ReadBlockFailsKeeps ==
    ASSUME VfsInv, NEW fd \in Fds, NEW size, NEW k, ReadBlockFails(fd, size, k)
    PROVE  VfsInv'
<1>1. g_open' = [g_open EXCEPT ![fd].pos = @] /\ UNCHANGED << registered, g_mounts, heap, pc, got, spoilt, last >>
    BY DEF ReadBlockFails, PosAfterError
<1> DEFINE T == [ops : {"none", "null", "zero", "block", "pyfs"}, ctx : Handles \cup {NULL}, pos : Nat]
<1>2. g_open \in [Fds -> T]
    BY DEF VfsInv, VfsTypeOK
<1>3. g_open' = g_open
    BY <1>1, <1>2
<1> QED BY <1>1, <1>3, StutterKeeps DEF vars

(* A cache for a PyFS descriptor.                                          *)
Filled(c, h, obj) == [With(h, obj) EXCEPT ![c].link = h]

LEMMA FillHeap ==
    ASSUME VfsInv, NEW fd \in Fds, NEW h \in Handles, NEW obj \in Objects, obj.kind = "cache",
           g_open[fd].ops = "pyfs", Ctx(fd).link = NULL, h \notin Allocated,
           heap' = Filled(g_open[fd].ctx, h, obj),
           g_open'[fd].ops = "pyfs", g_open'[fd].ctx = g_open[fd].ctx
    PROVE  /\ Allocated' = Allocated \cup {h} /\ Allocated' \subseteq Handles /\ heap' \in [Allocated' -> Objects]
           /\ Objs(fd) = {g_open[fd].ctx} /\ Owned(fd)' = {g_open[fd].ctx, h}
           /\ g_open[fd].ctx \in Allocated
           /\ \A k \in Allocated \ Objs(fd) : heap'[k] = heap[k]
           /\ Ctx(fd)'.kind = "pyctx" /\ Ctx(fd)'.link = h /\ Ctx(fd)'.dev = Ctx(fd).dev
           /\ heap'[h] = obj /\ h # NULL
<1> DEFINE c == g_open[fd].ctx  w == With(h, obj)
<1>1. fd \in OpenFds
    BY DEF OpenFds
<1>2. /\ c \in Allocated /\ Ctx(fd) \in Objects /\ Ctx(fd) = heap[c] /\ heap \in [Allocated -> Objects]
      /\ Allocated \subseteq Handles
    BY <1>1, OpenObjects DEF VfsInv, VfsTypeOK
<1>3. Ctx(fd).kind = "pyctx"
    BY <1>1 DEF VfsInv, HeapMatchesTables
<1>4. h # NULL /\ c # h
    BY <1>2, NullIsNone
<1> HIDE DEF Ctx, Allocated, c
<1>5. w \in [Allocated \cup {h} -> Objects] /\ w[h] = obj /\ \A k \in Allocated : w[k] = heap[k]
    BY <1>2 DEF With
<1>6. heap' = [w EXCEPT ![c].link = h]
    BY DEF w, c, Filled
<1> HIDE DEF w
<1>7. /\ heap'[h] = obj /\ \A k \in Allocated \ {c} : heap'[k] = heap[k]
      /\ heap'[c] = [heap[c] EXCEPT !.link = h]
    BY <1>2, <1>4, <1>5, <1>6
<1>8. [heap[c] EXCEPT !.link = h] \in Objects
    BY <1>2 DEF Objects
<1>9. DOMAIN heap' = Allocated \cup {h} /\ heap' \in [Allocated \cup {h} -> Objects]
  <2>1. DOMAIN heap' = Allocated \cup {h} /\ heap' = [k \in Allocated \cup {h} |-> heap'[k]]
      BY <1>5, <1>6
  <2>2. \A k \in Allocated \cup {h} : heap'[k] \in Objects
    <3> HIDE DEF Objects
    <3> QED BY <1>2, <1>7, <1>8
  <2> HIDE DEF Objects
  <2> QED BY <2>1, <2>2
<1>10. Allocated' = Allocated \cup {h}
    BY <1>9 DEF Allocated
<1>11. Ctx(fd)' = heap'[c]
    BY DEF Ctx, c
<1>12. Ctx(fd)'.kind = "pyctx" /\ Ctx(fd)'.link = h /\ Ctx(fd)'.dev = Ctx(fd).dev
    BY <1>2, <1>3, <1>7, <1>11 DEF Objects
<1>13. Owned(fd)' = {c, h}
    BY <1>4, <1>12 DEF Owned, c
<1>14. Objs(fd) = {c}
    BY <1>1 DEF Objs, Owned, c
<1> QED BY <1>2, <1>4, <1>7, <1>9, <1>10, <1>12, <1>13, <1>14 DEF c

LEMMA ReadPyFillKeeps ==
    ASSUME VfsInv, NEW fd \in Fds, NEW size \in Nat, NEW h \in Handles, ReadPyFill(fd, size, h)
    PROVE  VfsInv'
<1> DEFINE n == ToCopy(fd, size)
           data == DeviceBytes(Ctx(fd).dev, g_open[fd].pos, n)
           new == {g_open[fd].ctx, h}
<1>1. /\ g_open[fd].ops = "pyfs" /\ Ctx(fd).link = NULL /\ h \notin Allocated /\ Delivers(fd, size, data)
      /\ heap' = [With(h, [kind |-> "cache", link |-> NULL, dev |-> Ctx(fd).dev])
                    EXCEPT ![g_open[fd].ctx].link = h]
    BY DEF ReadPyFill
<1>2. /\ fd \in OpenFds /\ n \in Nat /\ Ctx(fd).dev = PyfsDevice
      /\ g_open[fd].pos = got[fd] /\ got[fd] \in Nat /\ got[fd] + n <= SECTOR
      /\ (g_open[fd].pos + n) % U32 = got[fd] + n
      /\ data = Expected("superblock", got[fd], size)
    BY <1>1, PyfsPlace
<1> HIDE DEF n
<1>3. Len(data) = n
    BY <1>2, Deliveries
<1> HIDE DEF data
<1>4. /\ g_open'[fd].ops = "pyfs" /\ g_open'[fd].ctx = g_open[fd].ctx /\ spoilt' = spoilt
      /\ g_open'[fd].pos = got[fd] + n /\ got'[fd] = got[fd] + n
      /\ \A o \in Fds \ {fd} : g_open'[o] = g_open[o] /\ got'[o] = got[o]
      /\ g_open' \in [Fds -> [ops : {"none", "null", "zero", "block", "pyfs"},
                              ctx : Handles \cup {NULL}, pos : Nat]]
      /\ got' \in [Fds -> Nat] /\ spoilt' \in [Fds -> BOOLEAN]
      /\ UNCHANGED << registered, g_mounts, pc >> /\ pc' = "run"
    BY <1>1, <1>2, <1>3, Delivered
<1>5. PyfsDevice \in BlockDevices /\ PyfsDevice # "none"
    BY VfsAssumption
<1>6. /\ Allocated' = Allocated \cup {h} /\ Allocated' \subseteq Handles /\ heap' \in [Allocated' -> Objects]
      /\ Objs(fd) = {g_open[fd].ctx} /\ Owned(fd)' = new /\ g_open[fd].ctx \in Allocated
      /\ \A k \in Allocated \ Objs(fd) : heap'[k] = heap[k]
      /\ Ctx(fd)'.kind = "pyctx" /\ Ctx(fd)'.link = h /\ Ctx(fd)'.dev = Ctx(fd).dev
      /\ heap'[h].kind = "cache" /\ heap'[h].dev = Ctx(fd).dev /\ h # NULL
  <2>1. PICK obj : obj = [kind |-> "cache", link |-> NULL, dev |-> Ctx(fd).dev]
      OBVIOUS
  <2>2. obj \in Objects /\ obj.kind = "cache" /\ obj.dev = Ctx(fd).dev
      BY <1>2, <1>5, <2>1 DEF Objects
  <2>3. heap' = Filled(g_open[fd].ctx, h, obj)
      BY <1>1, <2>1 DEF Filled
  <2>4. /\ g_open[fd].ops = "pyfs" /\ Ctx(fd).link = NULL /\ h \notin Allocated
        /\ g_open'[fd].ops = "pyfs" /\ g_open'[fd].ctx = g_open[fd].ctx
      BY <1>1, <1>4
  <2> HIDE DEF Allocated, Ctx, Objs, Owned, VfsInv, Fds, Objects, With
  <2>5. /\ Allocated' = Allocated \cup {h} /\ Allocated' \subseteq Handles /\ heap' \in [Allocated' -> Objects]
        /\ Objs(fd) = {g_open[fd].ctx} /\ Owned(fd)' = {g_open[fd].ctx, h} /\ g_open[fd].ctx \in Allocated
        /\ \A k \in Allocated \ Objs(fd) : heap'[k] = heap[k]
        /\ Ctx(fd)'.kind = "pyctx" /\ Ctx(fd)'.link = h /\ Ctx(fd)'.dev = Ctx(fd).dev
        /\ heap'[h] = obj /\ h # NULL
      BY <2>2, <2>3, <2>4, FillHeap
  <2> QED BY <2>2, <2>5
<1>7. VfsTypeOK'
    BY <1>4, <1>6 DEF VfsInv, VfsTypeOK
<1>8. PlaceOK(fd)'
  <2> HIDE DEF Ctx
  <2> QED BY <1>2, <1>4, <1>5, <1>6 DEF PlaceOK
<1>9. UnspoiltReadsDeliverFile'
    BY <1>1, <1>2, LastRead
<1>10. new \cap (Allocated \ Objs(fd)) = {} /\ Allocated' = (Allocated \ Objs(fd)) \cup new
    BY <1>1, <1>6
<1> HIDE DEF Allocated, Objs, Owned, Ctx, PlaceOK, VfsInv, VfsTypeOK, UnspoiltReadsDeliverFile, Fds, new
<1>11. /\ g_open'[fd].ops = "none" => new = {}
       /\ g_open'[fd].ops # "none" =>
             /\ Owned(fd)' = new
             /\ Ctx(fd)'.kind = IF g_open'[fd].ops = "pyfs" THEN "pyctx" ELSE "devctx"
             /\ Ctx(fd)'.link # NULL => heap'[Ctx(fd)'.link].kind = "cache"
             /\ PlaceOK(fd)'
    BY <1>6, <1>4, <1>8
<1>12. /\ UNCHANGED << g_mounts, pc >>
       /\ \A o \in Fds \ {fd} : g_open'[o] = g_open[o] /\ got'[o] = got[o] /\ spoilt'[o] = spoilt[o]
       /\ \A k \in Allocated \ Objs(fd) : heap'[k] = heap[k]
    BY <1>4, <1>6
<1> QED BY <1>7, <1>9, <1>10, <1>11, <1>12, CallKeeps

LEMMA ReadPyFillFailsKeeps ==
    ASSUME VfsInv, NEW fd \in Fds, NEW h \in Handles, ReadPyFillFails(fd, h)
    PROVE  VfsInv'
<1> DEFINE new == {g_open[fd].ctx, h}
<1>1. /\ pc = "run" /\ g_open[fd].ops = "pyfs" /\ Ctx(fd).link = NULL /\ h \notin Allocated
      /\ heap' = [With(h, [kind |-> "cache", link |-> NULL, dev |-> "none"])
                    EXCEPT ![g_open[fd].ctx].link = h]
      /\ spoilt' = [spoilt EXCEPT ![fd] = TRUE]
      /\ UNCHANGED << registered, g_mounts, g_open, pc, got, last >>
    BY DEF ReadPyFillFails
<1>2. PlaceOK(fd)
    BY <1>1, OpenPlace
<1>3. /\ Allocated' = Allocated \cup {h} /\ Allocated' \subseteq Handles /\ heap' \in [Allocated' -> Objects]
      /\ Objs(fd) = {g_open[fd].ctx} /\ Owned(fd)' = new /\ g_open[fd].ctx \in Allocated
      /\ \A k \in Allocated \ Objs(fd) : heap'[k] = heap[k]
      /\ Ctx(fd)'.kind = "pyctx" /\ Ctx(fd)'.link = h /\ Ctx(fd)'.dev = Ctx(fd).dev
      /\ heap'[h].kind = "cache" /\ h # NULL
  <2>1. PICK obj : obj = [kind |-> "cache", link |-> NULL, dev |-> "none"]
      OBVIOUS
  <2>2. obj \in Objects /\ obj.kind = "cache" /\ obj.dev = "none"
      BY <2>1 DEF Objects
  <2>3. heap' = Filled(g_open[fd].ctx, h, obj)
      BY <1>1, <2>1 DEF Filled
  <2>4. /\ g_open[fd].ops = "pyfs" /\ Ctx(fd).link = NULL /\ h \notin Allocated
        /\ g_open'[fd].ops = "pyfs" /\ g_open'[fd].ctx = g_open[fd].ctx
      BY <1>1
  <2> HIDE DEF Allocated, Ctx, Objs, Owned, VfsInv, Fds, Objects, With
  <2>5. /\ Allocated' = Allocated \cup {h} /\ Allocated' \subseteq Handles /\ heap' \in [Allocated' -> Objects]
        /\ Objs(fd) = {g_open[fd].ctx} /\ Owned(fd)' = {g_open[fd].ctx, h} /\ g_open[fd].ctx \in Allocated
        /\ \A k \in Allocated \ Objs(fd) : heap'[k] = heap[k]
        /\ Ctx(fd)'.kind = "pyctx" /\ Ctx(fd)'.link = h /\ Ctx(fd)'.dev = Ctx(fd).dev
        /\ heap'[h] = obj /\ h # NULL
      BY <2>2, <2>3, <2>4, FillHeap
  <2> QED BY <2>2, <2>5
<1>4. spoilt' \in [Fds -> BOOLEAN] /\ spoilt'[fd] = TRUE /\ \A o \in Fds \ {fd} : spoilt'[o] = spoilt[o]
    BY <1>1 DEF VfsInv, VfsTypeOK
<1>5. VfsTypeOK'
    BY <1>1, <1>3, <1>4 DEF VfsInv, VfsTypeOK
<1>6. PlaceOK(fd)'
  <2> HIDE DEF Ctx
  <2> QED BY <1>1, <1>2, <1>3, <1>4 DEF PlaceOK
<1>7. UnspoiltReadsDeliverFile'
    BY <1>1 DEF VfsInv, UnspoiltReadsDeliverFile, ReadsDeliverFile
<1>8. new \cap (Allocated \ Objs(fd)) = {} /\ Allocated' = (Allocated \ Objs(fd)) \cup new
    BY <1>1, <1>3
<1>9. g_open'[fd].ops = "pyfs" /\ \A o \in Fds \ {fd} : g_open'[o] = g_open[o] /\ got'[o] = got[o]
    BY <1>1
<1> HIDE DEF Allocated, Objs, Owned, Ctx, PlaceOK, VfsInv, VfsTypeOK, UnspoiltReadsDeliverFile, Fds, new
<1>10. /\ g_open'[fd].ops = "none" => new = {}
       /\ g_open'[fd].ops # "none" =>
             /\ Owned(fd)' = new
             /\ Ctx(fd)'.kind = IF g_open'[fd].ops = "pyfs" THEN "pyctx" ELSE "devctx"
             /\ Ctx(fd)'.link # NULL => heap'[Ctx(fd)'.link].kind = "cache"
             /\ PlaceOK(fd)'
    BY <1>3, <1>9, <1>6
<1>11. UNCHANGED << g_mounts, pc >>
    BY <1>1
<1>12. /\ \A o \in Fds \ {fd} : g_open'[o] = g_open[o] /\ got'[o] = got[o] /\ spoilt'[o] = spoilt[o]
       /\ \A k \in Allocated \ Objs(fd) : heap'[k] = heap[k]
    BY <1>3, <1>4, <1>9
<1> QED BY <1>5, <1>7, <1>8, <1>10, <1>11, <1>12, CallKeeps
-----------------------------------------------------------------------------
(* Closing and opening.                                                    *)
LEMMA CloseKeeps ==
    ASSUME VfsInv, NEW fd \in Fds, Close(fd)
    PROVE  VfsInv'
<1>1. /\ pc = "run" /\ g_open[fd].ops # "none" /\ heap' = Without(Owned(fd))
      /\ g_open' = [g_open EXCEPT ![fd] = Closed]
      /\ got' = [got EXCEPT ![fd] = 0] /\ spoilt' = [spoilt EXCEPT ![fd] = FALSE]
      /\ UNCHANGED << registered, g_mounts, pc, last >>
    BY DEF Close
<1>2. fd \in OpenFds /\ Objs(fd) = Owned(fd)
    BY <1>1 DEF OpenFds, Objs
<1>3. Owned(fd) \subseteq Allocated /\ Allocated \subseteq Handles /\ heap \in [Allocated -> Objects]
    BY <1>2, OpenObjects DEF VfsInv, VfsTypeOK
<1>4. /\ Allocated' = Allocated \ Owned(fd) /\ heap' \in [Allocated' -> Objects]
      /\ \A k \in Allocated \ Owned(fd) : heap'[k] = heap[k]
  <2> DEFINE A == Allocated \ Owned(fd)
  <2>1. heap' = [k \in A |-> heap[k]]
      BY <1>1 DEF Without
  <2> HIDE DEF Objects, A
  <2>2. DOMAIN heap' = A /\ \A k \in A : heap'[k] = heap[k]
      BY <2>1
  <2>3. A \subseteq Allocated
      BY DEF A
  <2>4. Allocated' = A
      BY <2>2 DEF Allocated
  <2>5. heap' \in [A -> Objects]
    <3> HIDE DEF Allocated
    <3> QED BY <1>3, <2>1, <2>3
  <2> QED BY <2>2, <2>4, <2>5 DEF A
<1>5. Closed.ops = "none" /\ Closed.ctx = NULL /\ Closed.pos = 0
      /\ Closed \in [ops : {"none", "null", "zero", "block", "pyfs"}, ctx : Handles \cup {NULL}, pos : Nat]
    BY DEF Closed
<1> HIDE DEF Closed
<1>6. /\ g_open'[fd].ops = "none"
      /\ \A o \in Fds \ {fd} : g_open'[o] = g_open[o] /\ got'[o] = got[o] /\ spoilt'[o] = spoilt[o]
    BY <1>1, <1>5 DEF VfsInv, VfsTypeOK
<1>7. /\ g_open' \in [Fds -> [ops : {"none", "null", "zero", "block", "pyfs"},
                              ctx : Handles \cup {NULL}, pos : Nat]]
      /\ got' \in [Fds -> Nat] /\ spoilt' \in [Fds -> BOOLEAN]
    BY <1>1, <1>5 DEF VfsInv, VfsTypeOK
<1> HIDE DEF Allocated, Owned
<1>8. VfsTypeOK'
    BY <1>1, <1>3, <1>4, <1>7 DEF VfsInv, VfsTypeOK
<1>9. UnspoiltReadsDeliverFile'
    BY <1>1 DEF VfsInv, UnspoiltReadsDeliverFile, ReadsDeliverFile
<1>10. /\ {} \cap (Allocated \ Objs(fd)) = {} /\ Allocated' = (Allocated \ Objs(fd)) \cup {}
       /\ \A k \in Allocated \ Objs(fd) : heap'[k] = heap[k]
    BY <1>2, <1>4
<1>11. UNCHANGED << g_mounts, pc >>
    BY <1>1
<1> HIDE DEF Objs, Ctx, PlaceOK, VfsInv, VfsTypeOK, UnspoiltReadsDeliverFile, Fds
<1> QED BY <1>6, <1>8, <1>9, <1>10, <1>11, CallKeeps

(* A new context for a free descriptor.                                    *)
LEMMA OpenedKeeps ==
    ASSUME VfsInv, NEW fd \in Fds, g_open[fd].ops = "none", pc = "run",
           NEW h \in Handles, h \notin Allocated, NEW obj \in Objects, NEW ops \in {"null", "zero", "block", "pyfs"},
           obj.link = NULL, obj.kind = IF ops = "pyfs" THEN "pyctx" ELSE "devctx",
           ops = "block" => obj.dev \in BlockDevices,
           ops = "pyfs" => obj.dev = PyfsDevice,
           heap' = With(h, obj), Opened(fd, ops, h),
           UNCHANGED << registered, g_mounts, pc, last >>
    PROVE  VfsInv'
<1> DEFINE rec == [ops |-> ops, ctx |-> h, pos |-> 0]  new == {h}
<1>1. /\ g_open' = [g_open EXCEPT ![fd] = rec]
      /\ got' = [got EXCEPT ![fd] = 0] /\ spoilt' = [spoilt EXCEPT ![fd] = FALSE]
    BY DEF Opened
<1>2. Allocated \subseteq Handles /\ heap \in [Allocated -> Objects] /\ h # NULL
    BY NullIsNone DEF VfsInv, VfsTypeOK
<1>3. /\ Allocated' = Allocated \cup {h} /\ heap' \in [Allocated' -> Objects]
      /\ heap'[h] = obj /\ \A k \in Allocated : heap'[k] = heap[k]
  <2> DEFINE A == Allocated \cup {h}
  <2>1. heap' = [k \in A |-> IF k = h THEN obj ELSE heap[k]]
      BY DEF With
  <2>2. h \in A /\ \A k \in Allocated : k \in A /\ k # h
      OBVIOUS
  <2>3. \A k \in A : k = h \/ k \in Allocated
      OBVIOUS
  <2> HIDE DEF Objects, A
  <2>4. DOMAIN heap' = A /\ heap'[h] = obj /\ \A k \in Allocated : heap'[k] = heap[k]
    <3> HIDE DEF Allocated
    <3> QED BY <2>1, <2>2
  <2>5. Allocated' = A
      BY <2>4 DEF Allocated
  <2>6. heap' \in [A -> Objects]
    <3> HIDE DEF Allocated
    <3> QED BY <1>2, <2>1, <2>3
  <2> QED BY <2>4, <2>5, <2>6 DEF A
<1>4. /\ rec.ops = ops /\ rec.ctx = h /\ rec.pos = 0
      /\ rec \in [ops : {"none", "null", "zero", "block", "pyfs"}, ctx : Handles \cup {NULL}, pos : Nat]
    OBVIOUS
<1> HIDE DEF rec
<1>5. /\ g_open'[fd] = rec /\ got'[fd] = 0
      /\ \A o \in Fds \ {fd} : g_open'[o] = g_open[o] /\ got'[o] = got[o] /\ spoilt'[o] = spoilt[o]
    BY <1>1 DEF VfsInv, VfsTypeOK
<1>6. /\ g_open' \in [Fds -> [ops : {"none", "null", "zero", "block", "pyfs"},
                              ctx : Handles \cup {NULL}, pos : Nat]]
      /\ got' \in [Fds -> Nat] /\ spoilt' \in [Fds -> BOOLEAN]
    BY <1>1, <1>4 DEF VfsInv, VfsTypeOK
<1>7. Ctx(fd)' = obj /\ Owned(fd)' = new
    BY <1>3, <1>4, <1>5 DEF Ctx, Owned
<1> HIDE DEF Allocated, Owned, Ctx
<1>8. VfsTypeOK'
    BY <1>2, <1>3, <1>6 DEF VfsInv, VfsTypeOK
<1>9. PlaceOK(fd)'
  <2>1. SECTOR \in Nat /\ \A d \in BlockDevices : Sectors[d] \in Nat /\ Sectors[d] * SECTOR \in Nat
    <3>1. SECTOR \in Nat /\ \A d \in BlockDevices : Sectors[d] \in Nat
        BY VfsAssumption
    <3> QED BY <3>1
  <2>2. g_open'[fd].ops = ops /\ g_open'[fd].pos = 0
      BY <1>4, <1>5
  <2> QED BY <1>5, <1>7, <2>1, <2>2 DEF PlaceOK
<1>10. UnspoiltReadsDeliverFile'
    BY DEF VfsInv, UnspoiltReadsDeliverFile, ReadsDeliverFile
<1>11. Objs(fd) = {}
    BY DEF Objs, OpenFds
<1>12. /\ new \cap (Allocated \ Objs(fd)) = {} /\ Allocated' = (Allocated \ Objs(fd)) \cup new
       /\ \A k \in Allocated \ Objs(fd) : heap'[k] = heap[k]
    BY <1>3, <1>11
<1>13. /\ g_open'[fd].ops = "none" => new = {}
       /\ g_open'[fd].ops # "none" =>
             /\ Owned(fd)' = new
             /\ Ctx(fd)'.kind = IF g_open'[fd].ops = "pyfs" THEN "pyctx" ELSE "devctx"
             /\ Ctx(fd)'.link # NULL => heap'[Ctx(fd)'.link].kind = "cache"
             /\ PlaceOK(fd)'
    BY <1>4, <1>5, <1>7, <1>9
<1>14. UNCHANGED << g_mounts, pc >>
    OBVIOUS
<1> HIDE DEF Objs, PlaceOK, VfsInv, VfsTypeOK, UnspoiltReadsDeliverFile, Fds, new
<1> QED BY <1>5, <1>8, <1>10, <1>12, <1>13, <1>14, CallKeeps

LEMMA OpenKeeps ==
    ASSUME VfsInv, NEW path, NEW h \in Handles, Open(path, h)
    PROVE  VfsInv'
<1> DEFINE m == FindMount(g_mounts, path)  rel == Relative(g_mounts[m].mountpoint, path)
<1>1. /\ pc = "run" /\ m # 0 /\ h \notin Allocated
      /\ \E fd \in FreeFd :
            \/ g_mounts[m].fs = "devfs" /\ OpenDev(fd, rel, h)
            \/ g_mounts[m].fs = "pyfs" /\ OpenPy(fd, g_mounts[m].ctx, rel, h)
      /\ UNCHANGED << registered, g_mounts, pc, last >>
    BY DEF Open
<1>2. m \in DOMAIN g_mounts /\ (g_mounts[m].fs = "pyfs" => g_mounts[m].ctx # NULL)
  <2>1. Absolute(path)
      BY <1>1 DEF FindMount
  <2>2. g_mounts \in MountTables
      BY StartTables DEF VfsInv
  <2>3. m \in 0..Len(g_mounts) /\ Len(g_mounts) \in Nat /\ DOMAIN g_mounts = 1..Len(g_mounts)
      BY <2>1, <2>2, SearchFinds, MountTableLength
  <2>4. m \in DOMAIN g_mounts
    <3> HIDE DEF m
    <3> QED BY <1>1, <2>3
  <2> QED BY <2>4, StartTables DEF VfsInv
<1> HIDE DEF m, rel
<1>3. PICK fd \in FreeFd : \/ g_mounts[m].fs = "devfs" /\ OpenDev(fd, rel, h)
                           \/ g_mounts[m].fs = "pyfs" /\ OpenPy(fd, g_mounts[m].ctx, rel, h)
    BY <1>1
<1>4. fd \in Fds /\ g_open[fd].ops = "none"
    BY <1>3 DEF FreeFd
<1>5. registered \subseteq BlockDevices
    BY DEF VfsInv, VfsTypeOK
<1>6. ASSUME OpenDev(fd, rel, h) PROVE VfsInv'
  <2>1. PICK ops : ops = DevNode(rel)
      OBVIOUS
  <2>2. PICK obj : obj = [kind |-> "devctx", link |-> NULL,
                          dev |-> IF DevNode(rel) = "block" THEN rel[1] ELSE "none"]
      OBVIOUS
  <2>3. ops \in {"null", "zero", "block"} /\ heap' = With(h, obj) /\ Opened(fd, ops, h)
      BY <1>6, <2>1, <2>2 DEF OpenDev, DevNode
  <2>4. ops = "block" => rel[1] \in BlockDevices
      BY <1>5, <2>1 DEF DevNode
  <2>5. obj \in Objects /\ obj.kind = "devctx" /\ obj.link = NULL /\ (ops = "block" => obj.dev \in BlockDevices)
      BY <2>1, <2>2, <2>4 DEF Objects
  <2> HIDE DEF Allocated, With, Opened, Objects, VfsInv, Fds
  <2> QED BY <1>1, <1>4, <2>3, <2>5, OpenedKeeps
<1>7. ASSUME g_mounts[m].fs = "pyfs", OpenPy(fd, g_mounts[m].ctx, rel, h) PROVE VfsInv'
  <2>1. g_mounts[m].ctx \in MountOwned
      BY <1>2, <1>7 DEF MountOwned
  <2>2. heap[g_mounts[m].ctx].dev = PyfsDevice
      BY <2>1 DEF VfsInv, PlacesInv
  <2>3. PICK obj : obj = [kind |-> "pyctx", link |-> NULL, dev |-> PyfsDevice]
      OBVIOUS
  <2>4. heap' = With(h, obj) /\ Opened(fd, "pyfs", h)
      BY <1>7, <2>2, <2>3 DEF OpenPy
  <2>5. obj \in Objects /\ obj.kind = "pyctx" /\ obj.link = NULL /\ obj.dev = PyfsDevice
      BY <2>3, VfsAssumption DEF Objects
  <2> HIDE DEF Allocated, With, Opened, Objects, VfsInv, Fds
  <2> QED BY <1>1, <1>4, <2>4, <2>5, OpenedKeeps
<1> QED BY <1>3, <1>6, <1>7
-----------------------------------------------------------------------------
(* Start-up: nothing is open yet, the mounts own all that is allocated.    *)
OwnedBy(table) == {table[i].ctx : i \in DOMAIN table} \ {NULL}

LEMMA MountOwns ==
    /\ OwnedBy(<< >>) = {}
    /\ OwnedBy(<<RootEntry>>) = {}
    /\ OwnedBy(<<RootEntry, DevEntry>>) = {}
    /\ \A h \in Handles : OwnedBy(<<RootEntry, DevEntry, PyEntry(h)>>) = {h}
<1>1. /\ RootEntry.ctx = NULL /\ DevEntry.ctx = NULL
      /\ \A h \in Handles : PyEntry(h).ctx = h /\ h # NULL
    BY NullIsNone DEF RootEntry, DevEntry, PyEntry
<1> HIDE DEF RootEntry, DevEntry, PyEntry
<1>2. OwnedBy(<< >>) = {}
    BY DEF OwnedBy
<1>3. OwnedBy(<<RootEntry>>) = {}
    BY <1>1 DEF OwnedBy
<1>4. OwnedBy(<<RootEntry, DevEntry>>) = {}
    BY <1>1 DEF OwnedBy
<1>5. ASSUME NEW h \in Handles PROVE OwnedBy(<<RootEntry, DevEntry, PyEntry(h)>>) = {h}
  <2> DEFINE t == <<RootEntry, DevEntry, PyEntry(h)>>
  <2>1. DOMAIN t = 1..3 /\ t[1].ctx = NULL /\ t[2].ctx = NULL /\ t[3].ctx = h /\ h # NULL
      BY <1>1
  <2>2. 3 \in 1..3 /\ \A i \in 1..3 : i = 1 \/ i = 2 \/ i = 3
      OBVIOUS
  <2> HIDE DEF t
  <2>3. OwnedBy(t) = {h}
      BY <2>1, <2>2 DEF OwnedBy
  <2> QED BY <2>3 DEF t
<1> QED BY <1>2, <1>3, <1>4, <1>5

LEMMA StartUpKeeps ==
    ASSUME registered \subseteq BlockDevices, OpenFds = {}, MountsInv,
           g_open \in [Fds -> [ops : {"none", "null", "zero", "block", "pyfs"},
                               ctx : Handles \cup {NULL}, pos : Nat]],
           got \in [Fds -> Nat], spoilt \in [Fds -> BOOLEAN], UnspoiltReadsDeliverFile,
           Allocated \subseteq Handles, heap \in [Allocated -> Objects], Allocated = MountOwned,
           \A h \in MountOwned : heap[h].kind = "pyfs" /\ heap[h].dev = PyfsDevice
    PROVE  VfsInv
<1>1. VfsTypeOK
    BY DEF VfsTypeOK
<1> HIDE DEF OpenFds, Allocated, MountOwned
<1>2. HeapMatchesTables
    BY DEF HeapMatchesTables
<1>3. PlacesInv
    BY DEF PlacesInv
<1> QED BY <1>1, <1>2, <1>3 DEF VfsInv

(* The same for the state after a step.                                    *)
LEMMA StartUpStep ==
    ASSUME VfsInv, pc # "run", UNCHANGED << registered, g_open, got, spoilt, last >>, MountsInv',
           Allocated' \subseteq Handles, heap' \in [Allocated' -> Objects], Allocated' = MountOwned',
           \A h \in MountOwned' : heap'[h].kind = "pyfs" /\ heap'[h].dev = PyfsDevice
    PROVE  VfsInv'
<1>1. /\ registered \subseteq BlockDevices /\ OpenFds = {}
      /\ g_open \in [Fds -> [ops : {"none", "null", "zero", "block", "pyfs"},
                             ctx : Handles \cup {NULL}, pos : Nat]]
      /\ got \in [Fds -> Nat] /\ spoilt \in [Fds -> BOOLEAN] /\ UnspoiltReadsDeliverFile
    BY DEF VfsInv, VfsTypeOK
<1>2. OpenFds' = {}
    BY <1>1 DEF OpenFds
<1>3. UnspoiltReadsDeliverFile'
    BY <1>1 DEF UnspoiltReadsDeliverFile, ReadsDeliverFile
<1>4. VfsTypeOK'
    BY <1>1, <1>2 DEF VfsTypeOK
<1> HIDE DEF OpenFds, Allocated, MountOwned
<1>5. HeapMatchesTables'
    BY <1>2 DEF HeapMatchesTables
<1>6. PlacesInv'
    BY <1>2 DEF PlacesInv
<1> QED BY <1>3, <1>4, <1>5, <1>6 DEF VfsInv

LEMMA InitVfsInv == Init => VfsInv
<1> SUFFICES ASSUME Init PROVE VfsInv
    OBVIOUS
<1>1. Closed.ops = "none"
      /\ Closed \in [ops : {"none", "null", "zero", "block", "pyfs"}, ctx : Handles \cup {NULL}, pos : Nat]
    BY DEF Closed
<1>2. /\ registered \subseteq BlockDevices /\ got \in [Fds -> Nat] /\ spoilt \in [Fds -> BOOLEAN]
      /\ g_mounts = << >> /\ heap = << >> /\ pc = "root" /\ last = NoRead
    BY DEF Init
<1>3. g_open = [fd \in Fds |-> Closed]
    BY DEF Init
<1> HIDE DEF Closed
<1>4. /\ OpenFds = {}
      /\ g_open \in [Fds -> [ops : {"none", "null", "zero", "block", "pyfs"},
                             ctx : Handles \cup {NULL}, pos : Nat]]
    BY <1>1, <1>3 DEF OpenFds
<1>5. MountsInv
    BY <1>2 DEF MountsInv
<1>6. MountOwned = OwnedBy(g_mounts)
    BY DEF MountOwned, OwnedBy
<1>7. Allocated = {} /\ heap \in [Allocated -> Objects]
    BY <1>2 DEF Allocated
<1>8. UnspoiltReadsDeliverFile
  <2>1. FileSize("null") = 0
      BY DEF FileSize
  <2>2. Expected("null", 0, 0) = DeviceBytes("null", 0, 0)
      BY <2>1 DEF Expected
  <2>3. DeviceBytes("null", 0, 0) = << >>
      BY Deliveries
  <2> QED BY <1>2, <2>2, <2>3 DEF UnspoiltReadsDeliverFile, ReadsDeliverFile, NoRead
<1> HIDE DEF OpenFds, Allocated, MountOwned, MountsInv, UnspoiltReadsDeliverFile
<1> QED BY <1>2, <1>4, <1>5, <1>6, <1>7, <1>8, MountOwns, StartUpKeeps

(* Before PyFS is mounted the heap is empty.                               *)
LEMMA NothingYet ==
    ASSUME VfsInv, pc # "run"
    PROVE  /\ MountOwned = {} /\ Allocated = {} /\ Allocated \subseteq Handles /\ heap \in [Allocated -> Objects]
           /\ pc = "root" => g_mounts = << >>
           /\ pc = "dev" => g_mounts = <<RootEntry>>
           /\ pc = "py" => g_mounts = <<RootEntry, DevEntry>>
<1>1. /\ pc = "root" => g_mounts = << >>
      /\ pc = "dev" => g_mounts = <<RootEntry>>
      /\ pc = "py" => g_mounts = <<RootEntry, DevEntry>>
      /\ pc \in {"root", "dev", "py"}
    BY DEF VfsInv, MountsInv
<1>2. MountOwned = {}
  <2>1. MountOwned = OwnedBy(g_mounts)
      BY DEF MountOwned, OwnedBy
  <2> QED BY <1>1, <2>1, MountOwns
<1>3. OpenFds = {} /\ Allocated \subseteq Handles /\ heap \in [Allocated -> Objects]
    BY DEF VfsInv, VfsTypeOK
<1>4. Allocated = {}
    BY <1>2, <1>3 DEF VfsInv, HeapMatchesTables
<1> QED BY <1>1, <1>2, <1>3, <1>4

LEMMA MountsKeep ==
    ASSUME VfsInv, MountRoot \/ MountDev \/ NoPy \/ \E h \in Handles : MountPy(h)
    PROVE  VfsInv'
<1>1. pc # "run" /\ UNCHANGED << registered, g_open, got, spoilt, last >>
    BY DEF MountRoot, MountDev, NoPy, MountPy
<1>2. /\ MountOwned = {} /\ Allocated = {} /\ Allocated \subseteq Handles /\ heap \in [Allocated -> Objects]
      /\ pc = "root" => g_mounts = << >>
      /\ pc = "dev" => g_mounts = <<RootEntry>>
      /\ pc = "py" => g_mounts = <<RootEntry, DevEntry>>
    BY <1>1, NothingYet
<1>3. /\ g_mounts' = << >> => MountOwned' = {}
      /\ g_mounts' = <<RootEntry>> => MountOwned' = {}
      /\ g_mounts' = <<RootEntry, DevEntry>> => MountOwned' = {}
      /\ \A h \in Handles : g_mounts' = <<RootEntry, DevEntry, PyEntry(h)>> => MountOwned' = {h}
  <2>1. MountOwned' = OwnedBy(g_mounts')
      BY DEF MountOwned, OwnedBy
  <2> QED BY <2>1, MountOwns
<1>4. CASE MountRoot \/ MountDev \/ NoPy
  <2>1. UNCHANGED heap /\ Allocated' = Allocated
      BY <1>4 DEF MountRoot, MountDev, NoPy, Allocated
  <2>2. MountsInv' /\ MountOwned' = {}
    <3>1. CASE MountRoot
      <4>1. pc' = "dev" /\ g_mounts' = <<RootEntry>>
          BY <1>2, <3>1, MountsAccepted DEF MountRoot
      <4> QED BY <1>3, <4>1 DEF MountsInv
    <3>2. CASE MountDev
      <4>1. pc' = "py" /\ g_mounts' = <<RootEntry, DevEntry>>
          BY <1>2, <3>2, MountsAccepted DEF MountDev
      <4> QED BY <1>3, <4>1 DEF MountsInv
    <3>3. CASE NoPy
      <4>1. pc' = "run" /\ g_mounts' = <<RootEntry, DevEntry>>
          BY <1>2, <3>3 DEF NoPy
      <4> QED BY <1>3, <4>1 DEF MountsInv
    <3> QED BY <1>4, <3>1, <3>2, <3>3
  <2> HIDE DEF Allocated, MountOwned, MountsInv, VfsInv
  <2> QED BY <1>1, <1>2, <2>1, <2>2, StartUpStep
<1>5. CASE \E h \in Handles : MountPy(h)
  <2>1. PICK h \in Handles : MountPy(h)
      BY <1>5
  <2>2. PICK obj : obj = [kind |-> "pyfs", link |-> NULL, dev |-> PyfsDevice]
      OBVIOUS
  <2>3. obj \in Objects /\ obj.kind = "pyfs" /\ obj.dev = PyfsDevice
      BY <2>2, VfsAssumption DEF Objects
  <2>4. heap' = With(h, obj) /\ pc' = "run" /\ g_mounts' = <<RootEntry, DevEntry, PyEntry(h)>>
      BY <1>2, <2>1, <2>2, MountsAccepted DEF MountPy
  <2>5. MountsInv' /\ MountOwned' = {h}
      BY <1>3, <2>4 DEF MountsInv
  <2>6. heap' = [k \in {h} |-> obj]
    <3>1. Allocated \cup {h} = {h}
        BY <1>2
    <3> HIDE DEF Allocated
    <3> QED BY <2>4, <3>1 DEF With
  <2>7. Allocated' = {h} /\ heap' \in [{h} -> Objects] /\ heap'[h] = obj
      BY <2>3, <2>6 DEF Allocated
  <2> HIDE DEF Allocated, MountOwned, MountsInv, VfsInv, Objects
  <2> QED BY <1>1, <2>3, <2>5, <2>7, StartUpStep
<1> QED BY <1>4, <1>5

-----------------------------------------------------------------------------
(* VfsInv is an invariant.                                                 *)
LEMMA NextVfsInv ==
    ASSUME VfsInv, [Next]_vars
    PROVE  VfsInv'
<1>1. Sizes \subseteq Nat
    BY VfsAssumption
<1> HIDE DEF VfsInv, Fds
<1>2. CASE MountRoot \/ MountDev \/ NoPy \/ \E h \in Handles : MountPy(h)
    BY <1>2, MountsKeep
<1>3. ASSUME NEW h \in Handles, NEW path \in Paths, Open(path, h) PROVE VfsInv'
    BY <1>3, OpenKeeps
<1>4. ASSUME NEW fd \in Fds, NEW size \in Sizes,
             \/ ReadNull(fd, size) \/ ReadZero(fd, size) \/ ReadBlock(fd, size) \/ ReadPyCached(fd, size)
      PROVE  VfsInv'
    BY <1>1, <1>4, ReadNullKeeps, ReadZeroKeeps, ReadBlockKeeps, ReadPyCachedKeeps
<1>5. ASSUME NEW fd \in Fds, NEW size \in Sizes, NEW k \in 0 .. size, ReadBlockFails(fd, size, k) PROVE VfsInv'
    BY <1>5, ReadBlockFailsKeeps
<1>6. ASSUME NEW fd \in Fds, NEW size \in Sizes, NEW h \in Handles, ReadPyFill(fd, size, h) PROVE VfsInv'
    BY <1>1, <1>6, ReadPyFillKeeps
<1>7. ASSUME NEW fd \in Fds, NEW h \in Handles, ReadPyFillFails(fd, h) PROVE VfsInv'
    BY <1>7, ReadPyFillFailsKeeps
<1>8. ASSUME NEW fd \in Fds, Close(fd) PROVE VfsInv'
    BY <1>8, CloseKeeps
<1>9. CASE UNCHANGED vars
    BY <1>9, StutterKeeps
<1>10. ASSUME NEW path \in Paths, OpenFails(path) PROVE VfsInv'
    BY <1>10, StutterKeeps DEF OpenFails
<1>11. ASSUME NEW fd \in Fds, NEW size \in Sizes, ReadRefused(fd, size) PROVE VfsInv'
    BY <1>11, StutterKeeps DEF ReadRefused
<1> QED BY <1>2, <1>3, <1>4, <1>5, <1>6, <1>7, <1>8, <1>9, <1>10, <1>11, Zenon DEF Next

(* Descriptors, heap, mount table and the last read agree in every state   *)
(* of vfs.c with nullfs, devfs and PyFS: VfsInv, the inductive invariant.  *)
THEOREM VfsInvariant == Spec => []VfsInv
<1>1. Init => VfsInv
    BY InitVfsInv
<1>2. VfsInv /\ [Next]_vars => VfsInv'
    BY NextVfsInv
<1> QED BY <1>1, <1>2, PTL DEF Spec

(* vfs_close frees what open and the first read of a PyFS file allocated,  *)
(* once and all of it, and no descriptor points to freed memory.           *)
THEOREM VfsHeapMatchesTables == Spec => []HeapMatchesTables
<1>1. VfsInv => HeapMatchesTables
    BY DEF VfsInv
<1> QED BY <1>1, VfsInvariant, PTL

(* Successful calls of vfs_read deliver the bytes that follow those of the *)
(* last one, unless the fill of this descriptor's PyFS cache has failed.   *)
THEOREM VfsReadsDeliverFile == Spec => []UnspoiltReadsDeliverFile
<1>1. VfsInv => UnspoiltReadsDeliverFile
    BY DEF VfsInv
<1> QED BY <1>1, VfsInvariant, PTL

(* vfs_find_mount finds the nearest mounted directory above every absolute *)
(* path, whatever the calls of vfs_mount were, and splits the path there:  *)
(* if it has no doubled slash, the file system is asked for a name with no *)
(* leading slash.                                                          *)
THEOREM VfsPathsFindTheirMount == Spec => []PathsFindTheirMount
<1>1. VfsInv => PathsFindTheirMount
    BY SearchIsRight DEF VfsInv
<1> QED BY <1>1, VfsInvariant, PTL
=============================================================================
