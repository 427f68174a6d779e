----------------------------- MODULE HeapProofs -----------------------------
(***************************************************************************)
(* Proofs about the kernel heap, for every heap size and every set of      *)
(* request sizes.  HeapInv is inductive; the safety properties follow.     *)
(***************************************************************************)
EXTENDS Heap, TLAPS

-----------------------------------------------------------------------------
(* The inductive invariant.                                                *)
HeadersGood == \A a \in blocks : magic[a] /\ size[a] % ALIGN = 0

LiveAreUsedBlocks ==
    /\ \A r \in live : /\ r.ptr - HDR \in blocks
                       /\ ~is_free[r.ptr - HDR]
                       /\ r.n > 0 /\ r.n <= size[r.ptr - HDR]
    /\ \A r, s \in live : r.ptr = s.ptr => r = s
    /\ \A a \in blocks : ~is_free[a] => \E r \in live : r.ptr = a + HDR

FreedStayFree == \A p \in freed : p - HDR \in Addr /\ is_free[p - HDR]

WalkInv ==
    /\ Walking => /\ asked \in Requests /\ asked > 0 /\ asked <= req
                  /\ req % ALIGN = 0
                  /\ cur # NULL => cur \in blocks
                  /\ \A a \in blocks : (cur = NULL \/ a < cur) => ~Fits(a)
    /\ Idle => cur = NULL /\ asked = 0

HeapInv ==
    /\ TypeOK
    /\ ListTilesHeap
    /\ FullyCoalesced
    /\ HeadersGood
    /\ LiveAreUsedBlocks
    /\ FreedStayFree
    /\ WalkInv

-----------------------------------------------------------------------------
(* AlignUp, kmalloc's rounding, is exact: at least n, and aligned.         *)
LEMMA AlignUpFacts ==
    ASSUME NEW n \in Nat, n > 0
    PROVE  AlignUp(n) \in Nat /\ AlignUp(n) >= n /\ AlignUp(n) % ALIGN = 0
BY DEF AlignUp, ALIGN

LEMMA AlignedSum ==
    ASSUME NEW a \in Nat, NEW b \in Nat, a % 4 = 0, b % 4 = 0
    PROVE  (a + b) % 4 = 0 /\ (a + 20 + b) % 4 = 0
OBVIOUS

(* heap_init establishes the invariant.                                    *)
LEMMA InitHeapInv == Init => HeapInv
<1> SUFFICES ASSUME Init PROVE HeapInv
    OBVIOUS
<1> USE HeapSizeAssumption DEF Init, Addr, NULL, HDR, ALIGN, MAX_DATA
<1>0. 0 \in Addr /\ MAX_DATA \in Nat /\ NULL \notin Addr
    OBVIOUS
<1>1. TypeOK
    BY <1>0 DEF TypeOK
<1>2. ListTilesHeap
    BY <1>0 DEF ListTilesHeap, End
<1>3. is_free[0] /\ magic[0]
    BY <1>0, Zenon
<1>4. size[0] % ALIGN = 0 /\ next[0] = NULL
    BY <1>0
<1>5. FullyCoalesced
    BY <1>4 DEF FullyCoalesced
<1>6. HeadersGood
    BY <1>3, <1>4 DEF HeadersGood
<1>7. LiveAreUsedBlocks
    BY <1>3 DEF LiveAreUsedBlocks
<1>8. FreedStayFree /\ WalkInv
    BY <1>0 DEF FreedStayFree, WalkInv, Walking, Idle
<1> QED BY <1>1, <1>2, <1>5, <1>6, <1>7, <1>8 DEF HeapInv

(* Where the header of a split block lies: inside the region, aligned,     *)
(* inside the data of the block being split, and not on the list.          *)
LEMMA SplitFacts ==
    ASSUME HeapInv, Walking, cur # NULL, Fits(cur), Splits(cur)
    PROVE  /\ cur \in blocks /\ cur \in Addr /\ is_free[cur]
           /\ NewBlock(cur) \in Addr /\ NewBlock(cur) \notin blocks
           /\ NewBlock(cur) < End(cur) - HDR
           /\ req \in Nat /\ req >= 4
           /\ \A a \in blocks : a > cur => a > NewBlock(cur)
<1> USE HeapSizeAssumption DEF NULL, HDR, ALIGN
<1>1. cur \in blocks /\ cur \in Addr /\ is_free[cur]
    BY DEF HeapInv, WalkInv, TypeOK, Fits
<1>2. size[cur] \in Nat /\ req \in Nat /\ cur \in Nat /\ size[cur] % 4 = 0
    BY <1>1 DEF HeapInv, TypeOK, Addr, HeadersGood
<1>3. req >= 4 /\ req % 4 = 0
  <2>1. req > 0 /\ req % 4 = 0
      BY DEF HeapInv, WalkInv, Walking
  <2> QED BY <1>2, <2>1
<1>4. NewBlock(cur) < End(cur) - HDR /\ End(cur) <= HEAP_INITIAL_SIZE
    BY <1>1, <1>2 DEF NewBlock, End, Splits, HeapInv, ListTilesHeap
<1>5. NewBlock(cur) \in Addr
  <2>1. NewBlock(cur) % 4 = 0
      BY <1>1, <1>2, <1>3, AlignedSum DEF NewBlock, Addr
  <2>2. NewBlock(cur) \in 0 .. (HEAP_INITIAL_SIZE - 1)
      BY <1>1, <1>2, <1>3, <1>4 DEF NewBlock, End
  <2> QED BY <2>1, <2>2 DEF Addr
<1>6. \A a \in blocks : a > cur => a > NewBlock(cur)
  <2>1. \A a \in blocks : a \in Nat
      BY DEF HeapInv, TypeOK, Addr
  <2>2. \A a \in blocks : cur < a => End(cur) <= a
      BY <1>1 DEF HeapInv, ListTilesHeap
  <2>3. End(cur) \in Nat /\ NewBlock(cur) \in Nat
      BY <1>2 DEF End, NewBlock
  <2> QED BY <1>2, <1>4, <2>1, <2>2, <2>3
<1>7. NewBlock(cur) \notin blocks
    BY <1>1, <1>2, <1>3, <1>6 DEF NewBlock, HeapInv, TypeOK, Addr
<1> QED BY <1>1, <1>2, <1>3, <1>4, <1>5, <1>6, <1>7

(* The types of what a step on a block of the list reads.                  *)
LEMMA BlockFacts ==
    ASSUME HeapInv, NEW a \in blocks
    PROVE  /\ a \in Addr /\ a \in Nat /\ a # NULL
           /\ size[a] \in Nat /\ size[a] % 4 = 0 /\ End(a) \in Nat
           /\ is_free[a] \in BOOLEAN /\ magic[a]
           /\ next[a] \in blocks \cup {NULL}
<1> USE DEF HeapInv
<1>1. a \in Addr
    BY DEF TypeOK
<1>2. a \in Nat /\ a # NULL
    BY <1>1 DEF Addr, NULL
<1>3. size[a] \in Nat /\ is_free[a] \in BOOLEAN
    BY <1>1 DEF TypeOK
<1>4. End(a) \in Nat
    BY <1>2, <1>3 DEF End, HDR
<1>5. size[a] % 4 = 0 /\ magic[a]
    BY DEF HeadersGood, ALIGN
<1>6. next[a] \in blocks \cup {NULL}
    BY DEF ListTilesHeap
<1> QED BY <1>1, <1>2, <1>3, <1>4, <1>5, <1>6

(* kmalloc's walk: what is behind the cursor does not fit.                 *)
LEMMA StepStart ==
    ASSUME HeapInv, NEW n \in Requests, KmallocStart(n)
    PROVE  HeapInv'
<1> USE DEF HeapInv, KmallocStart, header
<1>1. n \in Nat /\ AlignUp(n) \in Nat /\ AlignUp(n) >= n /\ AlignUp(n) % ALIGN = 0
    BY AlignUpFacts, RequestsAssumption
<1>2. 0 \in Addr
    BY DEF ListTilesHeap, TypeOK
<1>3. TypeOK'
    BY <1>1, <1>2 DEF TypeOK
<1>4. ListTilesHeap' /\ FullyCoalesced' /\ HeadersGood'
    BY DEF ListTilesHeap, FullyCoalesced, HeadersGood, End
<1>5. LiveAreUsedBlocks' /\ FreedStayFree'
    BY DEF LiveAreUsedBlocks, FreedStayFree
<1>6. WalkInv'
  <2>1. \A a \in blocks : a \in Nat
      BY DEF TypeOK, Addr
  <2>2. req' > 0 /\ req' = AlignUp(n)
      BY <1>1
  <2>3. cur' \in blocks' /\ \A a \in blocks' : ~(cur' = NULL \/ a < cur')
      BY <2>1 DEF ListTilesHeap, NULL
  <2>4. asked' \in Requests /\ asked' > 0 /\ asked' <= req' /\ req' % ALIGN = 0
      BY <1>1, <2>2
  <2> QED BY <1>1, <2>2, <2>3, <2>4 DEF WalkInv, Walking, Idle
<1> QED BY <1>3, <1>4, <1>5, <1>6

LEMMA StepAdvance ==
    ASSUME HeapInv, KmallocAdvance
    PROVE  HeapInv'
<1> USE DEF HeapInv, KmallocAdvance, header
<1>1. cur \in blocks
    BY DEF WalkInv
<1>2. TypeOK'
    BY <1>1, BlockFacts DEF TypeOK
<1>3. ListTilesHeap' /\ FullyCoalesced' /\ HeadersGood'
    BY DEF ListTilesHeap, FullyCoalesced, HeadersGood, End
<1>4. LiveAreUsedBlocks' /\ FreedStayFree'
    BY DEF LiveAreUsedBlocks, FreedStayFree
<1>5. WalkInv'
  <2>1. \A a \in blocks : (cur' = NULL \/ a < cur') => a <= cur
    <3> SUFFICES ASSUME NEW a \in blocks, cur' = NULL \/ a < cur', a > cur
                 PROVE  FALSE
        BY <1>1, BlockFacts
    <3>1. End(cur) <= a /\ End(a) <= HEAP_INITIAL_SIZE
        BY <1>1 DEF ListTilesHeap
    <3>2. a < End(a) /\ End(a) \in Nat /\ End(cur) \in Nat /\ a \in Nat
        BY <1>1, BlockFacts DEF End, HDR
    <3>3. CASE next[cur] = NULL
      <4>1. End(cur) = HEAP_INITIAL_SIZE
          BY <1>1, <3>3 DEF ListTilesHeap
      <4> QED BY <3>1, <3>2, <4>1, HeapSizeAssumption
    <3>4. CASE next[cur] # NULL
      <4>1. next[cur] = End(cur)
          BY <1>1, <3>4 DEF ListTilesHeap
      <4> QED BY <3>1, <3>2, <3>4, <4>1
    <3> QED BY <3>3, <3>4
  <2>2. \A a \in blocks : a <= cur => ~Fits(a)
      BY <1>1, BlockFacts DEF WalkInv
  <2>3. \A a \in blocks' : (cur' = NULL \/ a < cur') => ~Fits(a)'
      BY <2>1, <2>2 DEF Fits
  <2>4. cur' # NULL => cur' \in blocks'
      BY <1>1, BlockFacts
  <2> QED BY <2>3, <2>4 DEF WalkInv, Walking, Idle
<1> QED BY <1>2, <1>3, <1>4, <1>5

LEMMA StepFail ==
    ASSUME HeapInv, KmallocFail
    PROVE  HeapInv'
<1> USE DEF HeapInv, KmallocFail, header
<1>1. TypeOK' /\ ListTilesHeap' /\ FullyCoalesced' /\ HeadersGood'
    BY DEF TypeOK, ListTilesHeap, FullyCoalesced, HeadersGood, End
<1>2. LiveAreUsedBlocks' /\ FreedStayFree'
    BY DEF LiveAreUsedBlocks, FreedStayFree
<1>3. WalkInv'
    BY DEF WalkInv, Walking, Idle
<1> QED BY <1>1, <1>2, <1>3

LEMMA StepClientWrite ==
    ASSUME HeapInv, NEW r \in live, ClientWrite(r)
    PROVE  HeapInv'
<1> USE DEF HeapInv, ClientWrite, call
<1>1. \A a \in blocks : ~Overwrites(r, a)
  <2> SUFFICES ASSUME NEW a \in blocks PROVE ~Overwrites(r, a)
      OBVIOUS
  <2> DEFINE h == r.ptr - HDR
  <2>1. h \in blocks /\ r.n <= size[h] /\ r.n \in Nat /\ r.ptr \in Nat
      BY DEF LiveAreUsedBlocks, TypeOK
  <2>2. /\ h \in Nat /\ a \in Nat /\ size[h] \in Nat /\ size[a] \in Nat
        /\ h < a => h + HDR + size[h] <= a
        /\ a < h => a + HDR + size[a] <= h
      BY <2>1, BlockFacts DEF ListTilesHeap, End
  <2> QED BY <2>1, <2>2 DEF Overwrites, HDR
<1>2. TypeOK'
    BY DEF TypeOK
<1>3. ListTilesHeap' /\ FullyCoalesced'
    BY DEF ListTilesHeap, FullyCoalesced, End
<1>4. HeadersGood'
    BY <1>1, BlockFacts DEF HeadersGood, ALIGN
<1>5. LiveAreUsedBlocks' /\ FreedStayFree' /\ WalkInv'
    BY DEF LiveAreUsedBlocks, FreedStayFree, WalkInv, Walking, Idle
<1> QED BY <1>2, <1>3, <1>4, <1>5

(* A returned pointer is new: the block behind it was free.                *)
LEMMA NewPointer ==
    ASSUME HeapInv, Walking, cur # NULL, Fits(cur)
    PROVE  /\ cur \in blocks /\ is_free[cur] /\ req <= size[cur]
           /\ asked \in Requests /\ asked \in Nat /\ asked > 0 /\ asked <= req
           /\ cur + HDR \in Nat /\ (cur + HDR) - HDR = cur
           /\ \A s \in live : s.ptr \in Nat /\ s.ptr # cur + HDR
<1> USE DEF HeapInv
<1>1. cur \in blocks /\ is_free[cur] /\ req <= size[cur]
    BY BlockFacts DEF WalkInv, Fits, TypeOK
<1>2. asked \in Requests /\ asked \in Nat /\ asked > 0 /\ asked <= req
    BY DEF WalkInv, TypeOK
<1>3. cur + HDR \in Nat /\ (cur + HDR) - HDR = cur
    BY <1>1, BlockFacts DEF HDR
<1>4. \A s \in live : s.ptr \in Nat /\ s.ptr # cur + HDR
    BY <1>1, <1>3 DEF LiveAreUsedBlocks, TypeOK
<1> QED BY <1>1, <1>2, <1>3, <1>4

LEMMA StepTake ==
    ASSUME HeapInv, KmallocTake
    PROVE  HeapInv'
<1> USE DEF HeapInv, KmallocTake, Return
<1> DEFINE new == [ptr |-> cur + HDR, n |-> asked]
<1>0. /\ cur \in blocks /\ is_free[cur] /\ req <= size[cur]
      /\ asked \in Nat /\ asked > 0 /\ asked <= req
      /\ cur + HDR \in Nat /\ (cur + HDR) - HDR = cur
      /\ \A s \in live : s.ptr \in Nat /\ s.ptr # cur + HDR
    BY NewPointer
<1>1. cur \in Addr /\ req \in Nat /\ size[cur] \in Nat
    BY <1>0, BlockFacts DEF TypeOK
<1>2. /\ ~is_free'[cur]
      /\ \A a \in Addr : a # cur => is_free'[a] = is_free[a]
      /\ \A a \in Addr : is_free'[a] => is_free[a]
    BY <1>0, <1>1 DEF TypeOK
<1>3. TypeOK'
    BY <1>0, <1>1 DEF TypeOK
<1>4. ListTilesHeap'
    BY DEF ListTilesHeap, End
<1>5. FullyCoalesced'
    BY <1>2, BlockFacts DEF FullyCoalesced
<1>6. HeadersGood' /\ FreedStayFree' /\ WalkInv'
    BY DEF HeadersGood, FreedStayFree, WalkInv, Walking, Idle
<1>7. LiveAreUsedBlocks'
  <2>1. \A r \in live' : /\ r.ptr - HDR \in blocks'
                         /\ ~is_free'[r.ptr - HDR]
                         /\ r.n > 0 /\ r.n <= size'[r.ptr - HDR]
    <3> SUFFICES ASSUME NEW r \in live'
                 PROVE  /\ r.ptr - HDR \in blocks
                        /\ ~is_free'[r.ptr - HDR]
                        /\ r.n > 0 /\ r.n <= size[r.ptr - HDR]
        OBVIOUS
    <3>1. CASE r = new
        BY <1>0, <1>1, <1>2, <3>1
    <3>2. CASE r \in live
        BY <1>2, <3>2, BlockFacts DEF LiveAreUsedBlocks
    <3> QED BY <3>1, <3>2
  <2>2. \A r, s \in live' : r.ptr = s.ptr => r = s
      BY <1>0 DEF LiveAreUsedBlocks
  <2>3. \A a \in blocks' : ~is_free'[a] => \E r \in live' : r.ptr = a + HDR
    <3> SUFFICES ASSUME NEW a \in blocks, ~is_free'[a]
                 PROVE  \E r \in live' : r.ptr = a + HDR
        OBVIOUS
    <3>1. CASE a = cur
      <4>1. new \in live' /\ new.ptr = cur + HDR
          OBVIOUS
      <4> QED BY <3>1, <4>1
    <3>2. CASE a # cur
        BY <1>2, <3>2, BlockFacts DEF LiveAreUsedBlocks
    <3> QED BY <3>1, <3>2
  <2> QED BY <2>1, <2>2, <2>3 DEF LiveAreUsedBlocks
<1> QED BY <1>3, <1>4, <1>5, <1>6, <1>7

LEMMA StepSplit ==
    ASSUME HeapInv, KmallocSplit
    PROVE  HeapInv'
<1> DEFINE new == NewBlock(cur)
           rec == [ptr |-> cur + HDR, n |-> asked]
           End2(a) == a + HDR + size'[a]
<1>0. /\ cur \in blocks /\ cur \in Addr /\ is_free[cur]
      /\ new \in Addr /\ new \notin blocks /\ new < End(cur) - HDR
      /\ req \in Nat /\ req >= 4
      /\ \A a \in blocks : a > cur => a > new
    BY SplitFacts DEF KmallocSplit
<1>1. /\ asked \in Nat /\ asked > 0 /\ asked <= req
      /\ cur + HDR \in Nat /\ (cur + HDR) - HDR = cur
      /\ \A s \in live : s.ptr \in Nat /\ s.ptr # cur + HDR
    BY NewPointer DEF KmallocSplit
<1>2. /\ cur \in Nat /\ new \in Nat /\ size[cur] \in Nat /\ End(cur) \in Nat
      /\ new = cur + HDR + req /\ cur < new /\ size[cur] - req - HDR \in Nat
    BY <1>0, BlockFacts DEF NewBlock, End, Addr, HDR
<1>3. /\ size' = [size EXCEPT ![new] = size[cur] - req - HDR, ![cur] = req]
      /\ is_free' = [is_free EXCEPT ![new] = TRUE, ![cur] = FALSE]
      /\ magic' = [magic EXCEPT ![new] = TRUE]
      /\ next' = [next EXCEPT ![new] = next[cur], ![cur] = new]
      /\ prev' = [a \in Addr |-> IF a = new THEN cur
                                 ELSE IF a = next[cur] THEN new ELSE prev[a]]
      /\ blocks' = blocks \cup {new}
      /\ live' = live \cup {rec} /\ freed' = {}
      /\ req' = 0 /\ cur' = NULL /\ asked' = 0
    BY DEF KmallocSplit, Return, PrevAfterSplit
<1> HIDE DEF new, rec
<1>4. TypeOK'
  <2>0. /\ size \in [Addr -> Nat] /\ is_free \in [Addr -> BOOLEAN]
        /\ magic \in [Addr -> BOOLEAN]
        /\ next \in [Addr -> Addr \cup {NULL}] /\ prev \in [Addr -> Addr \cup {NULL}]
        /\ blocks \subseteq Addr /\ live \subseteq [ptr : Nat, n : Nat]
      BY DEF HeapInv, TypeOK
  <2>1. size' \in [Addr -> Nat]
      BY <1>0, <1>2, <1>3, <2>0
  <2>2. is_free' \in [Addr -> BOOLEAN] /\ magic' \in [Addr -> BOOLEAN]
      BY <1>0, <1>3, <2>0
  <2>3. next' \in [Addr -> Addr \cup {NULL}]
      BY <1>0, <1>3, <2>0
  <2>4. prev' \in [Addr -> Addr \cup {NULL}]
      BY <1>0, <1>3, <2>0
  <2>5. blocks' \subseteq Addr
      BY <1>0, <1>3, <2>0
  <2>6. live' \subseteq [ptr : Nat, n : Nat]
      BY <1>1, <1>3, <2>0 DEF rec
  <2> QED BY <1>3, <2>1, <2>2, <2>3, <2>4, <2>5, <2>6 DEF TypeOK
<1>5. /\ size'[new] = size[cur] - req - HDR /\ size'[cur] = req
      /\ \A a \in blocks \ {cur} : size'[a] = size[a]
    BY <1>0, <1>2, <1>3, BlockFacts DEF HeapInv, TypeOK
<1>6. /\ next'[new] = next[cur] /\ next'[cur] = new
      /\ \A a \in blocks \ {cur} : next'[a] = next[a]
    BY <1>0, <1>2, <1>3, BlockFacts DEF HeapInv, TypeOK
<1>7. /\ is_free'[new] /\ ~is_free'[cur]
      /\ \A a \in blocks \ {cur} : is_free'[a] = is_free[a]
    BY <1>0, <1>2, <1>3, BlockFacts DEF HeapInv, TypeOK
<1>8. /\ End2(new) = End(cur) /\ End2(cur) = new
      /\ \A a \in blocks \ {cur} : End2(a) = End(a)
    BY <1>0, <1>2, <1>5, BlockFacts DEF End, HDR
<1> HIDE DEF End2
<1>9. ListTilesHeap'
  <2>0. \A x \in blocks :
           /\ End(x) <= HEAP_INITIAL_SIZE
           /\ next[x] = NULL => End(x) = HEAP_INITIAL_SIZE
           /\ next[x] # NULL => /\ next[x] \in blocks
                                /\ next[x] = End(x)
                                /\ prev[next[x]] = x
           /\ x # 0 => prev[x] \in blocks /\ next[prev[x]] = x
      BY DEF HeapInv, ListTilesHeap
  <2>1. 0 \in blocks' /\ prev'[0] = NULL
    <3>1. 0 \in blocks /\ prev[0] = NULL /\ 0 \in Addr /\ 0 # new
        BY <1>0, BlockFacts DEF HeapInv, ListTilesHeap
    <3>2. next[cur] # 0
        BY <1>0, <1>2, BlockFacts DEF HeapInv, ListTilesHeap, NULL, End, HDR
    <3> QED BY <1>3, <3>1, <3>2
  <2>2. ASSUME NEW a \in blocks'
        PROVE  /\ End2(a) <= HEAP_INITIAL_SIZE
               /\ next'[a] = NULL => End2(a) = HEAP_INITIAL_SIZE
               /\ next'[a] # NULL => /\ next'[a] \in blocks'
                                     /\ next'[a] = End2(a)
                                     /\ prev'[next'[a]] = a
               /\ a # 0 => prev'[a] \in blocks' /\ next'[prev'[a]] = a
    <3>1. CASE a = new
      <4>1. End2(a) = End(cur) /\ next'[a] = next[cur] /\ prev'[a] = cur
          BY <1>0, <1>3, <1>6, <1>8, <3>1
      <4>2. next[cur] # NULL => next[cur] \in Addr /\ next[cur] # new
          BY <1>0, BlockFacts
      <4>3. next[cur] # NULL => prev'[next[cur]] = new
          BY <1>3, <4>2
      <4>4. /\ End(cur) <= HEAP_INITIAL_SIZE
            /\ next[cur] = NULL => End(cur) = HEAP_INITIAL_SIZE
            /\ next[cur] # NULL => next[cur] \in blocks /\ next[cur] = End(cur)
          BY <1>0, <2>0
      <4>5. cur \in blocks' /\ next'[cur] = a /\ blocks \subseteq blocks'
          BY <1>0, <1>3, <1>6, <3>1
      <4> QED BY <3>1, <4>1, <4>3, <4>4, <4>5
    <3>2. CASE a = cur
      <4>1. End2(a) = new /\ next'[a] = new /\ prev'[new] = cur
          BY <1>0, <1>3, <1>6, <1>8, <3>2
      <4>2. new <= HEAP_INITIAL_SIZE /\ new # NULL
          BY <1>0, HeapSizeAssumption DEF Addr, NULL
      <4>3. next[cur] # cur
          BY <1>0, <1>2, BlockFacts DEF HeapInv, ListTilesHeap, NULL, End, HDR
      <4>4. prev'[cur] = prev[cur]
          BY <1>0, <1>2, <1>3, <4>3
      <4>5. cur # 0 => prev[cur] \in blocks /\ next[prev[cur]] = cur
          BY <1>0 DEF HeapInv, ListTilesHeap
      <4>6. cur # 0 => prev[cur] # cur
          BY <4>3, <4>5
      <4>7. cur # 0 => next'[prev[cur]] = cur
          BY <1>6, <4>5, <4>6
      <4> QED BY <1>3, <3>2, <4>1, <4>2, <4>4, <4>5, <4>7
    <3>3. CASE a \in blocks \ {cur}
      <4>1. End2(a) = End(a) /\ next'[a] = next[a] /\ a \in blocks
          BY <1>6, <1>8, <3>3
      <4>2. next[a] # NULL => /\ next[a] \in blocks /\ next[a] # new
                              /\ next[a] # next[cur] /\ next[a] \in Addr
        <5>1. next[a] # NULL => next[a] \in blocks /\ prev[next[a]] = a
            BY <4>1 DEF HeapInv, ListTilesHeap
        <5>2. next[cur] # NULL => prev[next[cur]] = cur
            BY <1>0 DEF HeapInv, ListTilesHeap
        <5> QED BY <1>0, <3>3, <5>1, <5>2, BlockFacts
      <4>3. next[a] # NULL => prev'[next[a]] = prev[next[a]]
          BY <1>3, <4>2
      <4>6. /\ End2(a) <= HEAP_INITIAL_SIZE
            /\ next'[a] = NULL => End2(a) = HEAP_INITIAL_SIZE
            /\ next'[a] # NULL => /\ next'[a] \in blocks'
                                  /\ next'[a] = End2(a)
                                  /\ prev'[next'[a]] = a
        <5>1. /\ End(a) <= HEAP_INITIAL_SIZE
              /\ next[a] = NULL => End(a) = HEAP_INITIAL_SIZE
              /\ next[a] # NULL => next[a] = End(a) /\ prev[next[a]] = a
            BY <2>0, <4>1
        <5>2. next[a] # NULL => next[a] \in blocks'
            BY <1>3, <4>2
        <5> QED BY <4>1, <4>3, <5>1, <5>2
      <4>4. CASE a = next[cur]
        <5>1. prev'[a] = new /\ next'[new] = a /\ new \in blocks'
            BY <1>0, <1>3, <1>6, <4>1, <4>4, BlockFacts
        <5> QED BY <4>1, <4>6, <5>1
      <4>5. CASE a # next[cur]
        <5>1. prev'[a] = prev[a]
            BY <1>0, <1>3, <4>1, <4>5, BlockFacts
        <5>2. a # 0 => /\ prev[a] \in blocks /\ next[prev[a]] = a /\ prev[a] # cur
            BY <4>1, <4>5 DEF HeapInv, ListTilesHeap
        <5>3. a # 0 => next'[prev[a]] = a
            BY <1>6, <5>2
        <5>4. a # 0 => prev[a] \in blocks'
            BY <1>3, <5>2
        <5> QED BY <4>1, <4>6, <5>1, <5>3, <5>4
      <4> QED BY <4>4, <4>5
    <3> QED BY <1>3, <3>1, <3>2, <3>3
  <2>3. ASSUME NEW a \in blocks', NEW b \in blocks', a < b
        PROVE  End2(a) <= b
    <3>1. \A x, y \in blocks : x < y => End(x) <= y
        BY DEF HeapInv, ListTilesHeap
    <3>2. \A x \in blocks : x \in Nat /\ End(x) \in Nat /\ x < End(x)
        BY BlockFacts DEF End, HDR
    <3>3. CASE a = new
        BY <1>0, <1>2, <1>3, <1>8, <2>3, <3>1, <3>2, <3>3
    <3>4. CASE a = cur
        BY <1>0, <1>2, <1>3, <1>8, <2>3, <3>2, <3>4
    <3>5. CASE a \in blocks \ {cur} /\ b = new
      <4>1. a < cur
          BY <1>0, <1>2, <2>3, <3>2, <3>5
      <4> QED BY <1>0, <1>2, <1>8, <3>1, <3>2, <3>5, <4>1
    <3>6. CASE a \in blocks \ {cur} /\ b \in blocks
        BY <1>8, <2>3, <3>1, <3>6
    <3> QED BY <1>3, <3>3, <3>4, <3>5, <3>6
  <2> QED BY <2>1, <2>2, <2>3 DEF ListTilesHeap, End, End2
<1>10. FullyCoalesced'
  <2> SUFFICES ASSUME NEW a \in blocks', is_free'[a], next'[a] # NULL
               PROVE  ~is_free'[next'[a]]
      BY DEF FullyCoalesced
  <2>1. CASE a = new
    <3>1. next'[a] = next[cur] /\ next[cur] \in blocks
        BY <1>0, <1>6, <2>1, BlockFacts
    <3>2. ~is_free[next[cur]] /\ next[cur] # cur
        BY <1>0, <1>6, <2>1, <3>1 DEF HeapInv, FullyCoalesced
    <3> QED BY <1>7, <3>1, <3>2
  <2>2. CASE a \in blocks \ {cur}
    <3>1. next'[a] = next[a] /\ is_free[a] /\ next[a] \in blocks
        BY <1>6, <1>7, <2>2, BlockFacts
    <3>2. ~is_free[next[a]]
        BY <1>6, <2>2, <3>1 DEF HeapInv, FullyCoalesced
    <3> QED BY <1>0, <1>7, <3>1, <3>2
  <2> QED BY <1>3, <1>7, <2>1, <2>2
<1>11. HeadersGood'
  <2>1. \A a \in blocks' : magic'[a]
      BY <1>0, <1>3, BlockFacts DEF HeapInv, TypeOK
  <2>2. size[cur] % 4 = 0 /\ req % 4 = 0
      BY <1>0, BlockFacts DEF HeapInv, WalkInv, KmallocSplit, ALIGN
  <2>3. size'[new] % 4 = 0
      BY <1>0, <1>2, <1>5, <2>2 DEF HDR
  <2>4. \A a \in blocks' : size'[a] % 4 = 0
      BY <1>3, <1>5, <2>2, <2>3, BlockFacts
  <2> QED BY <2>1, <2>4 DEF HeadersGood, ALIGN
<1>12. LiveAreUsedBlocks'
  <2>1. ASSUME NEW r \in live'
        PROVE  /\ r.ptr - HDR \in blocks'
               /\ ~is_free'[r.ptr - HDR]
               /\ r.n > 0 /\ r.n <= size'[r.ptr - HDR]
    <3>1. CASE r = rec
        BY <1>0, <1>1, <1>3, <1>5, <1>7, <3>1 DEF rec
    <3>2. CASE r \in live
      <4>1. /\ r.ptr - HDR \in blocks /\ ~is_free[r.ptr - HDR]
            /\ r.n > 0 /\ r.n <= size[r.ptr - HDR]
          BY <3>2 DEF HeapInv, LiveAreUsedBlocks
      <4>2. r.ptr - HDR # cur
          BY <1>0, <4>1
      <4> QED BY <1>3, <1>5, <1>7, <4>1, <4>2
    <3> QED BY <1>3, <3>1, <3>2
  <2>2. \A r, s \in live' : r.ptr = s.ptr => r = s
      BY <1>1, <1>3 DEF HeapInv, LiveAreUsedBlocks, rec
  <2>3. ASSUME NEW a \in blocks', ~is_free'[a]
        PROVE  \E r \in live' : r.ptr = a + HDR
    <3>1. CASE a = cur
      <4>1. rec \in live' /\ rec.ptr = cur + HDR
          BY <1>3 DEF rec
      <4> QED BY <3>1, <4>1
    <3>2. CASE a # cur
        BY <1>3, <1>7, <2>3, <3>2, BlockFacts DEF HeapInv, LiveAreUsedBlocks
    <3> QED BY <3>1, <3>2
  <2> QED BY <2>1, <2>2, <2>3 DEF LiveAreUsedBlocks
<1>13. FreedStayFree' /\ WalkInv'
    BY <1>3 DEF FreedStayFree, WalkInv, Walking, Idle
<1> QED BY <1>4, <1>9, <1>10, <1>11, <1>12, <1>13 DEF HeapInv

(***************************************************************************)
(* kfree.  Into(h) is the block that absorbs the freed block h, Last(h)    *)
(* the last block absorbed, and NextAfterRight(h) what follows it.         *)
(***************************************************************************)
Into(h) == IF LeftFree(h) THEN prev[h] ELSE h
Last(h) == IF RightFree(h) THEN next[h] ELSE h

(* The links of a block of the list, as ListTilesHeap gives them.          *)
LEMMA LinkFacts ==
    ASSUME HeapInv, NEW a \in blocks
    PROVE  /\ End(a) <= HEAP_INITIAL_SIZE /\ a < End(a)
           /\ next[a] = NULL => End(a) = HEAP_INITIAL_SIZE
           /\ next[a] # NULL => /\ next[a] \in blocks
                                /\ next[a] = End(a)
                                /\ prev[next[a]] = a
           /\ a # 0 => prev[a] \in blocks /\ next[prev[a]] = a /\ prev[a] # NULL
           /\ \A b \in blocks : a < b => End(a) <= b
<1>1. a < End(a)
    BY BlockFacts DEF End, HDR
<1>2. prev[a] \in blocks => prev[a] # NULL
    BY BlockFacts
<1> QED BY <1>1, <1>2 DEF HeapInv, ListTilesHeap

(* The list around the block being freed.                                  *)
LEMMA KfreeNeighbours ==
    ASSUME HeapInv, NEW h \in blocks
    PROVE  /\ Into(h) \in blocks /\ Last(h) \in blocks
           /\ LeftFree(h) => h # 0 /\ next[Into(h)] = h /\ Into(h) < h /\ End(Into(h)) = h
           /\ RightFree(h) => prev[Last(h)] = h /\ h < Last(h) /\ Last(h) = End(h)
           /\ NextAfterRight(h) = next[Last(h)]
<1>1. LeftFree(h) => h # 0
    BY DEF LeftFree, HeapInv, ListTilesHeap
<1>2. LeftFree(h) => /\ prev[h] \in blocks /\ next[prev[h]] = h
    BY <1>1, LinkFacts
<1>3. LeftFree(h) => prev[h] < h /\ End(prev[h]) = h
    BY <1>2, LinkFacts, BlockFacts
<1>4. RightFree(h) => /\ next[h] \in blocks /\ prev[next[h]] = h /\ next[h] = End(h) /\ h < next[h]
    BY LinkFacts DEF RightFree
<1> QED BY <1>1, <1>2, <1>3, <1>4 DEF Into, Last, NextAfterRight

LEMMA KfreeSizes ==
    ASSUME HeapInv, NEW r \in live, Kfree(r)
    PROVE  LET h == r.ptr - HDR IN
           /\ size' \in [Addr -> Nat]
           /\ size'[Into(h)] \in Nat /\ size'[Into(h)] % 4 = 0
           /\ Into(h) + HDR + size'[Into(h)] = End(Last(h))
           /\ \A a \in blocks \ {h, Into(h)} : size'[a] = size[a]
<1> DEFINE h == r.ptr - HDR
           s1 == SizeAfterRight(h)
           s2 == IF LeftFree(h) THEN size[prev[h]] + HDR + s1 ELSE s1
<1>0. h \in blocks /\ size \in [Addr -> Nat] /\ blocks \subseteq Addr
    BY DEF HeapInv, LiveAreUsedBlocks, TypeOK
<1>1. size' = [size EXCEPT ![h] = s1, ![Into(h)] = s2]
    BY DEF Kfree, Into
<1> HIDE DEF h
<1>2. s1 \in Nat /\ s1 % 4 = 0 /\ h + HDR + s1 = End(Last(h))
  <2>1. CASE RightFree(h)
    <3>1. /\ s1 = size[h] + 20 + size[next[h]] /\ Last(h) = next[h]
          /\ next[h] \in blocks /\ next[h] = h + 20 + size[h]
        BY <1>0, <2>1, KfreeNeighbours DEF SizeAfterRight, Last, HDR, End
    <3>2. /\ size[h] \in Nat /\ size[next[h]] \in Nat /\ h \in Nat
          /\ size[h] % 4 = 0 /\ size[next[h]] % 4 = 0
        BY <1>0, <3>1, BlockFacts
    <3>3. s1 \in Nat /\ s1 % 4 = 0
        BY <3>1, <3>2, AlignedSum
    <3> QED BY <3>1, <3>2, <3>3 DEF End, HDR
  <2>2. CASE ~RightFree(h)
      BY <1>0, <2>2, BlockFacts DEF SizeAfterRight, Last, End
  <2> QED BY <2>1, <2>2
<1>3. s2 \in Nat /\ s2 % 4 = 0 /\ Into(h) + HDR + s2 = End(Last(h))
  <2> HIDE DEF s1
  <2>1. CASE LeftFree(h)
    <3>1. /\ s2 = size[prev[h]] + 20 + s1 /\ Into(h) = prev[h]
          /\ prev[h] \in blocks /\ h = prev[h] + 20 + size[prev[h]]
        BY <1>0, <2>1, KfreeNeighbours DEF Into, HDR, End
    <3>2. /\ prev[h] \in Nat /\ size[prev[h]] \in Nat /\ size[prev[h]] % 4 = 0
        BY <3>1, BlockFacts
    <3>3. s2 \in Nat /\ s2 % 4 = 0
        BY <1>2, <3>1, <3>2, AlignedSum
    <3>4. Into(h) + 20 + s2 = h + 20 + s1
        BY <1>2, <3>1, <3>2
    <3> QED BY <1>2, <3>3, <3>4 DEF HDR
  <2>2. CASE ~LeftFree(h)
      BY <1>2, <2>2 DEF Into
  <2> QED BY <2>1, <2>2
<1> HIDE DEF s1, s2
<1>4. Into(h) \in Addr /\ h \in Addr
    BY <1>0, KfreeNeighbours
<1>5. size' \in [Addr -> Nat] /\ size'[Into(h)] = s2
    BY <1>0, <1>1, <1>2, <1>3, <1>4
<1>6. \A a \in blocks \ {h, Into(h)} : size'[a] = size[a]
    BY <1>0, <1>1
<1> QED BY <1>3, <1>5, <1>6 DEF h

(* The list after kfree: what was absorbed is gone, what absorbed it spans *)
(* it, and every other block keeps its neighbours.                         *)
LEMMA KfreeList ==
    ASSUME HeapInv, NEW r \in live, Kfree(r)
    PROVE  LET h == r.ptr - HDR
               after == NextAfterRight(h)
               into == Into(h)
           IN
           /\ h \in blocks /\ into \in blocks' /\ blocks' \subseteq blocks
           /\ RightFree(h) => next[h] \notin blocks'
           /\ LeftFree(h) => h \notin blocks'
           /\ \A a \in blocks \ blocks' : \/ RightFree(h) /\ a = next[h]
                                          \/ LeftFree(h) /\ a = h
           /\ next'[into] = after
           /\ after # NULL => after \in blocks' /\ prev'[after] = into
           /\ \A a \in blocks' \ {into} : /\ next'[a] = next[a] /\ a # h
                                          /\ next[a] # NULL => next[a] \in blocks' \ {after}
           /\ \A a \in blocks' \ {after} :
                 /\ prev'[a] = prev[a]
                 /\ a # 0 => prev[a] \in blocks' \ {into}
<1> DEFINE h == r.ptr - HDR
           after == NextAfterRight(h)
           into == Into(h)
<1>0. h \in blocks /\ blocks \subseteq Addr /\ next \in [Addr -> Addr \cup {NULL}] /\ NULL \notin Addr
    BY DEF HeapInv, LiveAreUsedBlocks, TypeOK, NULL, Addr
<1>1. /\ next' = [next EXCEPT ![h] = after, ![into] = after]
      /\ prev' = [a \in Addr |-> IF a = after /\ (RightFree(h) \/ LeftFree(h))
                                 THEN into ELSE prev[a]]
      /\ blocks' = { a \in blocks : /\ RightFree(h) => a # next[h]
                                    /\ LeftFree(h) => a # h }
    BY DEF Kfree, Into
<1>2. /\ into \in blocks /\ Last(h) \in blocks
      /\ LeftFree(h) => h # 0 /\ next[into] = h /\ into < h /\ End(into) = h /\ into = prev[h]
      /\ ~LeftFree(h) => into = h
      /\ RightFree(h) => prev[Last(h)] = h /\ h < Last(h) /\ Last(h) = next[h]
      /\ ~RightFree(h) => Last(h) = h
      /\ after = next[Last(h)]
    BY <1>0, KfreeNeighbours DEF Into, Last
<1> HIDE DEF h, after, into
<1>3. \A a \in blocks : a \in Nat /\ a \in Addr /\ a # NULL
    BY BlockFacts
<1>4. \A a \in blocks : /\ next[a] # NULL => next[a] \in blocks /\ prev[next[a]] = a /\ a < next[a]
                        /\ a # 0 => prev[a] \in blocks /\ next[prev[a]] = a
    BY LinkFacts
<1>5. into \in blocks'
    BY <1>0, <1>1, <1>2, <1>3
<1>6. \A a \in blocks \ blocks' : \/ RightFree(h) /\ a = next[h]
                                  \/ LeftFree(h) /\ a = h
    BY <1>1
<1>7. next'[into] = after
    BY <1>0, <1>1, <1>2
<1>8. \A a \in blocks' : a \in blocks /\ (RightFree(h) => a # next[h]) /\ (LeftFree(h) => a # h)
    BY <1>1
<1>9. after # NULL => after \in blocks /\ Last(h) < after /\ prev[after] = Last(h)
    BY <1>2, <1>4
<1>10. after # NULL => after \in blocks' /\ prev'[after] = into
  <2> SUFFICES ASSUME after # NULL PROVE after \in blocks' /\ prev'[after] = into
      OBVIOUS
  <2>1. after \in blocks' /\ after \in Addr
      BY <1>0, <1>1, <1>2, <1>3, <1>9
  <2>2. CASE RightFree(h) \/ LeftFree(h)
      BY <1>1, <2>1, <2>2
  <2>3. CASE ~(RightFree(h) \/ LeftFree(h))
      BY <1>1, <1>2, <1>9, <2>1, <2>3
  <2> QED BY <2>1, <2>2, <2>3
<1>11. ASSUME NEW a \in blocks' \ {into}
       PROVE  /\ next'[a] = next[a] /\ a # h
              /\ next[a] # NULL => next[a] \in blocks' \ {after}
  <2>1. a \in blocks /\ a # h /\ a # into /\ a # Last(h)
      BY <1>2, <1>8
  <2>2. next'[a] = next[a]
      BY <1>0, <1>1, <2>1
  <2>3. ASSUME next[a] # NULL PROVE next[a] \in blocks' /\ next[a] # after
    <3>1. next[a] \in blocks /\ prev[next[a]] = a
        BY <1>4, <2>1, <2>3
    <3>2. next[a] # after
        BY <1>9, <2>1, <2>3, <3>1
    <3>3. RightFree(h) => next[a] # next[h]
        BY <1>2, <2>1, <3>1
    <3>4. LeftFree(h) => next[a] # h
        BY <1>2, <2>1, <3>1
    <3> QED BY <1>1, <3>1, <3>2, <3>3, <3>4
  <2> QED BY <2>1, <2>2, <2>3
<1>12. ASSUME NEW a \in blocks' \ {after}
       PROVE  /\ prev'[a] = prev[a]
              /\ a # 0 => prev[a] \in blocks' \ {into}
  <2>1. a \in blocks /\ a \in Addr /\ a # after
      BY <1>3, <1>8
  <2>2. prev'[a] = prev[a]
      BY <1>1, <2>1
  <2>3. ASSUME a # 0 PROVE prev[a] \in blocks' \ {into}
    <3>1. prev[a] \in blocks /\ next[prev[a]] = a
        BY <1>4, <2>1, <2>3
    <3>2. prev[a] # Last(h)
        BY <1>2, <2>1, <3>1
    <3>3. prev[a] # into
        BY <1>2, <1>8, <3>1, <3>2
    <3>4. prev[a] # h
        BY <1>2, <1>8, <3>1, <3>2
    <3> QED BY <1>1, <1>2, <3>1, <3>2, <3>3, <3>4
  <2> QED BY <2>2, <2>3
<1>13. /\ RightFree(h) => next[h] \notin blocks'
       /\ LeftFree(h) => h \notin blocks'
    BY <1>1
<1>14. blocks' \subseteq blocks
    BY <1>1
<1> QED BY <1>0, <1>5, <1>6, <1>7, <1>10, <1>11, <1>12, <1>13, <1>14 DEF h, after, into

LEMMA StepKfree ==
    ASSUME HeapInv, NEW r \in live, Kfree(r)
    PROVE  HeapInv'
<1> DEFINE h == r.ptr - HDR
           after == NextAfterRight(h)
           into == Into(h)
           end == End(Last(h))
           End2(a) == a + HDR + size'[a]
<1>1. /\ h \in blocks /\ into \in blocks' /\ blocks' \subseteq blocks
      /\ RightFree(h) => next[h] \notin blocks'
      /\ LeftFree(h) => h \notin blocks'
      /\ \A a \in blocks \ blocks' : \/ RightFree(h) /\ a = next[h]
                                     \/ LeftFree(h) /\ a = h
      /\ next'[into] = after
      /\ after # NULL => after \in blocks' /\ prev'[after] = into
      /\ \A a \in blocks' \ {into} : /\ next'[a] = next[a] /\ a # h
                                     /\ next[a] # NULL => next[a] \in blocks' \ {after}
      /\ \A a \in blocks' \ {after} : /\ prev'[a] = prev[a]
                                      /\ a # 0 => prev[a] \in blocks' \ {into}
    BY KfreeList
<1>2. /\ size' \in [Addr -> Nat]
      /\ size'[into] \in Nat /\ size'[into] % 4 = 0
      /\ End2(into) = end
      /\ \A a \in blocks \ {h, into} : size'[a] = size[a]
    BY KfreeSizes
<1>3. /\ is_free' = [is_free EXCEPT ![h] = TRUE]
      /\ magic' = magic
      /\ live' = live \ {r} /\ freed' = freed \cup {r.ptr}
      /\ cur' = cur /\ req' = req /\ asked' = asked /\ req = 0
      /\ next' = [next EXCEPT ![h] = after, ![into] = after]
      /\ prev' = [a \in Addr |-> IF a = after /\ (RightFree(h) \/ LeftFree(h))
                                 THEN into ELSE prev[a]]
    BY DEF Kfree, FreeFlags, call, Into, Idle
<1>4. /\ into \in blocks /\ Last(h) \in blocks
      /\ LeftFree(h) => h # 0 /\ next[into] = h /\ into < h /\ End(into) = h
      /\ RightFree(h) => prev[Last(h)] = h /\ h < Last(h) /\ Last(h) = End(h)
      /\ after = next[Last(h)]
    BY <1>1, KfreeNeighbours
<1>5. /\ LeftFree(h) => is_free[into]
      /\ ~LeftFree(h) => into = h
      /\ RightFree(h) => is_free[Last(h)] /\ Last(h) = next[h]
      /\ ~RightFree(h) => Last(h) = h
    BY DEF LeftFree, RightFree, Into, Last
<1>6. ~is_free[h] /\ r.ptr \in Nat /\ h \in Addr
    BY <1>1, BlockFacts DEF HeapInv, LiveAreUsedBlocks, TypeOK
<1>7. r.ptr = h + HDR /\ r.ptr - HDR = h
    BY <1>6 DEF HDR
<1> HIDE DEF h, after, into, end
<1>8. /\ is_free'[h] /\ is_free'[into]
      /\ \A a \in blocks \ {h} : is_free'[a] = is_free[a]
  <2>1. is_free \in [Addr -> BOOLEAN]
      BY DEF HeapInv, TypeOK
  <2> QED BY <1>1, <1>3, <1>4, <1>5, <1>6, <2>1, BlockFacts
<1>9. TypeOK'
  <2>0. /\ is_free \in [Addr -> BOOLEAN] /\ magic \in [Addr -> BOOLEAN]
        /\ next \in [Addr -> Addr \cup {NULL}] /\ prev \in [Addr -> Addr \cup {NULL}]
        /\ blocks \subseteq Addr /\ live \subseteq [ptr : Nat, n : Nat] /\ freed \subseteq Nat
        /\ cur \in Addr \cup {NULL} /\ req \in Nat /\ asked \in Nat
      BY DEF HeapInv, TypeOK
  <2>1. is_free' \in [Addr -> BOOLEAN]
      BY <1>3, <2>0
  <2>2. after \in Addr \cup {NULL} /\ into \in Addr
      BY <1>4, <2>0, BlockFacts
  <2>3. next' \in [Addr -> Addr \cup {NULL}]
      BY <1>3, <2>0, <2>2
  <2>4. prev' \in [Addr -> Addr \cup {NULL}]
      BY <1>3, <2>0, <2>2
  <2>5. blocks' \subseteq Addr /\ live' \subseteq [ptr : Nat, n : Nat] /\ freed' \subseteq Nat
      BY <1>1, <1>3, <1>6, <2>0
  <2> QED BY <1>2, <1>3, <2>0, <2>1, <2>3, <2>4, <2>5 DEF TypeOK
<1>10. \A a \in blocks' \ {into} : End2(a) = End(a) /\ a \in blocks /\ a # h
    BY <1>1, <1>2 DEF End
<1> HIDE DEF End2
<1>11. ASSUME NEW a \in blocks' \ {into}
       PROVE  a < into \/ end <= a
  <2>1. /\ a \in blocks /\ a \in Nat /\ into \in Nat /\ h \in Nat /\ Last(h) \in Nat
        /\ End(h) \in Nat /\ a # h /\ a # Last(h)
      BY <1>1, <1>4, <1>5, BlockFacts
  <2>2. /\ h < a => End(h) <= a
        /\ into < a => End(into) <= a
        /\ Last(h) < a => End(Last(h)) <= a
      BY <1>1, <1>4, <2>1, LinkFacts
  <2>3. into < a => h < a
      BY <1>4, <1>5, <2>1, <2>2
  <2>4. h < a => Last(h) < a
      BY <1>4, <1>5, <2>1, <2>2
  <2> QED BY <2>1, <2>2, <2>3, <2>4 DEF end
<1>12. ListTilesHeap'
  <2>1. 0 \in blocks' /\ prev'[0] = NULL
    <3>1. 0 \in blocks /\ prev[0] = NULL
        BY DEF HeapInv, ListTilesHeap
    <3>2. RightFree(h) => next[h] # 0
        BY <1>1, <1>4, <1>5, BlockFacts
    <3>3. 0 \in blocks'
        BY <1>1, <1>4, <3>1, <3>2
    <3>4. after # 0
      <4>1. after # NULL => Last(h) < after
          BY <1>4, LinkFacts
      <4> QED BY <1>4, <4>1, BlockFacts DEF NULL
    <3> QED BY <1>1, <3>1, <3>3, <3>4
  <2>2. ASSUME NEW a \in blocks'
        PROVE  /\ End2(a) <= HEAP_INITIAL_SIZE
               /\ next'[a] = NULL => End2(a) = HEAP_INITIAL_SIZE
               /\ next'[a] # NULL => /\ next'[a] \in blocks'
                                     /\ next'[a] = End2(a)
                                     /\ prev'[next'[a]] = a
    <3>1. CASE a = into
      <4>1. /\ end <= HEAP_INITIAL_SIZE
            /\ after = NULL => end = HEAP_INITIAL_SIZE
            /\ after # NULL => after = end
          BY <1>4, LinkFacts DEF end
      <4> QED BY <1>1, <1>2, <3>1, <4>1
    <3>2. CASE a # into
      <4>1. /\ a \in blocks' \ {into} /\ a \in blocks /\ End2(a) = End(a) /\ next'[a] = next[a]
            /\ next[a] # NULL => next[a] \in blocks' \ {after}
          BY <1>1, <1>10, <3>2
      <4>2. /\ End(a) <= HEAP_INITIAL_SIZE
            /\ next[a] = NULL => End(a) = HEAP_INITIAL_SIZE
            /\ next[a] # NULL => next[a] = End(a) /\ prev[next[a]] = a
          BY <4>1, LinkFacts
      <4>3. next[a] # NULL => prev'[next[a]] = prev[next[a]]
          BY <1>1, <4>1
      <4> QED BY <4>1, <4>2, <4>3
    <3> QED BY <3>1, <3>2
  <2>3. ASSUME NEW a \in blocks', a # 0
        PROVE  prev'[a] \in blocks' /\ next'[prev'[a]] = a
    <3>1. CASE a = after
      <4>1. after # NULL
          BY <1>1, <3>1, BlockFacts
      <4> QED BY <1>1, <3>1, <4>1
    <3>2. CASE a # after
      <4>1. prev'[a] = prev[a] /\ prev[a] \in blocks' \ {into}
          BY <1>1, <2>3, <3>2
      <4>2. next[prev[a]] = a
          BY <1>1, <2>3, LinkFacts
      <4> QED BY <1>1, <4>1, <4>2
    <3> QED BY <3>1, <3>2
  <2>4. ASSUME NEW a \in blocks', NEW b \in blocks', a < b
        PROVE  End2(a) <= b
    <3>1. a \in blocks /\ b \in blocks /\ a \in Nat /\ b \in Nat /\ into \in Nat
        BY <1>1, <1>4, BlockFacts
    <3>2. CASE a = into
        BY <1>2, <1>11, <2>4, <3>1, <3>2
    <3>3. CASE a # into
        BY <1>10, <2>4, <3>1, <3>3, LinkFacts
    <3> QED BY <3>2, <3>3
  <2> QED BY <2>1, <2>2, <2>3, <2>4 DEF ListTilesHeap, End, End2
<1>13. FullyCoalesced'
  <2> SUFFICES ASSUME NEW a \in blocks', is_free'[a], next'[a] # NULL
               PROVE  ~is_free'[next'[a]]
      BY DEF FullyCoalesced
  <2>0. \A x \in blocks : is_free[x] /\ next[x] # NULL => ~is_free[next[x]]
      BY DEF HeapInv, FullyCoalesced
  <2>1. CASE a = into
    <3>1. next'[a] = after /\ after # NULL /\ after \in blocks'
        BY <1>1, <2>1
    <3>2. after # h
      <4>1. Last(h) < after
          BY <1>4, <3>1, LinkFacts
      <4> QED BY <1>1, <1>4, <1>5, <4>1, BlockFacts
    <3>3. CASE RightFree(h)
        BY <1>1, <1>4, <1>5, <1>8, <2>0, <3>1, <3>2, <3>3
    <3>4. CASE ~RightFree(h)
      <4>1. ~is_free[after]
          BY <1>4, <1>5, <3>1, <3>4 DEF RightFree
      <4> QED BY <1>1, <1>8, <3>1, <3>2, <4>1
    <3> QED BY <3>3, <3>4
  <2>2. CASE a # into
    <3>1. /\ a \in blocks /\ a # h /\ is_free[a] /\ next'[a] = next[a]
          /\ next[a] \in blocks' /\ next[a] \in blocks /\ ~is_free[next[a]]
        BY <1>1, <1>8, <2>0, <2>2
    <3>2. next[a] # h
      <4>1. SUFFICES ASSUME next[a] = h PROVE FALSE
          OBVIOUS
      <4>2. prev[h] = a /\ a # NULL
          BY <1>1, <3>1, <4>1, LinkFacts, BlockFacts
      <4>3. LeftFree(h)
          BY <3>1, <4>2 DEF LeftFree
      <4> QED BY <1>1, <3>1, <4>1, <4>3
    <3> QED BY <1>8, <3>1, <3>2
  <2> QED BY <2>1, <2>2
<1>14. HeadersGood'
  <2>1. \A a \in blocks' : magic'[a]
      BY <1>1, <1>3, BlockFacts
  <2>2. \A a \in blocks' : size'[a] % 4 = 0
    <3> SUFFICES ASSUME NEW a \in blocks' PROVE size'[a] % 4 = 0
        OBVIOUS
    <3>1. CASE a = into
        BY <1>2, <3>1
    <3>2. CASE a # into
        BY <1>1, <1>2, <3>2, BlockFacts
    <3> QED BY <3>1, <3>2
  <2> QED BY <2>1, <2>2 DEF HeadersGood, ALIGN
<1>15. LiveAreUsedBlocks'
  <2>1. ASSUME NEW s \in live'
        PROVE  /\ s.ptr - HDR \in blocks'
               /\ ~is_free'[s.ptr - HDR]
               /\ s.n > 0 /\ s.n <= size'[s.ptr - HDR]
    <3> DEFINE g == s.ptr - HDR
    <3>1. s \in live /\ s # r /\ s.ptr \in Nat
        BY <1>3 DEF HeapInv, TypeOK
    <3>2. g \in blocks /\ ~is_free[g] /\ s.n > 0 /\ s.n <= size[g] /\ s.ptr # r.ptr
        BY <3>1 DEF HeapInv, LiveAreUsedBlocks
    <3>3. g # h
        BY <1>6, <3>1, <3>2 DEF h, HDR
    <3> HIDE DEF g
    <3>4. g # into
        BY <1>5, <3>2, <3>3
    <3>5. g \in blocks'
        BY <1>1, <1>5, <3>2, <3>3
    <3>6. ~is_free'[g] /\ size'[g] = size[g]
        BY <1>2, <1>8, <3>2, <3>3, <3>4
    <3> QED BY <3>2, <3>5, <3>6 DEF g
  <2>2. \A s, t \in live' : s.ptr = t.ptr => s = t
      BY <1>3 DEF HeapInv, LiveAreUsedBlocks
  <2>3. ASSUME NEW a \in blocks', ~is_free'[a]
        PROVE  \E s \in live' : s.ptr = a + HDR
    <3>1. a \in blocks /\ a # h /\ ~is_free[a]
        BY <1>1, <1>8, <2>3
    <3>2. PICK s \in live : s.ptr = a + HDR
        BY <3>1 DEF HeapInv, LiveAreUsedBlocks
    <3>3. s # r
        BY <1>1, <1>7, <3>1, <3>2, BlockFacts DEF HDR
    <3> QED BY <1>3, <3>2, <3>3
  <2> QED BY <2>1, <2>2, <2>3 DEF LiveAreUsedBlocks
<1>16. FreedStayFree'
  <2> SUFFICES ASSUME NEW p \in freed' PROVE p - HDR \in Addr /\ is_free'[p - HDR]
      BY DEF FreedStayFree
  <2>0. is_free \in [Addr -> BOOLEAN]
      BY DEF HeapInv, TypeOK
  <2>1. CASE p = r.ptr
      BY <1>6, <1>7, <1>8, <2>1
  <2>2. CASE p \in freed
    <3>1. p - HDR \in Addr /\ is_free[p - HDR]
        BY <2>2 DEF HeapInv, FreedStayFree
    <3> QED BY <1>3, <2>0, <3>1
  <2> QED BY <1>3, <2>1, <2>2
<1>17. WalkInv'
    BY <1>3 DEF HeapInv, WalkInv, Walking, Idle
<1> QED BY <1>9, <1>12, <1>13, <1>14, <1>15, <1>16, <1>17 DEF HeapInv

-----------------------------------------------------------------------------
(* Every step of the heap preserves the invariant.                         *)
LEMMA NextHeapInv == HeapInv /\ [Next]_vars => HeapInv'
<1> SUFFICES ASSUME HeapInv, [Next]_vars PROVE HeapInv'
    OBVIOUS
<1>1. ASSUME NEW n \in Requests, KmallocStart(n) PROVE HeapInv'
    BY <1>1, StepStart
<1>2. CASE UNCHANGED vars
    BY <1>2 DEF vars, header, call, HeapInv, TypeOK, ListTilesHeap, FullyCoalesced,
                HeadersGood, LiveAreUsedBlocks, FreedStayFree, WalkInv, Walking, Idle, Fits, End
<1>3. ASSUME NEW n \in Requests, KmallocReject(n) PROVE HeapInv'
    BY <1>2, <1>3 DEF KmallocReject
<1>4. CASE KmallocStep
    BY <1>4, StepAdvance, StepTake, StepSplit, StepFail DEF KmallocStep
<1>5. ASSUME NEW r \in live, Kfree(r) PROVE HeapInv'
    BY <1>5, StepKfree
<1>6. ASSUME NEW r \in live, ClientWrite(r) PROVE HeapInv'
    BY <1>6, StepClientWrite
<1> QED BY <1>1, <1>2, <1>3, <1>4, <1>5, <1>6 DEF Next

(* The invariant behind every result below: kmalloc and kfree keep the     *)
(* headers a doubly linked tiling of the region.                           *)
THEOREM HeapInvariant == Spec => []HeapInv
BY InitHeapInv, NextHeapInv, PTL DEF Spec

(* Type correctness of the heap's state.                                   *)
THEOREM TypeCorrect == Spec => []TypeOK
<1>1. HeapInv => TypeOK
    BY DEF HeapInv
<1> QED BY <1>1, HeapInvariant, PTL

(* The header list tiles the region, whatever the calls.                   *)
THEOREM Tiling == Spec => []ListTilesHeap
<1>1. HeapInv => ListTilesHeap
    BY DEF HeapInv
<1> QED BY <1>1, HeapInvariant, PTL

(* kfree never leaves two free blocks side by side.                        *)
THEOREM Coalesced == Spec => []FullyCoalesced
<1>1. HeapInv => FullyCoalesced
    BY DEF HeapInv
<1> QED BY <1>1, HeapInvariant, PTL

(* When all memory was given back the heap is one block again.             *)
THEOREM WholeAgain == Spec => []EmptyHeapIsWhole
<1>1. HeapInv => EmptyHeapIsWhole
  <2> SUFFICES ASSUME HeapInv, live = {}
               PROVE  blocks = {0} /\ is_free[0] /\ size[0] = MAX_DATA /\ next[0] = NULL
      BY DEF EmptyHeapIsWhole
  <2>1. 0 \in blocks
      BY DEF HeapInv, ListTilesHeap
  <2>2. \A a \in blocks : is_free[a]
      BY BlockFacts DEF HeapInv, LiveAreUsedBlocks
  <2>3. next[0] = NULL
      BY <2>1, <2>2, BlockFacts DEF HeapInv, FullyCoalesced
  <2>4. End(0) = HEAP_INITIAL_SIZE
      BY <2>1, <2>3, LinkFacts
  <2>5. size[0] = MAX_DATA
      BY <2>1, <2>4, BlockFacts, HeapSizeAssumption DEF End, MAX_DATA, HDR
  <2>6. ASSUME NEW a \in blocks PROVE a = 0
    <3>1. a < End(a) /\ End(a) <= HEAP_INITIAL_SIZE /\ (0 < a => End(0) <= a)
        BY <2>1, LinkFacts
    <3> QED BY <2>4, <3>1, BlockFacts, HeapSizeAssumption
  <2> QED BY <2>1, <2>2, <2>3, <2>5, <2>6
<1> QED BY <1>1, HeapInvariant, PTL

(* No correct caller meets a panic of kmalloc or kfree.                    *)
THEOREM PanicFree == Spec => []NoHeapPanic
<1>1. HeapInv => NoHeapPanic
  <2> SUFFICES ASSUME HeapInv PROVE NoHeapPanic
      OBVIOUS
  <2>1. ~KmallocPanics
    <3> SUFFICES ASSUME KmallocPanics PROVE FALSE
        OBVIOUS
    <3>1. Walking /\ cur # NULL /\ cur \in blocks
        BY DEF KmallocPanics, HeapInv, WalkInv
    <3>2. Fits(cur) /\ Splits(cur) /\ NewBlock(cur) >= HEAP_INITIAL_SIZE
        BY <3>1, BlockFacts DEF KmallocPanics
    <3>3. NewBlock(cur) \in Addr
        BY <3>1, <3>2, SplitFacts
    <3> QED BY <3>2, <3>3, HeapSizeAssumption DEF Addr
  <2>2. \A r \in live : ~KfreePanics(r.ptr)
      BY BlockFacts DEF KfreePanics, HeapInv, LiveAreUsedBlocks
  <2> QED BY <2>1, <2>2 DEF NoHeapPanic
<1> QED BY <1>1, HeapInvariant, PTL

(* An immediate double free is always detected.                            *)
THEOREM DoubleFree == Spec => []DoubleFreeDetected
<1>1. HeapInv => DoubleFreeDetected
    BY DEF HeapInv, FreedStayFree, DoubleFreeDetected, KfreePanics
<1> QED BY <1>1, HeapInvariant, PTL

(* kmalloc is first fit, and NULL means that nothing fits.                 *)
THEOREM FirstFitHolds == Spec => FirstFit
<1> DEFINE A == /\ KmallocFail => \A a \in blocks : ~Fits(a)
                /\ \A r \in live' \ live :
                      /\ Fits(r.ptr - HDR) /\ r.ptr - HDR \in blocks
                      /\ \A a \in blocks : Fits(a) => r.ptr - HDR <= a
<1>1. ASSUME HeapInv, Next PROVE A
  <2>1. KmallocFail => \A a \in blocks : ~Fits(a)
      BY <1>1 DEF KmallocFail, HeapInv, WalkInv
  <2>2. ASSUME NEW r \in live' \ live
        PROVE  /\ Fits(r.ptr - HDR) /\ r.ptr - HDR \in blocks
               /\ \A a \in blocks : Fits(a) => r.ptr - HDR <= a
    <3>1. /\ Walking /\ cur # NULL /\ Fits(cur) /\ r = [ptr |-> cur + HDR, n |-> asked]
        BY <1>1, <2>2 DEF Next, KmallocReject, KmallocStart, KmallocStep, KmallocAdvance,
                          KmallocTake, KmallocSplit, KmallocFail, Kfree, ClientWrite, Return, vars
    <3>2. r.ptr - HDR = cur /\ cur \in blocks
        BY <1>1, <3>1, NewPointer
    <3>3. \A a \in blocks : Fits(a) => cur <= a
        BY <1>1, <3>1, <3>2, BlockFacts DEF HeapInv, WalkInv
    <3> QED BY <3>1, <3>2, <3>3
  <2> QED BY <2>1, <2>2
<1>2. Spec => [][A]_vars
    BY <1>1, HeapInvariant, PTL DEF Spec
<1> QED BY <1>2 DEF FirstFit

(* The distance from the walk's node to the end of the region.             *)
WalkLeft == IF cur = NULL THEN 0 ELSE HEAP_INITIAL_SIZE - cur

(* A walk of kmalloc takes a bounded number of steps: each one ends the    *)
(* call or goes on to a node at a higher address, and past the last node   *)
(* only the return of NULL is left.  The list it follows has no cycle.     *)
THEOREM WalkDescends ==
    Spec => [][Walking => Idle' \/ (WalkLeft' \in Nat /\ WalkLeft' < WalkLeft)]_vars
<1> DEFINE A == Walking => Idle' \/ (WalkLeft' \in Nat /\ WalkLeft' < WalkLeft)
<1>1. ASSUME HeapInv, [Next]_vars PROVE [A]_vars
  <2> SUFFICES ASSUME Next, Walking PROVE Idle' \/ (WalkLeft' \in Nat /\ WalkLeft' < WalkLeft)
      BY <1>1
  <2>1. ~Idle
      BY DEF Idle, Walking
  <2>2. CASE KmallocAdvance
    <3>1. cur # NULL /\ cur' = next[cur] /\ cur \in blocks
        BY <1>1, <2>2 DEF KmallocAdvance, HeapInv, WalkInv
    <3>2. cur \in Nat /\ cur < HEAP_INITIAL_SIZE
        BY <1>1, <3>1, HeapSizeAssumption DEF HeapInv, TypeOK, Addr
    <3>3. CASE next[cur] = NULL
        BY <3>1, <3>2, <3>3, HeapSizeAssumption DEF WalkLeft
    <3>4. CASE next[cur] # NULL
      <4>1. next[cur] \in blocks /\ next[cur] = cur + HDR + size[cur] /\ size[cur] \in Nat
          BY <1>1, <3>1, <3>4 DEF HeapInv, ListTilesHeap, TypeOK, End
      <4>2. next[cur] \in Addr
          BY <1>1, <4>1 DEF HeapInv, TypeOK
      <4>3. next[cur] \in Nat /\ next[cur] < HEAP_INITIAL_SIZE
          BY <4>2, HeapSizeAssumption DEF Addr
      <4>4. cur' > cur /\ cur' \in Nat /\ cur' < HEAP_INITIAL_SIZE /\ cur' # NULL
          BY <3>1, <3>2, <3>4, <4>1, <4>3 DEF HDR
      <4> QED BY <3>1, <3>2, <4>4, HeapSizeAssumption DEF WalkLeft
    <3> QED BY <3>3, <3>4
  <2>3. CASE KmallocTake \/ KmallocSplit \/ KmallocFail
      BY <2>3 DEF KmallocTake, KmallocSplit, KmallocFail, Return, Idle
  <2> QED BY <2>1, <2>2, <2>3 DEF Next, KmallocStep, KmallocReject, KmallocStart, Kfree, ClientWrite
<1> QED BY <1>1, HeapInvariant, PTL DEF Spec

(* kmalloc and kfree implement the allocator's promise: every area handed  *)
(* out lies in the region, apart from all areas still held.                *)
THEOREM HeapImplementsAllocator == Spec => AbsSpec
<1>1. Init => Abs!Init
    BY DEF Init, Abs!Init
<1>2. ASSUME HeapInv, [Next]_vars PROVE [Abs!Next]_live
  <2>1. CASE live' = live
      BY <2>1
  <2>2. ASSUME NEW r \in live, Kfree(r) PROVE Abs!Free
      BY <2>2 DEF Kfree, Abs!Free
  <2>3. CASE KmallocTake \/ KmallocSplit
    <3> DEFINE new == [ptr |-> cur + HDR, n |-> asked]
    <3>1. /\ Walking /\ cur # NULL /\ Fits(cur) /\ live' = live \cup {new}
        BY <2>3 DEF KmallocTake, KmallocSplit, Return
    <3>2. /\ cur \in blocks /\ is_free[cur] /\ req <= size[cur]
          /\ asked \in Requests /\ asked \in Nat /\ asked > 0 /\ asked <= req
          /\ cur \in Nat /\ size[cur] \in Nat /\ End(cur) <= HEAP_INITIAL_SIZE /\ req \in Nat
        BY <1>2, <3>1, NewPointer, BlockFacts, LinkFacts DEF HeapInv, TypeOK
    <3>3. cur + HDR + asked <= HEAP_INITIAL_SIZE /\ cur + HDR \in 0 .. HEAP_INITIAL_SIZE
        BY <3>2, HeapSizeAssumption DEF End, HDR
    <3>4. ASSUME NEW s \in live PROVE Abs!Apart(new, s)
      <4> DEFINE g == s.ptr - HDR
      <4>1. g \in blocks /\ ~is_free[g] /\ s.n <= size[g] /\ s.n \in Nat /\ s.ptr \in Nat
          BY <1>2 DEF HeapInv, LiveAreUsedBlocks, TypeOK
      <4>2. g # cur /\ g \in Nat /\ size[g] \in Nat
          BY <1>2, <3>2, <4>1, BlockFacts
      <4>3. /\ cur < g => cur + HDR + size[cur] <= g
            /\ g < cur => g + HDR + size[g] <= cur
          BY <1>2, <3>2, <4>1, LinkFacts DEF End
      <4>4. new.ptr + new.n <= s.ptr \/ s.ptr + s.n <= new.ptr
          BY <3>2, <4>1, <4>2, <4>3 DEF HDR
      <4> QED BY <4>4 DEF Abs!Apart
    <3>5. Abs!Alloc
        BY <3>1, <3>2, <3>3, <3>4 DEF Abs!Alloc
    <3> QED BY <3>5 DEF Abs!Next
  <2>4. \/ live' = live
        \/ KmallocTake \/ KmallocSplit
        \/ \E r \in live : Kfree(r)
      BY <1>2 DEF Next, KmallocReject, KmallocStart, KmallocStep, KmallocAdvance,
                  KmallocFail, ClientWrite, vars
  <2> QED BY <2>1, <2>2, <2>3, <2>4 DEF Abs!Next
<1> QED BY <1>1, <1>2, HeapInvariant, PTL DEF Spec, AbsSpec, Abs!Spec
=============================================================================
