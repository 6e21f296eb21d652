------------------------- MODULE SlotResourcesProofs -------------------------
(***************************************************************************)
(* The grid and the pool of a slot, for every size of them and whatever      *)
(* their callers release: elements are granted exclusively, the bitmaps and   *)
(* the count say what is granted, the scan for a free run finds the lowest    *)
(* one, and can_allocate is right whenever it can be.                        *)
(*                                                                          *)
(* The invariant of the grid is GridInv with GridTypes; that of the pool is   *)
(* CceInv, whose part Packed says that the pool fills from the bottom.  What  *)
(* the scan knows after n blocks, ScanKnows, is shown by induction on n and   *)
(* holds in any grid.                                                        *)
(***************************************************************************)
EXTENDS SlotResources, NumberLemmas

\* The callers' resources are disjoint and marked in the bitmap.
GridInv ==
  /\ held \subseteq GridResources
  /\ \A a, b \in held : a # b => ResourceElements(a) \cap ResourceElements(b) = {}
  /\ GridMarksHeld

\* The callers' blocks are marked in the bitmap, whose bits are counted.
PoolInv ==
  /\ cce_bitmap \subseteq 0..(NumCces - 1)
  /\ CountIsExact
  /\ cce_held \subseteq [start : Nat, al : AggregationLevels]
  /\ \A block \in cce_held : Cces(block.start, block.al) \subseteq cce_bitmap

-----------------------------------------------------------------------------
(* The grid.                                                                *)

LEMMA ResourceNotEmpty ==
  ASSUME NEW res \in GridResources
  PROVE  ResourceElements(res) # {}
<1>1. /\ res.start_rb \in Nat /\ res.num_rbs \in Nat \ {0}
      /\ res.start_symbol \in Nat /\ res.num_symbols \in Nat \ {0}
  BY SlotResourcesAssumption DEF GridResources
<1>2. <<res.start_symbol, res.start_rb>> \in ResourceElements(res)
  BY <1>1 DEF ResourceElements
<1> QED BY <1>2

\* A call of allocate, successful or not.
LEMMA AllocateKeepsGrid ==
  ASSUME GridInv, NEW res \in GridResources, Allocate(res), UNCHANGED grid_trusted
  PROVE  /\ GridInv'
         /\ held' = held \/ GridGrants!Grant
<1>1. CASE ~is_available(grid, res)
  BY <1>1 DEF Allocate, GridInv, GridMarksHeld
<1>2. CASE is_available(grid, res)
  <2> DEFINE g == ResourceElements(res)
  <2>1. grid' = grid \cup g /\ held' = held \cup {res}
    BY <1>2 DEF Allocate, allocate
  <2>2. \A other \in held : ResourceElements(other) \cap g = {}
    BY <1>2 DEF GridInv, GridMarksHeld, is_available
  <2>3. g # {}
    BY ResourceNotEmpty
  <2> DEFINE grants == {ResourceElements(r) : r \in held}
  <2>4. grants' = grants \cup {g} /\ g \in grants' \ grants
    BY <2>1, <2>2, <2>3
  <2>5. GridGrants!Grant
    BY <2>2, <2>3, <2>4 DEF GridGrants!Grant
  <2>6. UNION grants' = (UNION grants) \cup g
    BY <2>4
  <2>7. GridMarksHeld'
    BY <2>1, <2>6 DEF GridInv, GridMarksHeld
  <2> QED BY <2>1, <2>2, <2>5, <2>7 DEF GridInv
<1> QED BY <1>1, <1>2

\* A release, of something held or not, ends the grants it touches.
LEMMA DeallocateKeepsGrid ==
  ASSUME GridInv, NEW res \in GridResources, Deallocate(res)
  PROVE  GridInv' /\ GridGrants!End
<1> DEFINE g == ResourceElements(res)
<1>1. /\ grid' = grid \ g
      /\ held' = {other \in held : ResourceElements(other) \cap g = {}}
      /\ grid_trusted' = (grid_trusted /\ (res \in held))
  BY DEF Deallocate
<1>2. held' \subseteq held
  BY <1>1
<1> DEFINE marked == UNION {ResourceElements(r) : r \in held}
<1>3. marked' \subseteq grid'
  BY <1>1, <1>2 DEF GridInv, GridMarksHeld
<1>4. ASSUME grid_trusted' PROVE grid' = marked'
  <2>1. grid = marked /\ res \in held
    BY <1>1, <1>4 DEF GridInv, GridMarksHeld
  <2>2. held \ {res} \subseteq held'
    BY <1>1, <2>1 DEF GridInv
  <2>3. marked \ g \subseteq marked'
    BY <2>2
  <2> QED BY <1>1, <1>3, <2>1, <2>3
<1>5. GridMarksHeld'
  BY <1>3, <1>4 DEF GridMarksHeld
<1> QED BY <1>2, <1>5 DEF GridInv, GridGrants!End

LEMMA FreshGridGrants ==
  ASSUME FreshGrid
  PROVE  GridInv' /\ GridGrants!End
BY DEF FreshGrid, GridInv, GridMarksHeld, GridGrants!End

LEMMA GridStep ==
  ASSUME GridInv, [Next]_vars
  PROVE  /\ GridInv'
         /\ [GridGrants!Next]_{ResourceElements(res) : res \in held}
<1>1. CASE UNCHANGED <<grid, held, grid_trusted>>
  BY <1>1 DEF GridInv, GridMarksHeld
<1>2. CASE initialize
  BY <1>2, FreshGridGrants DEF initialize, GridGrants!Next
<1>3. CASE GridCall
  <2>1. CASE ResetGrid
    BY <2>1, FreshGridGrants DEF ResetGrid, GridGrants!Next
  <2>2. ASSUME NEW res \in GridResources, AllocateResource(res)
        PROVE  GridInv' /\ (held' = held \/ GridGrants!Grant)
    BY <2>2, AllocateKeepsGrid DEF AllocateResource
  <2>3. ASSUME NEW res \in GridResources, Deallocate(res)
        PROVE  GridInv' /\ GridGrants!End
    BY <2>3, DeallocateKeepsGrid
  <2>4. ASSUME NEW res \in GridResources, FindContiguous(res)
        PROVE  UNCHANGED <<grid, held, grid_trusted>>
    BY <2>4 DEF FindContiguous
  <2>5. CASE AllocateFound
    <3>1. PICK res \in found \cap GridResources : Allocate(res)
      BY <2>5 DEF AllocateFound
    <3>2. UNCHANGED grid_trusted
      BY <2>5 DEF AllocateFound
    <3>3. GridInv' /\ (held' = held \/ GridGrants!Grant)
      BY <3>1, <3>2, AllocateKeepsGrid
    <3> QED BY <3>3 DEF GridGrants!Next
  <2> QED BY <1>1, <1>3, <2>1, <2>2, <2>3, <2>4, <2>5 DEF GridCall, GridGrants!Next
<1>4. CASE PoolCall
  BY <1>1, <1>4 DEF PoolCall, ResetPool, AllocateCces, DeallocateCces, gridVars
<1>5. CASE UNCHANGED vars
  BY <1>1, <1>5 DEF vars
<1> QED BY <1>2, <1>3, <1>4, <1>5 DEF Next

LEMMA InitGridInv == Init => GridInv
BY DEF Init, GridInv, GridMarksHeld

\* Whatever callers allocate, release twice or release without holding it, the
\* bitmap marks what is held, and nothing else while callers keep to what they hold
\* (ResourceGrid::allocate, deallocate, reset).
THEOREM GridMarks == Spec => []GridMarksHeld
<1>1. GridInv => GridMarksHeld
  BY DEF GridInv
<1> QED BY <1>1, InitGridInv, GridStep, PTL DEF Spec

\* ResourceGrid implements ExclusiveGrants: no element is granted again before
\* its grant has ended (ResourceGrid::allocate, deallocate).
THEOREM GridExclusive == Spec => GridGrantedOnce
<1>1. Init => GridGrants!Init
  BY DEF Init, GridGrants!Init
<1> QED BY <1>1, InitGridInv, GridStep, PTL DEF Spec, GridGrantedOnce, GridGrants!Spec

-----------------------------------------------------------------------------
(* The pool.                                                                *)

LEMMA PoolIsFinite ==
  ASSUME PoolInv
  PROVE  IsFiniteSet(cce_bitmap)
<1>1. IsFiniteSet(0..(NumCces - 1))
  BY FS_Interval, SlotResourcesAssumption
<1> QED BY <1>1, FS_Subset DEF PoolInv

LEMMA AllocateKeepsPool ==
  ASSUME PoolInv, NEW al \in AggregationLevels, AllocateCces(al)
  PROVE  PoolInv' /\ CceGrants!Grant
<1>1. PICK start \in FreeBlocks(al) :
        /\ cce_bitmap' = cce_bitmap \cup Cces(start, al)
        /\ allocated_count' = allocated_count + al
        /\ cce_held' = cce_held \cup {[start |-> start, al |-> al]}
  BY DEF AllocateCces
<1> DEFINE g == Cces(start, al)
           grants == {Cces(block.start, block.al) : block \in cce_held}
<1>2. al \in Nat \ {0} /\ NumCces \in Nat
  BY SlotResourcesAssumption
<1>3. start \in Nat /\ start + al <= NumCces /\ g \cap cce_bitmap = {}
  <2>1. PICK k \in 0..(NumCces \div al) : start = k * al
    BY <1>1 DEF FreeBlocks
  <2>2. k \in Nat
    BY <2>1
  <2> QED BY <1>1, <1>2, <2>1, <2>2 DEF FreeBlocks
<1>4. g \subseteq 0..(NumCces - 1) /\ start \in g
  BY <1>2, <1>3 DEF Cces
<1>5. IsFiniteSet(g) /\ Cardinality(g) = al
  BY <1>2, <1>3, FS_Interval DEF Cces
<1>6. Cardinality(cce_bitmap \cup g) = Cardinality(cce_bitmap) + al
  <2>1. IsFiniteSet(cce_bitmap) /\ Cardinality(cce_bitmap) \in Nat
    BY PoolIsFinite, FS_CardinalityType
  <2>2. Cardinality(cce_bitmap \cap g) = 0
    BY <1>3, FS_EmptySet
  <2>3. Cardinality(cce_bitmap \cup g)
          = Cardinality(cce_bitmap) + Cardinality(g) - Cardinality(cce_bitmap \cap g)
    BY <1>5, <2>1, FS_Union
  <2> HIDE DEF g
  <2> QED BY <1>2, <1>5, <2>1, <2>2, <2>3
<1>7. CountIsExact'
  BY <1>1, <1>6 DEF PoolInv, CountIsExact
<1>8. PoolInv'
  <2>1. cce_bitmap' \subseteq 0..(NumCces - 1)
    BY <1>1, <1>4 DEF PoolInv
  <2>2. cce_held' \subseteq [start : Nat, al : AggregationLevels]
    BY <1>1, <1>3 DEF PoolInv
  <2>3. \A block \in cce_held' : Cces(block.start, block.al) \subseteq cce_bitmap'
    BY <1>1 DEF PoolInv
  <2> QED BY <1>7, <2>1, <2>2, <2>3 DEF PoolInv
<1>9. \A h \in grants : g \cap h = {}
  BY <1>3 DEF PoolInv
<1>10. grants' = grants \cup {g} /\ g \in grants' \ grants
  <2>1. grants' = grants \cup {g}
    <3> DEFINE new == [start |-> start, al |-> al]
    <3>1. Cces(new.start, new.al) = g
      OBVIOUS
    <3>2. cce_held' = cce_held \cup {new}
      BY <1>1
    <3> HIDE DEF new, g
    <3> QED BY <3>1, <3>2
  <2>2. g \notin grants
    BY <1>4, <1>9
  <2> QED BY <2>1, <2>2
<1> QED BY <1>4, <1>8, <1>9, <1>10 DEF CceGrants!Grant

LEMMA DeallocateKeepsPool ==
  ASSUME PoolInv, NEW start, NEW al, DeallocateCces(start, al)
  PROVE  PoolInv' /\ CceGrants!End
<1> DEFINE freed == Cces(start, al) \cap cce_bitmap
<1>1. /\ cce_bitmap' = cce_bitmap \ freed
      /\ allocated_count' = allocated_count - Cardinality(freed)
      /\ cce_held' = {b \in cce_held : Cces(b.start, b.al) \cap freed = {}}
  BY DEF DeallocateCces
<1>2. Cardinality(cce_bitmap \ freed) = Cardinality(cce_bitmap) - Cardinality(freed)
  <2>1. cce_bitmap \cap freed = freed /\ IsFiniteSet(cce_bitmap)
    BY PoolIsFinite
  <2> HIDE DEF freed
  <2> QED BY <2>1, FS_Difference, ZenonT(20)
<1>3. CountIsExact'
  BY <1>1, <1>2 DEF PoolInv, CountIsExact
<1>4. cce_held' \subseteq cce_held
  BY <1>1
<1>5. \A block \in cce_held' : Cces(block.start, block.al) \subseteq cce_bitmap'
  BY <1>1 DEF PoolInv
<1> QED BY <1>1, <1>3, <1>4, <1>5 DEF PoolInv, CceGrants!End

LEMMA FreshPoolGrants ==
  ASSUME FreshPool
  PROVE  PoolInv' /\ CceGrants!End
<1>1. Cardinality({}) = 0
  BY FS_EmptySet
<1> QED BY <1>1 DEF FreshPool, PoolInv, CountIsExact, CceGrants!End

LEMMA PoolStep ==
  ASSUME PoolInv, [Next]_vars
  PROVE  /\ PoolInv'
         /\ [CceGrants!Next]_{Cces(block.start, block.al) : block \in cce_held}
<1>1. CASE UNCHANGED cceVars
  BY <1>1 DEF PoolInv, CountIsExact, cceVars
<1>2. CASE initialize
  BY <1>2, FreshPoolGrants DEF initialize, CceGrants!Next
<1>3. CASE GridCall
  BY <1>1, <1>3 DEF GridCall, ResetGrid, AllocateResource, Deallocate, FindContiguous,
                    AllocateFound
<1>4. CASE PoolCall
  <2>1. CASE ResetPool
    BY <2>1, FreshPoolGrants DEF ResetPool, CceGrants!Next
  <2>2. ASSUME NEW al \in AggregationLevels, AllocateCces(al)
        PROVE  PoolInv' /\ CceGrants!Grant
    BY <2>2, AllocateKeepsPool
  <2>3. ASSUME NEW al \in AggregationLevels, NEW start \in 0..(NumCces - 1),
               DeallocateCces(start, al)
        PROVE  PoolInv' /\ CceGrants!End
    BY <2>3, DeallocateKeepsPool
  <2> QED BY <1>4, <2>1, <2>2, <2>3 DEF PoolCall, CceGrants!Next
<1>5. CASE UNCHANGED vars
  BY <1>1, <1>5 DEF vars, cceVars
<1> QED BY <1>2, <1>3, <1>4, <1>5 DEF Next

LEMMA InitPoolInv == Init => PoolInv
<1>1. Cardinality({}) = 0
  BY FS_EmptySet
<1> QED BY <1>1 DEF Init, PoolInv, CountIsExact

\* allocated_count_ counts the CCEs taken, however they are released
\* (CcePool::allocate, deallocate, reset).
THEOREM CceCountExact == Spec => []CountIsExact
<1>1. PoolInv => CountIsExact
  BY DEF PoolInv
<1> QED BY <1>1, InitPoolInv, PoolStep, PTL DEF Spec

\* CcePool implements ExclusiveGrants, for every size of the pool and every set of
\* aggregation levels (CcePool::allocate, deallocate).
THEOREM CcesExclusive == Spec => CcesGrantedOnce
<1>1. Init => CceGrants!Init
  BY DEF Init, CceGrants!Init
<1> QED BY <1>1, InitPoolInv, PoolStep, PTL DEF Spec, CcesGrantedOnce, CceGrants!Spec

-----------------------------------------------------------------------------
(* The scan for a run of blocks.                                            *)

\* The scan as a function of the number of blocks looked at.
IsScan(f, n, num_rbs, first, num_symbols) ==
  f = [k \in 0..n |->
         IF k = 0 THEN [start |-> 0, contiguous |-> 0, done |-> FALSE]
         ELSE ScanBlock(f[k - 1], k - 1, num_rbs, first, num_symbols)]

\* There is one, for as many blocks as one likes.
LEMMA ScanExists ==
  ASSUME NEW n \in Nat, NEW num_rbs, NEW first, NEW num_symbols
  PROVE  \E f : IsScan(f, n, num_rbs, first, num_symbols)
<1> DEFINE step(scan, k) == ScanBlock(scan, k, num_rbs, first, num_symbols)
           T == {k \in Nat : \E f : IsScan(f, k, num_rbs, first, num_symbols)}
           z == [start |-> 0, contiguous |-> 0, done |-> FALSE]
<1>0. ASSUME NEW f, NEW k \in Nat
      PROVE  IsScan(f, k, num_rbs, first, num_symbols) <=>
               f = [j \in 0..k |-> IF j = 0 THEN z ELSE step(f[j - 1], j - 1)]
  BY DEF IsScan
<1> HIDE DEF step, z
<1>1. 0 \in T
  <2> DEFINE f == [j \in 0..0 |-> z]
  <2>1. f = [j \in 0..0 |-> IF j = 0 THEN z ELSE step(f[j - 1], j - 1)]
    OBVIOUS
  <2> HIDE DEF f
  <2> QED BY <1>0, <2>1
<1>2. ASSUME NEW k \in Nat, k \in T PROVE k + 1 \in T
  <2>1. PICK g : g = [j \in 0..k |-> IF j = 0 THEN z ELSE step(g[j - 1], j - 1)]
    BY <1>0, <1>2
  <2> DEFINE f == [j \in 0..(k + 1) |-> IF j = k + 1 THEN step(g[k], k) ELSE g[j]]
  <2>2. \A j \in 0..k : f[j] = g[j]
    OBVIOUS
  <2>3. ASSUME NEW j \in 0..(k + 1)
        PROVE  f[j] = IF j = 0 THEN z ELSE step(f[j - 1], j - 1)
    <3>1. CASE j = k + 1
      <4>1. f[j] = step(g[k], k) /\ f[k] = g[k] /\ j - 1 = k /\ j # 0
        BY <2>2, <3>1
      <4> HIDE DEF f
      <4> QED BY <4>1
    <3>2. CASE j # k + 1
      <4>1. j \in 0..k /\ f[j] = g[j]
        BY <3>2
      <4>2. g[j] = IF j = 0 THEN z ELSE step(g[j - 1], j - 1)
        BY <2>1, <4>1
      <4>3. j # 0 => f[j - 1] = g[j - 1]
        BY <2>2, <4>1
      <4> HIDE DEF f
      <4> QED BY <4>1, <4>2, <4>3
    <3> QED BY <3>1, <3>2
  <2>4. f = [j \in 0..(k + 1) |-> f[j]]
    OBVIOUS
  <2> HIDE DEF f
  <2>5. f = [j \in 0..(k + 1) |-> IF j = 0 THEN z ELSE step(f[j - 1], j - 1)]
    BY <2>3, <2>4
  <2>6. k + 1 \in Nat
    OBVIOUS
  <2> QED BY <1>0, <2>5, <2>6
<1> HIDE DEF T
<1>3. n \in T
  BY <1>1, <1>2, NatSetInduction
<1> QED BY <1>3 DEF T

\* Block rb is free in each of the symbols.
BlockFree(rb, first, num_symbols) ==
  ~\E sym \in first..(first + num_symbols - 1) : <<sym, rb>> \in grid

\* The num_rbs blocks from r are.
RunFree(r, num_rbs, first, num_symbols) ==
  \A rb \in r..(r + num_rbs - 1) : BlockFree(rb, first, num_symbols)

\* What the scan knows after n blocks: when it is done, the lowest run; until then that
\* there is none, and the free blocks at the end.
ScanKnows(scan, n, num_rbs, first, num_symbols) ==
  /\ scan \in [start : Nat, contiguous : Nat, done : BOOLEAN]
  /\ ~scan.done =>
       /\ scan.contiguous < num_rbs /\ scan.contiguous <= n
       /\ \A rb \in (n - scan.contiguous)..(n - 1) : BlockFree(rb, first, num_symbols)
       /\ scan.contiguous < n => ~BlockFree(n - scan.contiguous - 1, first, num_symbols)
       /\ scan.contiguous > 0 => scan.start = n - scan.contiguous
       /\ \A r \in Nat : r + num_rbs <= n => ~RunFree(r, num_rbs, first, num_symbols)
  /\ scan.done =>
       /\ RunFree(scan.start, num_rbs, first, num_symbols) /\ scan.start + num_rbs <= n
       /\ \A r \in Nat : r < scan.start => ~RunFree(r, num_rbs, first, num_symbols)

\* One more block.
LEMMA ScanStep ==
  ASSUME NEW n \in Nat, NEW num_rbs \in Nat \ {0}, NEW first, NEW num_symbols,
         NEW scan, ScanKnows(scan, n, num_rbs, first, num_symbols)
  PROVE  ScanKnows(ScanBlock(scan, n, num_rbs, first, num_symbols), n + 1, num_rbs, first, num_symbols)
<1> DEFINE free(rb) == BlockFree(rb, first, num_symbols)
           run(r) == RunFree(r, num_rbs, first, num_symbols)
           next == ScanBlock(scan, n, num_rbs, first, num_symbols)
           c == scan.contiguous
<1>1. scan \in [start : Nat, contiguous : Nat, done : BOOLEAN] /\ c \in Nat /\ scan.start \in Nat
  BY DEF ScanKnows
<1>2. CASE scan.done
  <2>1. next = scan
    BY <1>2 DEF ScanBlock
  <2>2. /\ RunFree(scan.start, num_rbs, first, num_symbols) /\ scan.start + num_rbs <= n
        /\ \A r \in Nat : r < scan.start => ~RunFree(r, num_rbs, first, num_symbols)
    BY <1>2 DEF ScanKnows
  <2>3. scan.start + num_rbs <= n + 1
    BY <1>1, <2>2
  <2>4. ScanKnows(scan, n + 1, num_rbs, first, num_symbols)
    BY <1>1, <1>2, <2>2, <2>3 DEF ScanKnows
  <2> QED BY <2>1, <2>4
<1>3. ASSUME ~scan.done
      PROVE  /\ c < num_rbs /\ c <= n
             /\ \A rb \in (n - c)..(n - 1) : free(rb)
             /\ c < n => ~free(n - c - 1)
             /\ c > 0 => scan.start = n - c
             /\ \A r \in Nat : r + num_rbs <= n => ~run(r)
  BY <1>3 DEF ScanKnows
<1>4. CASE ~scan.done /\ ~free(n)
  <2>1. next = [scan EXCEPT !.contiguous = 0]
    BY <1>4 DEF ScanBlock, BlockFree
  <2>2. /\ next \in [start : Nat, contiguous : Nat, done : BOOLEAN]
        /\ next.contiguous = 0 /\ ~next.done
    BY <1>1, <1>4, <2>1
  <2>3. ASSUME NEW r \in Nat, r + num_rbs <= n + 1 PROVE ~run(r)
    <3>1. CASE r + num_rbs <= n
      BY <1>3, <1>4, <3>1
    <3>2. CASE ~(r + num_rbs <= n)
      <4>1. n \in r..(r + num_rbs - 1)
        BY <2>3, <3>2
      <4> QED BY <1>4, <4>1 DEF RunFree
    <3> QED BY <3>1, <3>2
  <2>4. (n + 1) - 0 - 1 = n /\ ((n + 1) - 0)..((n + 1) - 1) = {} /\ 0 < num_rbs /\ 0 <= n + 1
    OBVIOUS
  <2> HIDE DEF next
  <2> QED BY <1>4, <2>2, <2>3, <2>4 DEF ScanKnows, next
<1>5. CASE ~scan.done /\ free(n)
  <2> DEFINE start == IF c = 0 THEN n ELSE scan.start
  <2>1. next = [start |-> start, contiguous |-> c + 1, done |-> c + 1 >= num_rbs]
    BY <1>5 DEF ScanBlock, BlockFree
  <2>2. start = n - c /\ n - c \in Nat
    BY <1>1, <1>3, <1>5
  <2> DEFINE over == c + 1 >= num_rbs
             m == c + 1
  <2>a. over \in BOOLEAN /\ m \in Nat
    BY <1>1
  <2>b. next = [start |-> start, contiguous |-> m, done |-> over]
    BY <2>1
  <2> HIDE DEF start, over, m, next
  <2>c. /\ next \in [start : Nat, contiguous : Nat, done : BOOLEAN]
        /\ next.contiguous = m /\ next.start = n - c /\ (next.done <=> over)
    BY <2>2, <2>a, <2>b
  <2>3. /\ next \in [start : Nat, contiguous : Nat, done : BOOLEAN]
        /\ next.contiguous = c + 1 /\ next.start = n - c /\ (next.done <=> c + 1 >= num_rbs)
    BY <2>c DEF over, m
  <2>4. \A rb \in (n - c)..n : free(rb)
    <3>1. \A rb \in (n - c)..n : rb = n \/ rb \in (n - c)..(n - 1)
      BY <1>1
    <3> QED BY <1>3, <1>5, <3>1
  <2>5. ASSUME NEW r \in Nat, r + num_rbs <= n + 1, r < n - c \/ c + 1 < num_rbs
        PROVE  ~run(r)
    <3>1. CASE r + num_rbs <= n
      BY <1>3, <1>5, <3>1
    <3>2. CASE ~(r + num_rbs <= n)
      <4>1. c < n /\ (n - c) - 1 \in r..(r + num_rbs - 1)
        BY <1>1, <1>3, <1>5, <2>5, <3>2
      <4> QED BY <1>3, <1>5, <4>1 DEF RunFree
    <3> QED BY <3>1, <3>2
  <2>6. CASE c + 1 < num_rbs
    <3>1. ~next.done
      BY <1>1, <2>3, <2>6
    <3>2. /\ next.contiguous < num_rbs /\ next.contiguous <= n + 1
          /\ (n + 1) - next.contiguous = n - c /\ (n + 1) - 1 = n
      BY <1>1, <1>3, <1>5, <2>3, <2>6
    <3>3. next.contiguous < n + 1 => ~free(((n + 1) - next.contiguous) - 1)
      BY <1>1, <1>3, <1>5, <2>3, <3>2
    <3>4. \A r \in Nat : r + num_rbs <= n + 1 => ~run(r)
      BY <2>5, <2>6
    <3>5. next.start = (n + 1) - next.contiguous
      BY <2>3, <3>2
    <3>6. \A rb \in ((n + 1) - next.contiguous)..((n + 1) - 1) : free(rb)
      BY <2>4, <3>2
    <3> QED BY <2>3, <3>1, <3>2, <3>3, <3>4, <3>5, <3>6 DEF ScanKnows, next
  <2>7. CASE ~(c + 1 < num_rbs)
    <3>1. next.done
      BY <1>1, <2>3, <2>7
    <3>2. c + 1 = num_rbs /\ (n - c) + num_rbs = n + 1
      BY <1>1, <1>3, <1>5, <2>7
    <3>3. RunFree(next.start, num_rbs, first, num_symbols)
      <4>1. ((n - c) + num_rbs) - 1 = n
        BY <3>2
      <4> QED BY <2>3, <2>4, <4>1 DEF RunFree
    <3>4. next.start + num_rbs <= n + 1
      BY <2>3, <3>2
    <3>5. ASSUME NEW r \in Nat, r < next.start PROVE ~run(r)
      <4>1. r < n - c /\ r + num_rbs <= n + 1
        BY <2>2, <2>3, <3>2, <3>5
      <4> QED BY <2>5, <4>1
    <3> QED BY <2>3, <3>1, <3>3, <3>4, <3>5 DEF ScanKnows, next
  <2> QED BY <2>6, <2>7
<1> QED BY <1>2, <1>4, <1>5

\* What the scan knows at its end.
LEMMA ScanEnds ==
  ASSUME NEW num_rbs \in Nat \ {0}, NEW first, NEW num_symbols
  PROVE  ScanKnows(Scan(num_rbs, first, num_symbols), GridRbs, num_rbs, first, num_symbols)
<1> DEFINE f == CHOOSE g : IsScan(g, GridRbs, num_rbs, first, num_symbols)
           T == {n \in Nat : n <= GridRbs => ScanKnows(f[n], n, num_rbs, first, num_symbols)}
<1>1. GridRbs \in Nat
  BY SlotResourcesAssumption
<1>2. Scan(num_rbs, first, num_symbols) = f[GridRbs]
  BY DEF Scan, IsScan
<1>3. IsScan(f, GridRbs, num_rbs, first, num_symbols)
  BY <1>1, ScanExists
<1> HIDE DEF f
<1>4. \A n \in 0..GridRbs :
        f[n] = IF n = 0 THEN [start |-> 0, contiguous |-> 0, done |-> FALSE]
               ELSE ScanBlock(f[n - 1], n - 1, num_rbs, first, num_symbols)
  BY <1>3 DEF IsScan
<1>5. 0 \in T
  <2> DEFINE z == [start |-> 0, contiguous |-> 0, done |-> FALSE]
  <2>1. f[0] = z
    BY <1>1, <1>4
  <2>2. /\ z \in [start : Nat, contiguous : Nat, done : BOOLEAN]
        /\ z.contiguous = 0 /\ ~z.done
    OBVIOUS
  <2>3. /\ 0 < num_rbs /\ \A r \in Nat : ~(r + num_rbs <= 0)
        /\ (0 - 0)..(0 - 1) = {}
    OBVIOUS
  <2> HIDE DEF z
  <2>4. ScanKnows(z, 0, num_rbs, first, num_symbols)
    BY <2>2, <2>3 DEF ScanKnows
  <2> QED BY <2>1, <2>4
<1>6. ASSUME NEW n \in Nat, n \in T PROVE n + 1 \in T
  <2> SUFFICES ASSUME n + 1 <= GridRbs
               PROVE  ScanKnows(f[n + 1], n + 1, num_rbs, first, num_symbols)
    OBVIOUS
  <2>1. ScanKnows(f[n], n, num_rbs, first, num_symbols)
    BY <1>1, <1>6
  <2>2. f[n + 1] = ScanBlock(f[n], n, num_rbs, first, num_symbols)
    <3>1. n + 1 \in 0..GridRbs /\ n + 1 # 0 /\ (n + 1) - 1 = n
      BY <1>1
    <3> QED BY <1>4, <3>1
  <2> QED BY <2>1, <2>2, ScanStep
<1> HIDE DEF T
<1>7. GridRbs \in T
  BY <1>1, <1>5, <1>6, NatSetInduction
<1> QED BY <1>1, <1>2, <1>7 DEF T

\* A resource is available when its blocks are free in its symbols.
LEMMA AvailableRuns ==
  ASSUME NEW r, NEW num_rbs, NEW first, NEW num_symbols
  PROVE  is_available(grid, [start_rb |-> r, num_rbs |-> num_rbs,
                             start_symbol |-> first, num_symbols |-> num_symbols])
           <=> RunFree(r, num_rbs, first, num_symbols)
<1> DEFINE S == first..(first + num_symbols - 1)
           B == r..(r + num_rbs - 1)
<1>1. is_available(grid, [start_rb |-> r, num_rbs |-> num_rbs,
                          start_symbol |-> first, num_symbols |-> num_symbols])
        <=> (S \X B) \cap grid = {}
  BY DEF is_available, ResourceElements
<1>2. RunFree(r, num_rbs, first, num_symbols) <=> \A rb \in B : \A sym \in S : <<sym, rb>> \notin grid
  BY DEF RunFree, BlockFree
<1> HIDE DEF S, B
<1>3. (S \X B) \cap grid = {} <=> \A rb \in B : \A sym \in S : <<sym, rb>> \notin grid
  OBVIOUS
<1> QED BY <1>1, <1>2, <1>3

\* The run found lies in the grid.
LEMMA FoundInGrid ==
  ASSUME NEW num_rbs \in Nat \ {0}, NEW first, NEW num_symbols,
         NEW res \in ScannedRuns(num_rbs, first, num_symbols)
  PROVE  /\ res.start_rb \in Nat /\ res.start_rb + num_rbs <= GridRbs
         /\ res = [start_rb |-> res.start_rb, num_rbs |-> num_rbs,
                   start_symbol |-> first, num_symbols |-> num_symbols]
<1> DEFINE scan == Scan(num_rbs, first, num_symbols)
<1>1. scan.done /\ res = [start_rb |-> scan.start, num_rbs |-> num_rbs,
                          start_symbol |-> first, num_symbols |-> num_symbols]
  BY DEF ScannedRuns
<1>2. ScanKnows(scan, GridRbs, num_rbs, first, num_symbols)
  BY ScanEnds
<1> HIDE DEF scan
<1>3. scan.start \in Nat /\ scan.start + num_rbs <= GridRbs
  BY <1>1, <1>2 DEF ScanKnows
<1>4. res.start_rb = scan.start
  BY <1>1
<1> QED BY <1>1, <1>3, <1>4

\* The scan finds the lowest run in any grid.
LEMMA ScanIsRight == ScanFindsLowestRun
<1> SUFFICES ASSUME NEW num_rbs \in 1..GridRbs, NEW first \in 0..GridSymbols,
                    NEW num_symbols \in 0..GridSymbols
             PROVE  LET runs == ScannedRuns(num_rbs, first, num_symbols)
                    IN  /\ {res.start_rb : res \in runs} =
                             find_contiguous(grid, GridRbs, num_rbs, first, num_symbols)
                        /\ \A res \in runs : is_available(grid, res)
  BY DEF ScanFindsLowestRun
<1> DEFINE scan == Scan(num_rbs, first, num_symbols)
           runs == ScannedRuns(num_rbs, first, num_symbols)
           run(r) == RunFree(r, num_rbs, first, num_symbols)
           free == FreeRuns(grid, GridRbs, num_rbs, first, num_symbols)
           lowest == find_contiguous(grid, GridRbs, num_rbs, first, num_symbols)
           found_at == [start_rb |-> scan.start, num_rbs |-> num_rbs,
                        start_symbol |-> first, num_symbols |-> num_symbols]
<1>1. num_rbs \in Nat \ {0} /\ GridRbs \in Nat
  BY SlotResourcesAssumption
<1>2. free = {r \in 0..(GridRbs - num_rbs) : run(r)}
  BY AvailableRuns DEF FreeRuns
<1>3. lowest = {r \in free : \A other \in free : r <= other}
  BY DEF find_contiguous
<1>4. runs = IF scan.done THEN {found_at} ELSE {}
  BY DEF ScannedRuns
<1>5. is_available(grid, found_at) <=> run(scan.start)
  BY AvailableRuns
<1>6. ScanKnows(scan, GridRbs, num_rbs, first, num_symbols)
  BY <1>1, ScanEnds
<1>7. found_at.start_rb = scan.start
  OBVIOUS
<1> HIDE DEF scan, free, lowest, found_at, runs
<1>8. CASE scan.done
  <2>1. /\ scan.start \in Nat /\ run(scan.start) /\ scan.start + num_rbs <= GridRbs
        /\ \A r \in Nat : r < scan.start => ~run(r)
    BY <1>6, <1>8 DEF ScanKnows
  <2>2. scan.start \in free /\ \A r \in free : scan.start <= r /\ r \in Nat
    <3>1. \A r \in 0..(GridRbs - num_rbs) : r \in Nat
      BY <1>1
    <3>2. scan.start \in 0..(GridRbs - num_rbs)
      BY <1>1, <2>1
    <3>3. \A r \in free : r \in Nat /\ run(r)
      BY <1>2, <3>1
    <3>4. \A r \in free : ~(r < scan.start)
      BY <2>1, <3>3
    <3>5. \A r \in free : scan.start <= r
      BY <2>1, <3>3, <3>4
    <3> QED BY <1>2, <2>1, <3>2, <3>3, <3>5
  <2>3. lowest = {scan.start}
    BY <1>3, <2>1, <2>2
  <2>4. runs = {found_at} /\ {res.start_rb : res \in runs} = {scan.start}
    BY <1>4, <1>7, <1>8
  <2> QED BY <1>5, <2>1, <2>3, <2>4 DEF runs, lowest
<1>9. CASE ~scan.done
  <2>1. \A r \in Nat : r + num_rbs <= GridRbs => ~run(r)
    BY <1>6, <1>9 DEF ScanKnows
  <2>2. free = {}
    <3>1. \A r \in 0..(GridRbs - num_rbs) : r \in Nat /\ r + num_rbs <= GridRbs
      BY <1>1
    <3> QED BY <1>2, <2>1, <3>1
  <2>3. lowest = {} /\ runs = {} /\ {res.start_rb : res \in runs} = {}
    BY <1>3, <1>4, <1>9, <2>2
  <2> QED BY <2>3 DEF runs, lowest
<1> QED BY <1>8, <1>9

-----------------------------------------------------------------------------
(* The types of the slot, and the pool that fills from the bottom.          *)

\* What the types need beyond the invariants of the grid and the pool.
GridTypes ==
  /\ grid \subseteq (0..(GridSymbols - 1)) \X (0..(GridRbs - 1))
  /\ held \subseteq GridResources
  /\ found \subseteq GridResources
  /\ grid_trusted \in BOOLEAN

\* What a caller asks for covers elements of the grid.
LEMMA ElementsInGrid ==
  ASSUME NEW res \in GridResources
  PROVE  ResourceElements(res) \subseteq (0..(GridSymbols - 1)) \X (0..(GridRbs - 1))
<1>1. /\ res.start_rb \in Nat /\ res.num_rbs \in Nat /\ res.start_rb + res.num_rbs <= GridRbs
      /\ res.start_symbol \in Nat /\ res.num_symbols \in Nat
      /\ res.start_symbol + res.num_symbols <= GridSymbols
      /\ GridRbs \in Nat /\ GridSymbols \in Nat
  BY SlotResourcesAssumption DEF GridResources
<1>2. /\ res.start_symbol..(res.start_symbol + res.num_symbols - 1) \subseteq 0..(GridSymbols - 1)
      /\ res.start_rb..(res.start_rb + res.num_rbs - 1) \subseteq 0..(GridRbs - 1)
  BY <1>1
<1> QED BY <1>2 DEF ResourceElements

\* Every step keeps the types of the grid.
LEMMA GridTypesStep == GridTypes /\ [Next]_vars => GridTypes'
<1> SUFFICES ASSUME GridTypes, [Next]_vars PROVE GridTypes'
  OBVIOUS
<1>1. ASSUME UNCHANGED gridVars PROVE GridTypes'
  BY <1>1 DEF GridTypes, gridVars
<1>2. ASSUME FreshGrid PROVE GridTypes'
  BY <1>2 DEF GridTypes, FreshGrid
<1>3. ASSUME NEW res \in GridResources, Allocate(res)
      PROVE  /\ grid' \subseteq (0..(GridSymbols - 1)) \X (0..(GridRbs - 1))
             /\ held' \subseteq GridResources
  BY <1>3, ElementsInGrid DEF Allocate, allocate, GridTypes
<1>4. ASSUME NEW res \in GridResources, AllocateResource(res) PROVE GridTypes'
  BY <1>3, <1>4 DEF AllocateResource, GridTypes
<1>5. ASSUME NEW res \in GridResources, Deallocate(res) PROVE GridTypes'
  <2>1. grid' \subseteq grid /\ held' \subseteq held /\ found' = found
    BY <1>5 DEF Deallocate
  <2>2. grid_trusted' \in BOOLEAN
    BY <1>5 DEF Deallocate, GridTypes
  <2> QED BY <2>1, <2>2 DEF GridTypes
<1>6. ASSUME NEW res \in GridResources, FindContiguous(res) PROVE GridTypes'
  <2>1. /\ res.num_rbs \in Nat \ {0} /\ res.num_rbs \in 1..GridRbs
        /\ res.start_symbol \in 0..(GridSymbols - 1) /\ res.num_symbols \in 1..GridSymbols
        /\ res.start_symbol + res.num_symbols <= GridSymbols
        /\ GridRbs \in Nat
    BY SlotResourcesAssumption DEF GridResources
  <2>2. ASSUME NEW run \in ScannedRuns(res.num_rbs, res.start_symbol, res.num_symbols)
        PROVE  run \in GridResources
    <3>1. /\ run.start_rb \in Nat /\ run.start_rb + res.num_rbs <= GridRbs
          /\ run = [start_rb |-> run.start_rb, num_rbs |-> res.num_rbs,
                    start_symbol |-> res.start_symbol, num_symbols |-> res.num_symbols]
      BY <2>1, FoundInGrid
    <3>2. run.start_rb \in 0..(GridRbs - 1)
      BY <2>1, <3>1
    <3> QED BY <2>1, <3>1, <3>2 DEF GridResources
  <2>3. found' \subseteq GridResources /\ UNCHANGED <<grid, held, grid_trusted>>
    BY <1>6, <2>2 DEF FindContiguous
  <2> QED BY <2>3 DEF GridTypes
<1>7. ASSUME AllocateFound PROVE GridTypes'
  BY <1>3, <1>7 DEF AllocateFound, GridTypes
<1>8. ASSUME PoolCall PROVE UNCHANGED gridVars
  BY <1>8 DEF PoolCall, ResetPool, AllocateCces, DeallocateCces
<1>9. ASSUME GridCall PROVE GridTypes'
  BY <1>2, <1>4, <1>5, <1>6, <1>7, <1>9 DEF GridCall, ResetGrid
<1> QED BY <1>1, <1>2, <1>8, <1>9 DEF Next, initialize, vars, gridVars

\* What the pool's types need beyond PoolInv.
PoolTypes ==
  /\ cce_held \subseteq [start : 0..(NumCces - 1), al : AggregationLevels]
  /\ smallest \in {0} \cup AggregationLevels
  /\ subject \in {"grid", "pool"}

\* While the levels do not rise and nothing is released, the pool fills from the
\* bottom, in blocks of the lowest level so far.
Packed ==
  smallest # 0 => \E k \in Nat : /\ allocated_count = k * smallest
                                 /\ cce_bitmap = 0..(allocated_count - 1)

\* The inductive invariant of the pool.
CceInv == PoolInv /\ PoolTypes /\ Packed

\* A free block lies in the pool, at a multiple of its level.
LEMMA FreeBlockInPool ==
  ASSUME NEW al \in AggregationLevels, NEW start \in FreeBlocks(al)
  PROVE  /\ al \in Nat \ {0} /\ NumCces \in Nat
         /\ start \in 0..(NumCces - 1) /\ start + al <= NumCces
         /\ Cces(start, al) \subseteq 0..(NumCces - 1) /\ start \in Cces(start, al)
         /\ Cces(start, al) \cap cce_bitmap = {}
<1>1. al \in Nat \ {0} /\ NumCces \in Nat
  BY SlotResourcesAssumption
<1>2. PICK k \in 0..(NumCces \div al) : start = k * al
  BY DEF FreeBlocks
<1>3. start \in Nat /\ start + al <= NumCces /\ Cces(start, al) \cap cce_bitmap = {}
  <2>1. k \in Nat
    BY <1>2
  <2> QED BY <1>1, <1>2, <2>1 DEF FreeBlocks
<1> QED BY <1>1, <1>3 DEF Cces

\* The count is within the pool.
LEMMA CountInPool ==
  ASSUME PoolInv
  PROVE  /\ allocated_count \in 0..NumCces
         /\ \A al \in AggregationLevels : FreeBlocks(al) # {} => allocated_count + al <= NumCces
<1>1. NumCces \in Nat
  BY SlotResourcesAssumption
<1> DEFINE all == 0..(NumCces - 1)
<1>2. IsFiniteSet(all) /\ Cardinality(all) = NumCces
  BY <1>1, FS_Interval
<1>3. cce_bitmap \subseteq all /\ allocated_count = Cardinality(cce_bitmap)
  BY DEF PoolInv, CountIsExact
<1> HIDE DEF all
<1>4. IsFiniteSet(cce_bitmap) /\ Cardinality(cce_bitmap) \in Nat /\ Cardinality(cce_bitmap) <= NumCces
  BY <1>2, <1>3, FS_Subset, FS_CardinalityType
<1>5. ASSUME NEW al \in AggregationLevels, NEW start \in FreeBlocks(al)
      PROVE  allocated_count + al <= NumCces
  <2> DEFINE g == Cces(start, al)
  <2>1. al \in Nat \ {0} /\ start \in Nat /\ g \subseteq all /\ g \cap cce_bitmap = {}
    BY FreeBlockInPool DEF all
  <2>2. IsFiniteSet(g) /\ Cardinality(g) = al
    <3>1. start \in Int /\ start + al - 1 \in Int
      BY <2>1
    <3>2. IsFiniteSet(g) /\ Cardinality(g) = IF start > start + al - 1 THEN 0
                                             ELSE (start + al - 1) - start + 1
      BY <3>1, FS_Interval DEF Cces
    <3> QED BY <2>1, <3>2
  <2> HIDE DEF g
  <2>3. Cardinality(cce_bitmap \cap g) = 0
    <3>1. cce_bitmap \cap g = {}
      BY <2>1
    <3> QED BY <3>1, FS_EmptySet
  <2>4. Cardinality(cce_bitmap \cup g)
          = Cardinality(cce_bitmap) + Cardinality(g) - Cardinality(cce_bitmap \cap g)
    BY <1>4, <2>2, FS_Union
  <2>5. cce_bitmap \cup g \subseteq all
    BY <1>3, <2>1
  <2>6. Cardinality(cce_bitmap \cup g) <= NumCces
    BY <1>2, <2>5, FS_Subset
  <2> QED BY <1>1, <1>3, <1>4, <2>1, <2>2, <2>3, <2>4, <2>6
<1> QED BY <1>1, <1>3, <1>4, <1>5

\* The first free block of a packed pool is the one behind the CCEs taken.
LEMMA PackedFree ==
  ASSUME CceInv, NEW al \in AggregationLevels, al <= smallest
  PROVE  /\ smallest \in AggregationLevels /\ cce_bitmap = 0..(allocated_count - 1)
         /\ \E j \in Nat : allocated_count = j * al
         /\ \A start \in FreeBlocks(al) : allocated_count <= start
         /\ allocated_count + al <= NumCces => allocated_count \in FreeBlocks(al)
<1>1. al \in Nat \ {0} /\ NumCces \in Nat
  BY SlotResourcesAssumption
<1>2. smallest # 0 /\ smallest \in AggregationLevels /\ smallest \in Nat \ {0}
  BY <1>1, SlotResourcesAssumption DEF CceInv, PoolTypes
<1>3. PICK k \in Nat : allocated_count = k * smallest /\ cce_bitmap = 0..(allocated_count - 1)
  BY <1>2 DEF CceInv, Packed
<1>4. \E j \in Nat : allocated_count = j * al
  <2>1. smallest % al = 0
    BY <1>2, SlotResourcesAssumption
  <2> DEFINE q == smallest \div al
  <2>2. q \in Int /\ smallest = q * al
    BY <1>1, <1>2, <2>1
  <2> HIDE DEF q
  <2>3. q \in Nat
    <3>1. CASE q < 0
      <4>1. q * al < 0
        BY <1>1, <2>2, <3>1
      <4> QED BY <1>2, <2>2, <4>1
    <3> QED BY <2>2, <3>1
  <2>4. k * (q * al) = (k * q) * al /\ k * q \in Nat
    BY <1>1, <1>3, <2>3
  <2>5. allocated_count = (k * q) * al
    BY <1>3, <2>2, <2>4
  <2> QED BY <2>4, <2>5
<1>5. PICK j \in Nat : allocated_count = j * al
  BY <1>4
<1>6. allocated_count \in Nat
  BY CountInPool DEF CceInv
<1>7. ASSUME NEW start \in FreeBlocks(al) PROVE allocated_count <= start
  <2>1. start \in Nat /\ start \notin cce_bitmap
    BY FreeBlockInPool
  <2> QED BY <1>3, <1>6, <2>1
<1>8. ASSUME allocated_count + al <= NumCces PROVE allocated_count \in FreeBlocks(al)
  <2>1. j \in 0..(NumCces \div al)
    <3> DEFINE p == NumCces \div al
    <3>1. p \in Int /\ NumCces < (p + 1) * al
      <4>1. p \in Int /\ NumCces = al * p + (NumCces % al) /\ NumCces % al \in 0..(al - 1)
        BY <1>1
      <4>2. (p + 1) * al = al * p + al
        BY <1>1, <4>1
      <4> QED BY <1>1, <4>1, <4>2
    <3> HIDE DEF p
    <3>2. CASE j > p
      <4>1. (j - (p + 1)) * al >= 0 /\ j * al = (p + 1) * al + (j - (p + 1)) * al
        BY <1>1, <3>1, <3>2
      <4>2. (p + 1) * al \in Int /\ (j - (p + 1)) * al \in Int
        BY <1>1, <3>1
      <4> QED BY <1>1, <1>5, <1>6, <1>8, <3>1, <4>1, <4>2
    <3> QED BY <3>1, <3>2 DEF p
  <2>2. Cces(allocated_count, al) \cap cce_bitmap = {}
    BY <1>1, <1>3, <1>6 DEF Cces
  <2> QED BY <1>5, <1>8, <2>1, <2>2 DEF FreeBlocks
<1> QED BY <1>2, <1>3, <1>4, <1>7, <1>8

\* can_allocate is right in any state of the pool.
LEMMA CceCallsAreRight == CceInv => CanAllocateExact
<1> SUFFICES ASSUME CceInv, NEW al \in AggregationLevels
             PROVE  /\ FreeBlocks(al) # {} => can_allocate(al)
                    /\ al <= smallest /\ can_allocate(al) => FreeBlocks(al) # {}
  BY DEF CanAllocateExact
<1>1. al \in Nat \ {0} /\ NumCces \in Nat /\ allocated_count \in Nat
  BY SlotResourcesAssumption, CountInPool DEF CceInv
<1>2. can_allocate(al) <=> allocated_count + al <= NumCces
  BY <1>1 DEF can_allocate, available
<1>3. FreeBlocks(al) # {} => allocated_count + al <= NumCces
  BY CountInPool DEF CceInv
<1>4. al <= smallest /\ allocated_count + al <= NumCces => FreeBlocks(al) # {}
  BY PackedFree
<1> QED BY <1>2, <1>3, <1>4

\* The levels have a highest one.
LEMMA HighestIsLevel ==
  Highest(AggregationLevels) \in AggregationLevels
BY SlotResourcesAssumption DEF Highest

LEMMA FreshPoolPacked ==
  ASSUME FreshPool
  PROVE  /\ Packed'
         /\ cce_held' = {} /\ smallest' \in {0} \cup AggregationLevels
<1>1. cce_bitmap' = {} /\ allocated_count' = 0 /\ cce_held' = {}
      /\ smallest' = Highest(AggregationLevels)
  BY DEF FreshPool
<1>2. smallest' \in AggregationLevels /\ smallest' \in Nat
  BY <1>1, HighestIsLevel, SlotResourcesAssumption
<1>3. (\A n \in Nat : 0 = 0 * n) /\ 0..(0 - 1) = {}
  OBVIOUS
<1>4. allocated_count' = 0 * smallest' /\ cce_bitmap' = 0..(allocated_count' - 1)
  <2>1. 0 = 0 * smallest'
    BY <1>2, <1>3
  <2> QED BY <1>1, <1>3, <2>1
<1>5. Packed'
  BY <1>4 DEF Packed
<1> QED BY <1>1, <1>2, <1>5

\* A grant in a packed pool is the next block; at a higher level the pool is no
\* longer known to be packed.
LEMMA AllocatePacked ==
  ASSUME CceInv, NEW al \in AggregationLevels, AllocateCces(al)
  PROVE  /\ Packed'
         /\ cce_held' \subseteq [start : 0..(NumCces - 1), al : AggregationLevels]
         /\ smallest' \in {0} \cup AggregationLevels
<1>1. PICK start \in FreeBlocks(al) :
        /\ \A other \in FreeBlocks(al) : start <= other
        /\ cce_bitmap' = cce_bitmap \cup Cces(start, al)
        /\ allocated_count' = allocated_count + al
        /\ cce_held' = cce_held \cup {[start |-> start, al |-> al]}
        /\ smallest' = IF al <= smallest THEN al ELSE 0
  BY DEF AllocateCces
<1>2. /\ al \in Nat \ {0} /\ NumCces \in Nat
      /\ start \in 0..(NumCces - 1) /\ start + al <= NumCces
  BY FreeBlockInPool
<1>3. allocated_count \in Nat
  BY CountInPool DEF CceInv
<1>4. cce_held' \subseteq [start : 0..(NumCces - 1), al : AggregationLevels]
  BY <1>1, <1>2 DEF CceInv, PoolTypes
<1>5. smallest' \in {0} \cup AggregationLevels
  BY <1>1
<1>6. CASE al <= smallest
  <2>1. /\ cce_bitmap = 0..(allocated_count - 1) /\ allocated_count <= start
        /\ allocated_count + al <= NumCces => allocated_count \in FreeBlocks(al)
    BY <1>6, PackedFree
  <2>2. PICK j \in Nat : allocated_count = j * al
    BY <1>6, PackedFree
  <2>3. allocated_count + al <= NumCces
    BY <1>2, <1>3, <2>1
  <2>4. start = allocated_count
    BY <1>1, <1>2, <1>3, <2>1, <2>3
  <2>5. cce_bitmap' = 0..(allocated_count' - 1)
    <3>1. (0..(allocated_count - 1)) \cup Cces(allocated_count, al) = 0..(allocated_count + al - 1)
      BY <1>2, <1>3 DEF Cces
    <3>2. cce_bitmap' = (0..(allocated_count - 1)) \cup Cces(allocated_count, al)
      BY <1>1, <2>1, <2>4
    <3>3. cce_bitmap' = 0..(allocated_count + al - 1)
      BY <3>1, <3>2
    <3>4. allocated_count' = allocated_count + al
      BY <1>1
    <3>5. allocated_count + al - 1 = allocated_count' - 1
      BY <1>2, <1>3, <3>4
    <3> QED BY <3>3, <3>5, Zenon
  <2>6. allocated_count' = (j + 1) * smallest' /\ j + 1 \in Nat
    <3>1. j * al + al = (j + 1) * al
      BY <1>2
    <3> QED BY <1>1, <1>6, <2>2, <3>1
  <2>7. Packed'
    BY <2>5, <2>6 DEF Packed
  <2> QED BY <1>4, <1>5, <2>7
<1>7. CASE ~(al <= smallest)
  <2>1. smallest' = 0
    BY <1>1, <1>7
  <2> QED BY <1>4, <1>5, <2>1 DEF Packed
<1> QED BY <1>6, <1>7

\* A release that frees nothing changes nothing.
LEMMA DeallocatePacked ==
  ASSUME CceInv, NEW start, NEW al, DeallocateCces(start, al)
  PROVE  /\ Packed'
         /\ cce_held' \subseteq cce_held
         /\ smallest' \in {0} \cup AggregationLevels
<1> DEFINE freed == Cces(start, al) \cap cce_bitmap
<1>1. /\ cce_bitmap' = cce_bitmap \ freed
      /\ allocated_count' = allocated_count - Cardinality(freed)
      /\ cce_held' = {b \in cce_held : Cces(b.start, b.al) \cap freed = {}}
      /\ smallest' = IF freed = {} THEN smallest ELSE 0
  BY DEF DeallocateCces
<1>2. cce_held' \subseteq cce_held
  BY <1>1
<1>3. smallest' \in {0} \cup AggregationLevels
  BY <1>1 DEF CceInv, PoolTypes
<1>4. allocated_count \in Nat
  BY CountInPool DEF CceInv
<1> HIDE DEF freed
<1>5. CASE freed = {}
  <2>1. Cardinality(freed) = 0
    BY <1>5, FS_EmptySet
  <2>2. UNCHANGED <<cce_bitmap, allocated_count, smallest>>
    BY <1>1, <1>4, <1>5, <2>1
  <2>3. Packed'
    BY <2>2 DEF CceInv, Packed
  <2> QED BY <1>2, <1>3, <2>3
<1>6. CASE freed # {}
  <2>1. smallest' = 0
    BY <1>1, <1>6
  <2> QED BY <1>2, <1>3, <2>1 DEF Packed
<1> QED BY <1>5, <1>6

\* Every step keeps the pool's types, and keeps it packed.
LEMMA CceStep == CceInv /\ [Next]_vars => CceInv'
<1> SUFFICES ASSUME CceInv, [Next]_vars PROVE CceInv'
  OBVIOUS
<1>1. PoolInv'
  BY PoolStep DEF CceInv
<1>2. subject' \in {"grid", "pool"}
  BY DEF CceInv, PoolTypes, Next, vars
<1>3. ASSUME UNCHANGED cceVars PROVE PoolTypes' /\ Packed'
  BY <1>2, <1>3 DEF CceInv, PoolTypes, Packed, cceVars
<1>4. ASSUME FreshPool PROVE PoolTypes' /\ Packed'
  BY <1>2, <1>4, FreshPoolPacked DEF PoolTypes
<1>5. CASE initialize
  BY <1>1, <1>4, <1>5 DEF initialize, CceInv
<1>6. CASE GridCall
  <2>1. UNCHANGED cceVars
    BY <1>6 DEF GridCall, ResetGrid, AllocateResource, Deallocate, FindContiguous, AllocateFound
  <2> QED BY <1>1, <1>3, <2>1 DEF CceInv
<1>7. CASE PoolCall
  <2>1. CASE ResetPool
    BY <1>1, <1>4, <2>1 DEF ResetPool, CceInv
  <2>2. ASSUME NEW al \in AggregationLevels, AllocateCces(al) PROVE CceInv'
    BY <1>1, <1>2, <2>2, AllocatePacked DEF CceInv, PoolTypes
  <2>3. ASSUME NEW al \in AggregationLevels, NEW start \in 0..(NumCces - 1),
               DeallocateCces(start, al)
        PROVE  CceInv'
    BY <1>1, <1>2, <2>3, DeallocatePacked DEF CceInv, PoolTypes
  <2> QED BY <1>7, <2>1, <2>2, <2>3 DEF PoolCall
<1>8. CASE UNCHANGED vars
  BY <1>1, <1>3, <1>8 DEF vars, cceVars, CceInv
<1> QED BY <1>5, <1>6, <1>7, <1>8 DEF Next

LEMMA InitCceInv == Init => CceInv /\ GridTypes
<1> SUFFICES ASSUME Init PROVE CceInv /\ GridTypes
  OBVIOUS
<1>1. PoolInv
  BY InitPoolInv
<1>2. /\ grid = {} /\ held = {} /\ found = {} /\ grid_trusted = TRUE
      /\ cce_bitmap = {} /\ allocated_count = 0 /\ cce_held = {}
      /\ smallest = Highest(AggregationLevels)
      /\ subject \in {"grid", "pool"}
  BY DEF Init
<1>3. smallest \in AggregationLevels /\ smallest \in Nat
  BY <1>2, HighestIsLevel, SlotResourcesAssumption
<1>4. 0 = 0 * smallest /\ 0..(0 - 1) = {}
  BY <1>3
<1>5. allocated_count = 0 * smallest /\ cce_bitmap = 0..(allocated_count - 1)
  BY <1>2, <1>4
<1>6. Packed
  BY <1>5 DEF Packed
<1>7. PoolTypes
  BY <1>2, <1>3 DEF PoolTypes
<1>8. GridTypes
  BY <1>2 DEF GridTypes
<1> QED BY <1>1, <1>6, <1>7, <1>8 DEF CceInv

\* Every variable of the slot's resources keeps its type: no caller marks an element
\* outside the grid or the pool, and the count never leaves 0..num_cces
\* (ResourceGrid, CcePool).
THEOREM TypeCorrect == Spec => []TypeOK
<1>1. CceInv /\ GridTypes => TypeOK
  <2> SUFFICES ASSUME CceInv, GridTypes PROVE TypeOK
    OBVIOUS
  <2>1. allocated_count \in 0..NumCces
    BY CountInPool DEF CceInv
  <2> QED BY <2>1 DEF CceInv, PoolInv, PoolTypes, GridTypes, TypeOK
<1> QED BY <1>1, InitCceInv, CceStep, GridTypesStep, PTL DEF Spec

\* In every grid and for every size asked for, find_contiguous finds the lowest run
\* of free blocks that is long enough, and one if there is one
\* (ResourceGrid::find_contiguous).
THEOREM ScanFindsTheLowestRun == Spec => []ScanFindsLowestRun
BY ScanIsRight, PTL

\* can_allocate, which looks at the count alone, refuses nothing that allocate would
\* grant, and is exact while the levels do not rise and nothing is released
\* (CcePool::can_allocate, allocate).
THEOREM CanAllocateIsExact == Spec => []CanAllocateExact
BY InitCceInv, CceStep, CceCallsAreRight, PTL DEF Spec
=============================================================================
