---------------------------- MODULE SlotResources ----------------------------
(***************************************************************************)
(* The radio resources of one slot, struct SlotContext of                   *)
(* include/core/cell_context.hpp: a ResourceGrid and a CcePool, in the       *)
(* hands of any callers, through all of their operations.                    *)
(*                                                                          *)
(* Both classes are bitmaps without owners: they trust a caller to release   *)
(* what it was given.  `held' and `cce_held' are what the callers think they *)
(* hold; a caller whose elements another one released has lost its grant.    *)
(* A caller may find a run of blocks in one call and allocate it in a later  *)
(* one.                                                                     *)
(*                                                                          *)
(* The grid and the pool share no state but are reset together; `subject' is *)
(* a bound, the one of the two the calls of a behaviour go to.               *)
(***************************************************************************)
EXTENDS Integers, FiniteSets, ResourceGrid

CONSTANTS
  GridRbs, GridSymbols,   \* num_rbs_ and num_symbols_: up to 273 and 14
  NumCces,                \* num_cces_: coreset0_num_rbs * coreset0_num_symbols
  AggregationLevels       \* 1, 2, 4, 8 and 16 in the code

ASSUME SlotResourcesAssumption ==
  /\ GridRbs \in Nat \ {0} /\ GridSymbols \in Nat \ {0}
  /\ NumCces \in Nat
  /\ AggregationLevels \subseteq Nat \ {0}
  /\ \E highest \in AggregationLevels : \A al \in AggregationLevels : al <= highest
  /\ \A al1, al2 \in AggregationLevels : al1 <= al2 => al2 % al1 = 0

VARIABLES
  grid,             \* ResourceGrid::rb_allocation_
  held,             \* external: the resources held by a caller
  found,            \* external: runs found and not allocated yet, at most one
  grid_trusted,     \* external: every deallocation was of something held
  cce_bitmap,       \* CcePool::cce_bitmap_
  allocated_count,  \* CcePool::allocated_count_
  cce_held,         \* external: the blocks of CCEs held by a caller
  subject,          \* bound: "grid" or "pool"
  smallest          \* external: the lowest level allocated since the reset while
                    \* the levels do not rise and nothing is released, else 0

\* The members of the two classes, and what the callers know of them.
gridVars == <<grid, held, found, grid_trusted>>
cceVars  == <<cce_bitmap, allocated_count, cce_held, smallest>>
vars == <<grid, held, found, grid_trusted, cce_bitmap, allocated_count, cce_held, smallest, subject>>

\* What a caller asks for lies in the grid.
GridResources ==
  {res \in [start_rb : 0..(GridRbs - 1), num_rbs : 1..GridRbs,
            start_symbol : 0..(GridSymbols - 1), num_symbols : 1..GridSymbols] :
     /\ res.start_rb + res.num_rbs <= GridRbs
     /\ res.start_symbol + res.num_symbols <= GridSymbols}

Highest(S) == CHOOSE x \in S : \A y \in S : y <= x

FreshGrid == grid' = {} /\ held' = {} /\ found' = {} /\ grid_trusted' = TRUE

FreshPool ==
  cce_bitmap' = {} /\ allocated_count' = 0 /\ cce_held' = {}
    /\ smallest' = Highest(AggregationLevels)

Init ==
  /\ grid = {} /\ held = {} /\ found = {} /\ grid_trusted = TRUE
  /\ cce_bitmap = {} /\ allocated_count = 0 /\ cce_held = {}
  /\ smallest = Highest(AggregationLevels)
  /\ subject \in {"grid", "pool"}

\* The next slot begins.
initialize == FreshGrid /\ FreshPool

-----------------------------------------------------------------------------
(* class ResourceGrid.                                                      *)

\* allocate returns FALSE and changes nothing where an element is taken.
Allocate(res) ==
  IF is_available(grid, res)
    THEN grid' = allocate(grid, res) /\ held' = held \cup {res}
    ELSE UNCHANGED <<grid, held>>

AllocateResource(res) ==
  /\ Allocate(res)
  /\ UNCHANGED <<found, grid_trusted, cceVars>>

\* Mutant: the last symbol is left out.
Deallocate_short(res) ==
  /\ grid' = grid \ ResourceElements([res EXCEPT !.num_symbols = @ - 1])
  /\ held' = {other \in held : ResourceElements(other) \cap ResourceElements(res) = {}}
  /\ grid_trusted' = (grid_trusted /\ (res \in held))
  /\ UNCHANGED <<found, cceVars>>

\* The bits are cleared whoever has set them.
Deallocate(res) ==
  /\ grid' = grid \ ResourceElements(res)
  /\ held' = {other \in held : ResourceElements(other) \cap ResourceElements(res) = {}}
  /\ grid_trusted' = (grid_trusted /\ (res \in held))
  /\ UNCHANGED <<found, cceVars>>

\* Mutant: a block in use does not end the run.
ScanBlock_without_reset(scan, rb, num_rbs, start_symbol, num_symbols) ==
  IF scan.done THEN scan
  ELSE IF \E sym \in start_symbol..(start_symbol + num_symbols - 1) : <<sym, rb>> \in grid
    THEN scan
    ELSE [start      |-> IF scan.contiguous = 0 THEN rb ELSE scan.start,
          contiguous |-> scan.contiguous + 1,
          done       |-> scan.contiguous + 1 >= num_rbs]

\* One turn of find_contiguous' loop over the blocks, for block rb.
ScanBlock(scan, rb, num_rbs, start_symbol, num_symbols) ==
  IF scan.done THEN scan
  ELSE IF \E sym \in start_symbol..(start_symbol + num_symbols - 1) : <<sym, rb>> \in grid
    THEN [scan EXCEPT !.contiguous = 0]
    ELSE [start      |-> IF scan.contiguous = 0 THEN rb ELSE scan.start,
          contiguous |-> scan.contiguous + 1,
          done       |-> scan.contiguous + 1 >= num_rbs]

\* The scan after the first n blocks.
Scan(num_rbs, start_symbol, num_symbols) ==
  LET after[n \in 0..GridRbs] ==
        IF n = 0 THEN [start |-> 0, contiguous |-> 0, done |-> FALSE]
        ELSE ScanBlock(after[n - 1], n - 1, num_rbs, start_symbol, num_symbols)
  IN  after[GridRbs]

\* The run find_contiguous returns, or none.
ScannedRuns(num_rbs, start_symbol, num_symbols) ==
  LET scan == Scan(num_rbs, start_symbol, num_symbols)
  IN  IF scan.done THEN {[start_rb |-> scan.start, num_rbs |-> num_rbs,
                          start_symbol |-> start_symbol, num_symbols |-> num_symbols]}
                   ELSE {}

FindContiguous(res) ==
  /\ found' = ScannedRuns(res.num_rbs, res.start_symbol, res.num_symbols)
  /\ UNCHANGED <<grid, held, grid_trusted, cceVars>>

\* What was found lies in the grid (TypeOK), as all that callers ask for does.
AllocateFound ==
  /\ \E res \in found \cap GridResources : Allocate(res)
  /\ found' = {}
  /\ UNCHANGED <<grid_trusted, cceVars>>

ResetGrid == FreshGrid /\ UNCHANGED cceVars

-----------------------------------------------------------------------------
(* class CcePool.                                                           *)

Cces(start, al) == start..(start + al - 1)

\* Mutant: the search ends with the last CCE, not with the last block.
FreeBlocks_past_end(al) ==
  {start \in {k * al : k \in 0..(NumCces \div al)} :
     start < NumCces /\ Cces(start, al) \cap cce_bitmap = {}}

\* Mutant: only the first CCE of a block is tested.
FreeBlocks_first_cce(al) ==
  {start \in {k * al : k \in 0..(NumCces \div al)} :
     start + al <= NumCces /\ start \notin cce_bitmap}

\* The aligned blocks within the pool whose CCEs are all free.
FreeBlocks(al) ==
  {start \in {k * al : k \in 0..(NumCces \div al)} :
     start + al <= NumCces /\ Cces(start, al) \cap cce_bitmap = {}}

available == NumCces - allocated_count

\* Mutant: one CCE too many is asked for.
can_allocate_strict(al) == available > al

can_allocate(al) == available >= al

\* The first free aligned block is allocated, if there is one.
AllocateCces(al) ==
  /\ \E start \in FreeBlocks(al) :
       /\ \A other \in FreeBlocks(al) : start <= other
       /\ cce_bitmap' = cce_bitmap \cup Cces(start, al)
       /\ allocated_count' = allocated_count + al
       /\ cce_held' = cce_held \cup {[start |-> start, al |-> al]}
       /\ smallest' = IF al <= smallest THEN al ELSE 0
  /\ UNCHANGED gridVars

\* Mutant: the count is lowered by the level, whatever bits are set.
DeallocateCces_unchecked(start, al) ==
  LET freed == Cces(start, al) \cap cce_bitmap
  IN  /\ cce_bitmap' = cce_bitmap \ freed
      /\ allocated_count' = allocated_count - al
      /\ cce_held' = {b \in cce_held : Cces(b.start, b.al) \cap freed = {}}
      /\ smallest' = IF freed = {} THEN smallest ELSE 0
      /\ UNCHANGED gridVars

\* Each CCE is counted off if its bit is set; those beyond the pool are skipped.
DeallocateCces(start, al) ==
  LET freed == Cces(start, al) \cap cce_bitmap
  IN  /\ cce_bitmap' = cce_bitmap \ freed
      /\ allocated_count' = allocated_count - Cardinality(freed)
      /\ cce_held' = {b \in cce_held : Cces(b.start, b.al) \cap freed = {}}
      /\ smallest' = IF freed = {} THEN smallest ELSE 0
      /\ UNCHANGED gridVars

ResetPool == FreshPool /\ UNCHANGED gridVars

-----------------------------------------------------------------------------

GridCall ==
  \/ ResetGrid
  \/ \E res \in GridResources : AllocateResource(res) \/ Deallocate(res) \/ FindContiguous(res)
  \/ AllocateFound

PoolCall ==
  \/ ResetPool
  \/ \E al \in AggregationLevels :
       \/ AllocateCces(al)
       \/ \E start \in 0..(NumCces - 1) : DeallocateCces(start, al)

Next ==
  /\ \/ initialize
     \/ subject = "grid" /\ GridCall
     \/ subject = "pool" /\ PoolCall
  /\ UNCHANGED subject

Spec == Init /\ [][Next]_vars

-----------------------------------------------------------------------------
(* Properties.                                                              *)

\* The values the variables take.
TypeOK ==
  /\ grid \subseteq (0..(GridSymbols - 1)) \X (0..(GridRbs - 1))
  /\ held \subseteq GridResources
  /\ found \subseteq GridResources
  /\ grid_trusted \in BOOLEAN
  /\ cce_bitmap \subseteq 0..(NumCces - 1)
  /\ allocated_count \in 0..NumCces
  /\ cce_held \subseteq [start : 0..(NumCces - 1), al : AggregationLevels]
  /\ smallest \in {0} \cup AggregationLevels
  /\ subject \in {"grid", "pool"}

\* Whatever is allocated, found, released, released twice or released by a caller
\* that does not hold it, the resources held are granted exclusively: no element is
\* granted again before its grant has ended (ResourceGrid::allocate, deallocate).
GridGrants == INSTANCE ExclusiveGrants WITH
  grants <- {ResourceElements(res) : res \in held}

GridGrantedOnce == GridGrants!Spec

\* The same of the blocks of CCEs (CcePool::allocate, deallocate).
CceGrants == INSTANCE ExclusiveGrants WITH
  grants <- {Cces(block.start, block.al) : block \in cce_held}

CcesGrantedOnce == CceGrants!Spec

\* The bits set are those of what is held: nothing held is free, and nothing leaks as
\* long as the callers release only what they hold (allocate, deallocate, reset).
GridMarksHeld ==
  LET marked == UNION {ResourceElements(res) : res \in held}
  IN  marked \subseteq grid /\ (grid_trusted => grid = marked)

\* find_contiguous, which counts free blocks from the left, finds the lowest run of
\* free blocks of the length asked for, and one whenever there is one; what it finds
\* can be allocated at once.
ScanFindsLowestRun ==
  \A num_rbs \in 1..GridRbs, first, num_symbols \in 0..GridSymbols :
    num_symbols > 0 /\ first + num_symbols <= GridSymbols =>
      LET runs == ScannedRuns(num_rbs, first, num_symbols)
      IN  /\ {res.start_rb : res \in runs} =
               find_contiguous(grid, GridRbs, num_rbs, first, num_symbols)
          /\ \A res \in runs : is_available(grid, res)

\* allocated_count_ is the number of CCEs taken, also when blocks are released
\* twice, at another level or from the middle of another block, so available() is
\* never wrong and never wraps (CcePool::allocate, deallocate).
CountIsExact == allocated_count = Cardinality(cce_bitmap)

\* can_allocate looks at the count alone.  It never refuses what allocate would
\* grant, and as long as the levels asked for do not rise and nothing is released
\* it is exact; otherwise free CCEs may be too scattered.
CanAllocateExact ==
  \A al \in AggregationLevels :
    /\ FreeBlocks(al) # {} => can_allocate(al)
    /\ al <= smallest /\ can_allocate(al) => FreeBlocks(al) # {}
=============================================================================
