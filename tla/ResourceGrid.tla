---------------------------- MODULE ResourceGrid ----------------------------
(***************************************************************************)
(* class ResourceGrid of include/core/cell_context.hpp: the bitmap of one   *)
(* slot in one direction.  A grid is the set of <<symbol, rb>> whose bit is *)
(* set.  A resource is a record with the first resource block and the       *)
(* number of blocks, the first symbol and the number of symbols.            *)
(***************************************************************************)
EXTENDS Integers

ResourceElements(res) ==
  (res.start_symbol..(res.start_symbol + res.num_symbols - 1))
    \X (res.start_rb..(res.start_rb + res.num_rbs - 1))

\* Mutant: the last symbol is not looked at.
is_available_short(grid, res) ==
  ResourceElements([res EXCEPT !.num_symbols = @ - 1]) \cap grid = {}

is_available(grid, res) == ResourceElements(res) \cap grid = {}

\* Mutant: the last block of the resource is not marked.
allocate_short(grid, res) == grid \cup ResourceElements([res EXCEPT !.num_rbs = @ - 1])

\* The bitmap after allocate() has returned true.
allocate(grid, res) == grid \cup ResourceElements(res)

\* The first blocks of the runs of num_rbs free blocks among the grid_rbs blocks
\* of the grid, free in each of the symbols asked for.
FreeRuns(grid, grid_rbs, num_rbs, start_symbol, num_symbols) ==
  {start \in 0..(grid_rbs - num_rbs) :
     is_available(grid, [start_rb |-> start, num_rbs |-> num_rbs,
                         start_symbol |-> start_symbol, num_symbols |-> num_symbols])}

\* Mutant: the scan goes on after the first run and reports the last one.
find_contiguous_last(grid, grid_rbs, num_rbs, start_symbol, num_symbols) ==
  LET runs == FreeRuns(grid, grid_rbs, num_rbs, start_symbol, num_symbols)
  IN  {start \in runs : \A other \in runs : other <= start}

\* find_contiguous for num_rbs > 0: the scan reports the lowest free run.
find_contiguous(grid, grid_rbs, num_rbs, start_symbol, num_symbols) ==
  LET runs == FreeRuns(grid, grid_rbs, num_rbs, start_symbol, num_symbols)
  IN  {start \in runs : \A other \in runs : start <= other}
=============================================================================
