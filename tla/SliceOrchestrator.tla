------------------------- MODULE SliceOrchestrator -------------------------
(***************************************************************************)
(* class SliceOrchestrator of src/slice_orchestrator.cpp: slices and their  *)
(* service level agreements, the UEs associated with them, and the budget   *)
(* of resource blocks each slice has in a slot, with borrowing.             *)
(*                                                                          *)
(* Every method holds Impl::mutex throughout and is one action.  The loops  *)
(* run over unordered maps, so an action that depends on their order takes  *)
(* the order, a rank of each slice, as a parameter.                         *)
(*                                                                          *)
(* The engine calls some of these methods but creates no slice, so that they *)
(* find none (see SchedulerEngine); the tests call the rest.  The caller is  *)
(* any: a decision it was told yes for is in "asked" until it is reported,   *)
(* and MaxAsked says how many may be there when it makes another call.  With *)
(* 0 it reports each decision before it does anything else.                 *)
(***************************************************************************)
EXTENDS Integers, FiniteSets, Functions

CONSTANTS
  SliceIds,
  Rntis,
  Directions,    \* "dl" and "ul", or one of them: they do not interact
  SlaConfigs,    \* the agreements a slice may be configured with
  CellWidths,    \* num_rbs of the cells budgets are calculated for
  Amounts,       \* numbers of blocks asked for, reported or returned
  WORD,          \* 2^16, the range of uint16_t
  COUNT_WORD,    \* 2^32, the range of connected_ues
  IndeterminateCounts,  \* what connected_ues may be before anything is stored in it
  MaxAsked,      \* decisions that may wait for their report while another call is made
  MaxCalls       \* bound: calls other than scheduling in the slot

\* resource_share is in whole units; the ratio of two shares and its product
\* with a number of blocks are taken to be exact in double precision.
SliceSlaConfig ==
  [guaranteed_rbs : Nat, max_rbs : Nat, resource_share : Nat, slice_priority : Nat,
   strict_isolation : BOOLEAN, preemption_capable : BOOLEAN, preemptible : BOOLEAN]

ASSUME SliceAssumption ==
  /\ IsFiniteSet(SliceIds) /\ IsFiniteSet(Rntis)
  /\ Directions \subseteq {"dl", "ul"}
  /\ WORD \in Nat \ {0} /\ COUNT_WORD \in Nat \ {0}
  /\ IndeterminateCounts \subseteq 0..(COUNT_WORD - 1)
  /\ SlaConfigs \subseteq SliceSlaConfig
  /\ \A sla \in SlaConfigs : sla.guaranteed_rbs < WORD /\ sla.max_rbs < WORD
  /\ CellWidths \subseteq 1..(WORD - 1)
  /\ Amounts \subseteq 1..(WORD - 1)
  /\ MaxAsked \in Nat /\ MaxCalls \in Nat

VARIABLES
  slice_configs,    \* the agreement of each configured slice
  slice_states,     \* SliceState::connected_ues of each slice that has a state
  ue_slice_map,     \* the slice of each associated UE
  current_budgets,  \* the budget of each slice that has one
  shared_pool,      \* of each direction, shared_pool_dl and shared_pool_ul
  cell_rbs,         \* external: num_rbs of the cell the budgets are for
  scheduled,        \* external: the blocks scheduled in the slot against the
                    \* budget of each slice, in each direction
  asked,            \* external: the decisions of the slot is_scheduling_allowed
                    \* said yes to and that are not reported yet
  slas_in_force,    \* external: no agreement was changed and no slice deleted
                    \* since the budgets were calculated
  calls             \* the calls counted against MaxCalls

vars == <<slice_configs, slice_states, ue_slice_map, current_budgets, shared_pool,
          cell_rbs, scheduled, asked, slas_in_force, calls>>
external == <<cell_rbs, scheduled, asked>>

Words  == 0..(WORD - 1)
HALF   == WORD \div 2
Counts == 0..(COUNT_WORD - 1)

\* int16_t, and a number converted to it.
Int16      == (-HALF)..(WORD - 1 - HALF)
AsInt16(n) == ((n + HALF) % WORD) - HALF

SliceResourceBudget ==
  [available_rbs : [Directions -> Words], used_rbs : [Directions -> Words],
   borrowed_rbs : Int16]

Decisions == [rnti : Rntis, rbs : Amounts, direction : Directions]

IsPartialFunction(f, S, T) ==
  DOMAIN f \subseteq S /\ f \in [DOMAIN f -> T]

Nothing == [s \in SliceIds |-> [d \in Directions |-> 0]]

Lesser(a, b) == IF a < b THEN a ELSE b

-----------------------------------------------------------------------------
(* Slices and the UEs associated with them.                                 *)

Init ==
  /\ slice_configs = <<>>
  /\ slice_states = <<>>
  /\ ue_slice_map = <<>>
  /\ current_budgets = <<>>
  /\ shared_pool = [d \in Directions |-> 0]
  /\ cell_rbs \in CellWidths
  /\ scheduled = Nothing
  /\ asked = {}
  /\ slas_in_force = FALSE
  /\ calls = 0

Call == calls < MaxCalls /\ calls' = calls + 1

With(f, x, value) == [y \in DOMAIN f \cup {x} |-> IF y = x THEN value ELSE f[y]]

\* Of the state that is stored only slice_id and active are initialised.
create_slice(s, sla, connected) ==
  /\ Call
  /\ s \notin DOMAIN slice_configs
  /\ slice_configs' = With(slice_configs, s, sla)
  /\ slice_states' = With(slice_states, s, connected)
  /\ UNCHANGED <<ue_slice_map, current_budgets, shared_pool, external, slas_in_force>>

update_slice(s, sla) ==
  /\ Call
  /\ s \in DOMAIN slice_configs
  /\ slice_configs' = [slice_configs EXCEPT ![s] = sla]
  /\ slas_in_force' = FALSE
  /\ UNCHANGED <<slice_states, ue_slice_map, current_budgets, shared_pool, external>>

Erase(s) ==
  /\ slice_configs' = Restrict(slice_configs, DOMAIN slice_configs \ {s})
  /\ slice_states' = Restrict(slice_states, DOMAIN slice_states \ {s})
  /\ current_budgets' = Restrict(current_budgets, DOMAIN current_budgets \ {s})
  /\ scheduled' = [scheduled EXCEPT ![s] = Nothing[s]]
  /\ slas_in_force' = FALSE
  /\ UNCHANGED <<ue_slice_map, shared_pool, cell_rbs, asked>>

\* Mutant: the UEs of the slice are not looked for.
delete_slice_with_ues(s) == Call /\ s \in DOMAIN slice_configs /\ Erase(s)

delete_slice(s) ==
  /\ Call
  /\ s \in DOMAIN slice_configs
  /\ \A r \in DOMAIN ue_slice_map : ue_slice_map[r] # s
  /\ Erase(s)

\* The slice a UE was associated with before is not told.
associate_ue(r, s) ==
  /\ Call
  /\ s \in DOMAIN slice_configs
  /\ ue_slice_map' = With(ue_slice_map, r, s)
  /\ slice_states' = [slice_states EXCEPT ![s] = (@ + 1) % COUNT_WORD]
  /\ UNCHANGED <<slice_configs, current_budgets, shared_pool, external, slas_in_force>>

\* slice_states[s] makes a state for a slice that has none.
disassociate_ue(r) ==
  /\ Call
  /\ r \in DOMAIN ue_slice_map
  /\ LET s         == ue_slice_map[r]
         connected == IF s \in DOMAIN slice_states THEN slice_states[s] ELSE 0
     IN  slice_states' = With(slice_states, s, IF connected > 0 THEN connected - 1 ELSE 0)
  /\ ue_slice_map' = Restrict(ue_slice_map, DOMAIN ue_slice_map \ {r})
  /\ UNCHANGED <<slice_configs, current_budgets, shared_pool, external, slas_in_force>>

-----------------------------------------------------------------------------
(* Budgets.                                                                 *)

Orders(S) == Injection(S, 1..Cardinality(S))

Before(order, s) == {o \in DOMAIN order : order[o] < order[s]}

\* Mutant: a slice takes its demand whatever is left.
TakeInOrder_unlimited(order, demand, total) == [s \in DOMAIN order |-> demand[s]]

\* Each slice of the order takes up to its demand of what those before it left.
TakeInOrder(order, demand, total) ==
  [s \in DOMAIN order |->
     LET left == total - SumFunctionOnSet(demand, Before(order, s))
     IN  IF left < 0 THEN 0 ELSE Lesser(demand[s], left)]

\* The extra blocks of a slice from the shared pool.  The limit is computed in
\* uint16_t: when max_rbs is below what the slice has, it is huge.
Extra(sla, has, pool, total_share) ==
  LET share == (pool * sla.resource_share) \div total_share
  IN  IF total_share = 0 THEN 0
      ELSE IF sla.max_rbs = 0 THEN share
      ELSE Lesser(share, (sla.max_rbs - has) % WORD)

\* Mutant: the shares are of the cell and not of the pool.
calculate_budgets_share_of_cell(num_rbs, order) ==
  LET guaranteed  == [s \in DOMAIN order |-> slice_configs[s].guaranteed_rbs]
      granted     == TakeInOrder(order, guaranteed, num_rbs)
      pool        == num_rbs - SumFunction(granted)
      total_share == SumFunction([s \in DOMAIN order |-> slice_configs[s].resource_share])
  IN  /\ Call
      /\ shared_pool' = [d \in Directions |-> pool]
      /\ current_budgets' = [s \in DOMAIN order |->
           LET available == granted[s] + Extra(slice_configs[s], granted[s], num_rbs, total_share)
           IN  [available_rbs |-> [d \in Directions |-> available % WORD],
                used_rbs |-> [d \in Directions |-> 0], borrowed_rbs |-> 0]]
      /\ cell_rbs' = num_rbs
      /\ scheduled' = Nothing /\ asked' = {}
      /\ slas_in_force' = TRUE
      /\ UNCHANGED <<slice_configs, slice_states, ue_slice_map>>

\* Called at the start of a slot: the guaranteed blocks in the order of the
\* slices as far as the cell has them, then the shares of what is left.
calculate_budgets(num_rbs, order) ==
  LET guaranteed  == [s \in DOMAIN order |-> slice_configs[s].guaranteed_rbs]
      granted     == TakeInOrder(order, guaranteed, num_rbs)
      pool        == num_rbs - SumFunction(granted)
      total_share == SumFunction([s \in DOMAIN order |-> slice_configs[s].resource_share])
  IN  /\ Call
      /\ shared_pool' = [d \in Directions |-> pool]
      /\ current_budgets' = [s \in DOMAIN order |->
           LET available == granted[s] + Extra(slice_configs[s], granted[s], pool, total_share)
           IN  [available_rbs |-> [d \in Directions |-> available % WORD],
                used_rbs |-> [d \in Directions |-> 0], borrowed_rbs |-> 0]]
      /\ cell_rbs' = num_rbs
      /\ scheduled' = Nothing /\ asked' = {}
      /\ slas_in_force' = TRUE
      /\ UNCHANGED <<slice_configs, slice_states, ue_slice_map>>

\* remaining_dl and remaining_ul: an unsigned difference.
Remaining(s, d) ==
  (current_budgets[s].available_rbs[d] - current_budgets[s].used_rbs[d]) % WORD

\* Mutant: a slice that may not be preempted lends too.
Lenders_any(s) ==
  {o \in DOMAIN current_budgets \ {s} :
     /\ o \in DOMAIN slice_configs
     /\ slice_configs[s].slice_priority < slice_configs[o].slice_priority}

\* A lower slice_priority takes precedence.  preemption_capable is not read.
Lenders(s) ==
  {o \in DOMAIN current_budgets \ {s} :
     /\ o \in DOMAIN slice_configs
     /\ slice_configs[o].preemptible
     /\ slice_configs[s].slice_priority < slice_configs[o].slice_priority}

\* Mutant: a lender keeps the blocks it lent.
request_resources_free(s, rbs_needed, d, order) ==
  LET taken    == TakeInOrder(order, [o \in DOMAIN order |-> Remaining(o, d)],
                              rbs_needed - Remaining(s, d))
      borrowed == SumFunction(taken)
  IN  /\ s \in DOMAIN slice_configs
      /\ Remaining(s, d) < rbs_needed
      /\ ~slice_configs[s].strict_isolation
      /\ current_budgets' = [current_budgets EXCEPT
                               ![s].available_rbs[d] = (@ + borrowed) % WORD,
                               ![s].borrowed_rbs = AsInt16(@ + borrowed)]
      /\ UNCHANGED <<slice_configs, slice_states, ue_slice_map, shared_pool, external,
                     slas_in_force, calls>>

\* The blocks that are missing are taken from the lenders in some order, and
\* count as used for a lender and as available for the borrower.  A request that
\* needs to borrow nothing, or may not, changes nothing.
request_resources(s, rbs_needed, d, order) ==
  LET taken    == TakeInOrder(order, [o \in DOMAIN order |-> Remaining(o, d)],
                              rbs_needed - Remaining(s, d))
      borrowed == SumFunction(taken)
  IN  /\ s \in DOMAIN slice_configs
      /\ Remaining(s, d) < rbs_needed
      /\ ~slice_configs[s].strict_isolation
      /\ current_budgets' = [o \in DOMAIN current_budgets |->
           CASE o = s ->
                  [current_budgets[o] EXCEPT !.available_rbs[d] = (@ + borrowed) % WORD,
                                             !.borrowed_rbs = AsInt16(@ + borrowed)]
             [] o \in DOMAIN order ->
                  [current_budgets[o] EXCEPT !.used_rbs[d] = (@ + taken[o]) % WORD]
             [] OTHER -> current_budgets[o]]
      /\ UNCHANGED <<slice_configs, slice_states, ue_slice_map, shared_pool, external,
                     slas_in_force, calls>>

\* The blocks go to the shared pool, which nothing reads before it is computed
\* again, and stay in the budget of the slice.  Both numbers of the minimum are
\* int16_t: 2^15 blocks or more are negative, and what counts as borrowed grows.
return_resources(s, rbs_unused, d) ==
  /\ Call
  /\ s \in DOMAIN current_budgets
  /\ shared_pool' = [shared_pool EXCEPT ![d] = (@ + rbs_unused) % WORD]
  /\ current_budgets' = [current_budgets EXCEPT ![s].borrowed_rbs =
                           IF @ > 0 THEN AsInt16(@ - Lesser(@, AsInt16(rbs_unused)))
                                  ELSE @]
  /\ UNCHANGED <<slice_configs, slice_states, ue_slice_map, external, slas_in_force>>

Budgeted(r) == r \in DOMAIN ue_slice_map /\ ue_slice_map[r] \in DOMAIN current_budgets

\* A UE without a slice and a slice without a budget are not limited.
is_scheduling_allowed(r, rbs, d) ==
  Budgeted(r) => Remaining(ue_slice_map[r], d) >= rbs

\* The blocks are charged to the budget of the UE's slice, if it has both, whether
\* they are left in it or not.
report_scheduling(r, rbs, d) ==
  /\ IF Budgeted(r)
     THEN LET s == ue_slice_map[r]
          IN  /\ current_budgets' = [current_budgets EXCEPT
                                       ![s].used_rbs[d] = (@ + rbs) % WORD]
              /\ scheduled' = [scheduled EXCEPT ![s][d] = @ + rbs]
     ELSE UNCHANGED <<current_budgets, scheduled>>
  /\ UNCHANGED <<slice_configs, slice_states, ue_slice_map, shared_pool, cell_rbs,
                 slas_in_force, calls>>

\* The caller asks about a decision and is told yes.  A no changes nothing.
Ask(x) ==
  /\ is_scheduling_allowed(x.rnti, x.rbs, x.direction)
  /\ asked' = asked \cup {x}
  /\ UNCHANGED <<slice_configs, slice_states, ue_slice_map, current_budgets, shared_pool,
                 cell_rbs, scheduled, slas_in_force, calls>>

\* The caller reports a decision, with whatever was called since it asked.
Report(x) ==
  /\ report_scheduling(x.rnti, x.rbs, x.direction)
  /\ asked' = asked \ {x}

-----------------------------------------------------------------------------

Administer ==
  \/ \E s \in SliceIds :
       \/ \E sla \in SlaConfigs :
            \/ \E connected \in IndeterminateCounts : create_slice(s, sla, connected)
            \/ update_slice(s, sla)
       \/ delete_slice(s)
       \/ \E r \in Rntis : associate_ue(r, s)
  \/ \E r \in Rntis : disassociate_ue(r)

Budget ==
  \/ \E num_rbs \in CellWidths, order \in Orders(DOMAIN slice_configs) :
       calculate_budgets(num_rbs, order)
  \/ \E s \in DOMAIN current_budgets, d \in Directions, rbs \in Amounts :
       \/ \E order \in Orders(Lenders(s)) : request_resources(s, rbs, d, order)
       \/ return_resources(s, rbs, d)

Next ==
  \/ /\ Cardinality(asked) <= MaxAsked
     /\ Administer \/ Budget \/ \E x \in Decisions : Ask(x)
  \/ \E x \in asked : Report(x)

Spec == Init /\ [][Next]_vars

-----------------------------------------------------------------------------
(* Properties.                                                              *)

\* The values the variables take.
TypeOK ==
  /\ IsPartialFunction(slice_configs, SliceIds, SlaConfigs)
  /\ IsPartialFunction(slice_states, SliceIds, Counts)
  /\ IsPartialFunction(ue_slice_map, Rntis, SliceIds)
  /\ IsPartialFunction(current_budgets, SliceIds, SliceResourceBudget)
  /\ shared_pool \in [Directions -> Words]
  /\ cell_rbs \in CellWidths
  /\ scheduled \in [SliceIds -> [Directions -> Nat]]
  /\ asked \subseteq Decisions
  /\ slas_in_force \in BOOLEAN
  /\ calls \in 0..MaxCalls

\* No call leaves a UE, a state or a budget behind for a slice that is not
\* configured: the slice of a UE can be looked up in every map (create_slice,
\* delete_slice, associate_ue, disassociate_ue).
AssociationsValid ==
  /\ \A r \in DOMAIN ue_slice_map : ue_slice_map[r] \in DOMAIN slice_configs
  /\ DOMAIN slice_states = DOMAIN slice_configs
  /\ DOMAIN current_budgets \subseteq DOMAIN slice_configs

\* Whatever the agreements and the borrowing between the slices, what is
\* scheduled against their budgets in a slot and what they have left fits in the
\* cell, when each decision is reported before another call (MaxAsked = 0;
\* calculate_budgets, request_resources, report_scheduling).
BudgetsWithinCell ==
  \A d \in Directions :
    SumFunction([s \in SliceIds |-> scheduled[s][d]])
      + SumFunction([s \in DOMAIN current_budgets |-> Remaining(s, d)]) <= cell_rbs

\* The slices are isolated: none schedules blocks beyond its budget, and what it has
\* left ("Remaining capacity", slice_orchestrator.hpp:126) does not wrap to nearly
\* 2^16 blocks (is_scheduling_allowed, report_scheduling).
NoOverdraft ==
  \A s \in DOMAIN current_budgets, d \in Directions :
    slas_in_force => current_budgets[s].used_rbs[d] <= current_budgets[s].available_rbs[d]

Used(s) == SumFunction(current_budgets[s].used_rbs)
Magnitude(n) == IF n < 0 THEN -n ELSE n

\* get_statistics reports an isolation efficiency of at least 0: the blocks that count
\* as borrowed are among those that count as used, although they are counted for one
\* slice and charged to others, and may be returned.  It is so for returns below 2^15
\* blocks, as those in a cell are: a greater number is negative in return_resources
\* and what counts as borrowed grows.  Deleting a lender in the slot ends it.
BorrowedBlocksAreUsed ==
  slas_in_force =>
    SumFunction([s \in DOMAIN current_budgets |-> Magnitude(current_budgets[s].borrowed_rbs)])
      <= SumFunction([s \in DOMAIN current_budgets |-> Used(s)])

\* When the guarantees of the slices fit in the cell, a slice that is not
\* preemptible can still schedule its guaranteed blocks, or has scheduled them,
\* at any moment of the slot, whatever the other slices borrow, as long as the
\* agreements the budgets were calculated with are in force (calculate_budgets,
\* request_resources) and each decision is reported before another call.
GuaranteeKept ==
  \A s \in DOMAIN current_budgets, d \in Directions :
    /\ slas_in_force
    /\ ~slice_configs[s].preemptible
    /\ SumFunction([o \in DOMAIN current_budgets |-> slice_configs[o].guaranteed_rbs])
         <= cell_rbs
    => scheduled[s][d] + Remaining(s, d) >= slice_configs[s].guaranteed_rbs
=============================================================================
