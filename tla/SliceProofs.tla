---------------------------- MODULE SliceProofs ----------------------------
(***************************************************************************)
(* The slice orchestrator, for any slices, UEs, agreements and widths of a   *)
(* cell.                                                                    *)
(*                                                                          *)
(* The maps and the types: no call leaves a key behind for a slice that is    *)
(* gone, and every count stays in its type, whatever the caller reports.     *)
(*                                                                          *)
(* The budgets (BudgetInv), when each decision is reported before another    *)
(* call: the shares of the blocks fit in the cell when they are made,        *)
(* borrowing and reporting move blocks between what slices have left and     *)
(* what they have scheduled, so that the sum stays within the cell and a     *)
(* slice that is not preemptible is left with what it was guaranteed.        *)
(***************************************************************************)
EXTENDS SliceOrchestrator, NumberLemmas

-----------------------------------------------------------------------------
(* The maps of slices and UEs.                                              *)

\* No call leaves a key behind for a slice that is gone.
LEMMA NextAssociations == AssociationsValid /\ [Next]_vars => AssociationsValid'
<1> SUFFICES ASSUME AssociationsValid, [Next]_vars PROVE AssociationsValid'
  OBVIOUS
<1>0. /\ DOMAIN slice_states = DOMAIN slice_configs
      /\ DOMAIN current_budgets \subseteq DOMAIN slice_configs
      /\ \A r \in DOMAIN ue_slice_map : ue_slice_map[r] \in DOMAIN slice_configs
  BY DEF AssociationsValid
<1>1. ASSUME NEW s, NEW sla, NEW connected, create_slice(s, sla, connected)
      PROVE  AssociationsValid'
  <2>1. /\ DOMAIN slice_configs' = DOMAIN slice_configs \cup {s}
        /\ DOMAIN slice_states' = DOMAIN slice_states \cup {s}
        /\ ue_slice_map' = ue_slice_map /\ current_budgets' = current_budgets
    BY <1>1 DEF create_slice, With
  <2> QED BY <1>0, <2>1 DEF AssociationsValid
<1>2. ASSUME NEW s, NEW sla, update_slice(s, sla) PROVE AssociationsValid'
  <2>1. /\ DOMAIN slice_configs' = DOMAIN slice_configs
        /\ UNCHANGED <<slice_states, ue_slice_map, current_budgets>>
    BY <1>2 DEF update_slice
  <2> QED BY <1>0, <2>1 DEF AssociationsValid
<1>3. ASSUME NEW s, delete_slice(s) PROVE AssociationsValid'
  <2>1. /\ \A r \in DOMAIN ue_slice_map : ue_slice_map[r] # s
        /\ DOMAIN slice_configs' = DOMAIN slice_configs \ {s}
        /\ DOMAIN slice_states' = DOMAIN slice_states \ {s}
        /\ DOMAIN current_budgets' = DOMAIN current_budgets \ {s}
        /\ ue_slice_map' = ue_slice_map
    BY <1>3 DEF delete_slice, Erase, Restrict
  <2> QED BY <1>0, <2>1 DEF AssociationsValid
<1>4. ASSUME NEW r, NEW s, associate_ue(r, s) PROVE AssociationsValid'
  <2>1. /\ s \in DOMAIN slice_configs /\ DOMAIN slice_states' = DOMAIN slice_states
        /\ ue_slice_map' = [q \in DOMAIN ue_slice_map \cup {r} |->
                              IF q = r THEN s ELSE ue_slice_map[q]]
        /\ UNCHANGED <<slice_configs, current_budgets>>
    BY <1>4 DEF associate_ue, With
  <2> QED BY <1>0, <2>1 DEF AssociationsValid
<1>5. ASSUME NEW r, disassociate_ue(r) PROVE AssociationsValid'
  <2>1. /\ ue_slice_map[r] \in DOMAIN slice_states
        /\ DOMAIN slice_states' = DOMAIN slice_states \cup {ue_slice_map[r]}
        /\ ue_slice_map' = [q \in DOMAIN ue_slice_map \ {r} |-> ue_slice_map[q]]
        /\ UNCHANGED <<slice_configs, current_budgets>>
    BY <1>0, <1>5 DEF disassociate_ue, With, Restrict
  <2> QED BY <1>0, <2>1 DEF AssociationsValid
<1>6. ASSUME NEW num_rbs \in CellWidths, NEW order \in Orders(DOMAIN slice_configs),
             calculate_budgets(num_rbs, order)
      PROVE  AssociationsValid'
  <2>1. DOMAIN order = DOMAIN slice_configs
    BY DEF Orders, Injection
  <2>2. /\ DOMAIN current_budgets' = DOMAIN order
        /\ UNCHANGED <<slice_configs, slice_states, ue_slice_map>>
    BY <1>6 DEF calculate_budgets
  <2> QED BY <1>0, <2>1, <2>2 DEF AssociationsValid
<1>7. ASSUME DOMAIN current_budgets' = DOMAIN current_budgets,
             UNCHANGED <<slice_configs, slice_states, ue_slice_map>>
      PROVE  AssociationsValid'
  BY <1>0, <1>7 DEF AssociationsValid
<1>8. ASSUME NEW s, NEW d, NEW rbs, NEW order, request_resources(s, rbs, d, order)
      PROVE  AssociationsValid'
  BY <1>7, <1>8 DEF request_resources
<1>9. ASSUME NEW s, NEW d, NEW rbs, return_resources(s, rbs, d) PROVE AssociationsValid'
  BY <1>7, <1>9 DEF return_resources
<1>10. ASSUME NEW x, Ask(x) PROVE AssociationsValid'
  BY <1>7, <1>10 DEF Ask
<1>11. ASSUME NEW x, Report(x) PROVE AssociationsValid'
  <2>1. /\ DOMAIN current_budgets' = DOMAIN current_budgets
        /\ UNCHANGED <<slice_configs, slice_states, ue_slice_map>>
    BY <1>11 DEF Report, report_scheduling
  <2> QED BY <1>7, <2>1
<1>12. CASE UNCHANGED vars
  BY <1>7, <1>12 DEF vars
<1>13. ASSUME Administer PROVE AssociationsValid'
  BY <1>1, <1>2, <1>3, <1>4, <1>5, <1>13 DEF Administer
<1>14. ASSUME Budget PROVE AssociationsValid'
  BY <1>6, <1>8, <1>9, <1>14 DEF Budget
<1> QED BY <1>10, <1>11, <1>12, <1>13, <1>14 DEF Next

\* There is no key before the first call.
LEMMA InitAssociations == Init => AssociationsValid
<1> SUFFICES ASSUME Init PROVE AssociationsValid
  OBVIOUS
<1>1. /\ slice_configs = <<>> /\ slice_states = <<>> /\ ue_slice_map = <<>>
      /\ current_budgets = <<>>
  BY DEF Init
<1>2. DOMAIN <<>> = {}
  OBVIOUS
<1> QED BY <1>1, <1>2 DEF AssociationsValid

\* The slice of every UE, state and budget is configured, whatever is created,
\* deleted, associated, borrowed and reported (create_slice, delete_slice,
\* associate_ue, disassociate_ue, calculate_budgets).
THEOREM AssociationsStayValid == Spec => []AssociationsValid
<1> QED BY InitAssociations, NextAssociations, PTL DEF Spec

-----------------------------------------------------------------------------
(* The numbers.                                                             *)

\* A number of blocks is a word.
LEMMA AmountType == \A rbs \in Amounts : rbs \in Nat /\ rbs \in 1..(WORD - 1) /\ 0 < rbs
BY SliceAssumption

\* A number converted to uint16_t is one, and so is one converted to int16_t.
LEMMA Converted ==
  /\ \A n \in Int : n % WORD \in Words /\ AsInt16(n) \in Int16
  /\ Int16 \subseteq Int /\ Words \subseteq Nat
<1>1. WORD \in Nat /\ WORD > 0 /\ HALF \in Nat /\ HALF <= WORD
  <2>1. WORD \in Nat /\ WORD > 0
    BY SliceAssumption
  <2>2. WORD \div 2 \in Nat /\ WORD \div 2 <= WORD
    BY <2>1
  <2> QED BY <2>1, <2>2 DEF HALF
<1>2. \A n \in Int : n % WORD \in 0..(WORD - 1)
  BY <1>1
<1>3. ASSUME NEW n \in Int PROVE AsInt16(n) \in Int16
  <2> DEFINE r == (n + HALF) % WORD
  <2>1. r \in 0..(WORD - 1)
    <3>1. n + HALF \in Int
      BY <1>1
    <3> QED BY <1>2, <3>1
  <2> HIDE DEF r
  <2>2. r - HALF \in (-HALF)..(WORD - 1 - HALF)
    BY <1>1, <2>1
  <2> QED BY <2>2 DEF AsInt16, Int16, r
<1>4. Int16 \subseteq Int /\ Words \subseteq Nat
  BY <1>1 DEF Int16, Words
<1> QED BY <1>2, <1>3, <1>4 DEF Words

\* The numbers of an agreement.
LEMMA SlaType ==
  ASSUME TypeOK, NEW s \in DOMAIN slice_configs
  PROVE  /\ s \in SliceIds /\ slice_configs[s] \in SlaConfigs
         /\ slice_configs[s].guaranteed_rbs \in Nat /\ slice_configs[s].max_rbs \in Nat
         /\ slice_configs[s].resource_share \in Nat /\ slice_configs[s].slice_priority \in Nat
<1>1. s \in SliceIds /\ slice_configs[s] \in SlaConfigs
  BY DEF TypeOK, IsPartialFunction
<1> QED BY <1>1, SliceAssumption DEF SliceSlaConfig

\* The budgets are finitely many, and their counts are numbers.
LEMMA BudgetsType ==
  ASSUME TypeOK
  PROVE  /\ IsFiniteSet(DOMAIN current_budgets) /\ DOMAIN current_budgets \subseteq SliceIds
         /\ \A s \in DOMAIN current_budgets : current_budgets[s] \in SliceResourceBudget
<1>1. IsFiniteSet(DOMAIN current_budgets)
  BY FS_Subset, SliceAssumption DEF TypeOK, IsPartialFunction
<1> QED BY <1>1 DEF TypeOK, IsPartialFunction

\* The counts of a budget are words, and so is their difference.
LEMMA BudgetType ==
  ASSUME TypeOK, NEW s \in DOMAIN current_budgets, NEW d \in Directions
  PROVE  /\ s \in SliceIds /\ current_budgets[s] \in SliceResourceBudget
         /\ current_budgets[s].available_rbs[d] \in Words
         /\ current_budgets[s].used_rbs[d] \in Words
         /\ current_budgets[s].borrowed_rbs \in Int16
         /\ Remaining(s, d) \in Words /\ Remaining(s, d) \in Nat
<1> DEFINE a == current_budgets[s].available_rbs[d]
           u == current_budgets[s].used_rbs[d]
<1>1. s \in SliceIds /\ current_budgets[s] \in SliceResourceBudget
  BY BudgetsType
<1>2. a \in Words /\ u \in Words /\ current_budgets[s].borrowed_rbs \in Int16
  BY <1>1 DEF SliceResourceBudget
<1>3. Remaining(s, d) = (a - u) % WORD
  BY DEF Remaining
<1> HIDE DEF a, u
<1>4. a - u \in Int
  BY <1>2, Converted
<1>5. Remaining(s, d) \in Words /\ Remaining(s, d) \in Nat
  BY <1>3, <1>4, Converted
<1> QED BY <1>1, <1>2, <1>5 DEF a, u

-----------------------------------------------------------------------------
(* Taking blocks in an order.                                               *)

\* What the slices take is no more than their demand, together no more than there
\* is, and all of the demand when there is enough (TakeInOrder).
LEMMA TakenInOrder ==
  ASSUME NEW D, IsFiniteSet(D), NEW order \in Orders(D), NEW total \in Nat,
         NEW demand, \A s \in D : demand[s] \in Nat,
         NEW taken, taken = TakeInOrder(order, demand, total)
  PROVE  /\ DOMAIN taken = D
         /\ \A s \in D : taken[s] \in Nat /\ taken[s] <= demand[s]
         /\ SumFunctionOnSet(taken, D) <= total
         /\ SumFunctionOnSet(demand, D) <= total => \A s \in D : taken[s] = demand[s]
<1> DEFINE n == Cardinality(D)
           sum(f, A) == SumFunctionOnSet(f, A)
           left(s) == total - sum(demand, Before(order, s))
           P(k) == {s \in D : order[s] <= k}
           N == {k \in Nat : sum(taken, P(k)) = Lesser(sum(demand, P(k)), total)}
<1>1. /\ n \in Nat /\ order \in [D -> 1..n] /\ DOMAIN order = D
      /\ \A s, o \in D : order[s] = order[o] => s = o
      /\ \A s \in D : order[s] \in 1..n
  BY FS_CardinalityType DEF Orders, Injection, IsInjective
<1>2. \A A \in SUBSET D : IsFiniteSet(A)
  BY FS_Subset
<1>3. ASSUME NEW A \in SUBSET D PROVE sum(demand, A) \in Nat
  BY <1>2, SumNat
<1>4. /\ DOMAIN taken = D
      /\ \A s \in D : taken[s] = IF left(s) < 0 THEN 0 ELSE Lesser(demand[s], left(s))
  BY <1>1 DEF TakeInOrder
<1>5. ASSUME NEW s \in D PROVE /\ left(s) \in Int /\ Before(order, s) \in SUBSET D
                               /\ taken[s] \in Nat /\ taken[s] <= demand[s]
  <2>1. Before(order, s) \in SUBSET D
    BY <1>1 DEF Before
  <2>2. sum(demand, Before(order, s)) \in Nat
    BY <1>3, <2>1
  <2>3. left(s) \in Int
    <3> HIDE DEF sum
    <3> QED BY <2>2
  <2>4. demand[s] \in Nat /\ taken[s] = IF left(s) < 0 THEN 0 ELSE Lesser(demand[s], left(s))
    BY <1>4
  <2> HIDE DEF left
  <2> QED BY <2>1, <2>3, <2>4 DEF Lesser
<1> HIDE DEF sum, left
<1>6. 0 \in N
  <2>1. P(0) = {}
    BY <1>1
  <2>2. sum(taken, {}) = 0 /\ sum(demand, {}) = 0
    BY SumEquation DEF sum
  <2>3. Lesser(0, total) = 0
    BY DEF Lesser
  <2> QED BY <2>1, <2>2, <2>3
<1>7. ASSUME NEW k \in Nat, k \in N PROVE k + 1 \in N
  <2>1. sum(taken, P(k)) = Lesser(sum(demand, P(k)), total)
    BY <1>7
  <2>2. CASE \E s \in D : order[s] = k + 1
    <3>1. PICK s \in D : order[s] = k + 1
      BY <2>2
    <3>2. /\ P(k + 1) = P(k) \cup {s} /\ s \notin P(k) /\ Before(order, s) = P(k)
          /\ P(k) \in SUBSET D
      BY <1>1, <3>1 DEF Before
    <3>3. IsFiniteSet(P(k)) /\ sum(demand, P(k)) \in Nat
      BY <1>2, <1>3, <3>2
    <3>4. \A o \in P(k) : taken[o] \in Int /\ demand[o] \in Int
      BY <1>5, <3>2
    <3>5. taken[s] \in Nat /\ demand[s] \in Nat
      BY <1>5
    <3>6. left(s) = total - sum(demand, P(k))
      BY <3>2 DEF left
    <3>7. taken[s] = IF left(s) < 0 THEN 0 ELSE Lesser(demand[s], left(s))
      BY <1>4
    <3> HIDE DEF P
    <3>8. sum(taken, P(k) \cup {s}) = sum(taken, P(k)) + taken[s]
      BY <3>2, <3>3, <3>4, <3>5, SumAdd DEF sum
    <3>9. sum(demand, P(k) \cup {s}) = sum(demand, P(k)) + demand[s]
      BY <3>2, <3>3, <3>4, <3>5, SumAdd DEF sum
    <3> DEFINE a == sum(taken, P(k) \cup {s})
               b == sum(demand, P(k) \cup {s})
    <3> HIDE DEF a, b
    <3>10. a = Lesser(b, total)
      BY <2>1, <3>3, <3>5, <3>6, <3>7, <3>8, <3>9 DEF Lesser, a, b
    <3> QED BY <3>2, <3>10 DEF a, b
  <2>3. CASE ~\E s \in D : order[s] = k + 1
    <3>1. P(k + 1) = P(k)
      BY <1>1, <2>3
    <3> HIDE DEF P
    <3> QED BY <2>1, <3>1
  <2> QED BY <2>2, <2>3
<1> HIDE DEF N
<1>8. n \in N
  BY <1>1, <1>6, <1>7, NatSetInduction
<1>9. P(n) = D
  BY <1>1
<1>10. sum(taken, D) = Lesser(sum(demand, D), total) /\ sum(demand, D) \in Nat
  BY <1>3, <1>8, <1>9 DEF N
<1>11. sum(taken, D) <= total
  BY <1>10 DEF Lesser
<1>12. ASSUME sum(demand, D) <= total, NEW s \in D PROVE taken[s] = demand[s]
  <2>1. s \notin Before(order, s) /\ Before(order, s) \cup {s} \in SUBSET D
    BY <1>1 DEF Before
  <2>2. sum(demand, Before(order, s) \cup {s}) = sum(demand, Before(order, s)) + demand[s]
    BY <1>2, <1>5, <2>1, SumAdd DEF sum
  <2>3. sum(demand, Before(order, s) \cup {s}) <= sum(demand, D)
    BY <2>1, SumOfPart DEF sum
  <2>4. sum(demand, Before(order, s)) \in Nat /\ demand[s] \in Nat
    BY <1>3, <1>5
  <2>5. left(s) >= demand[s] /\ left(s) \in Int
    <3> DEFINE x == sum(demand, Before(order, s) \cup {s})
               y == sum(demand, Before(order, s))
    <3>1. x = y + demand[s] /\ x <= sum(demand, D) /\ left(s) = total - y /\ y \in Nat
      BY <2>2, <2>3, <2>4 DEF left
    <3> HIDE DEF x, y
    <3> QED BY <1>10, <1>12, <2>4, <3>1
  <2>6. taken[s] = IF left(s) < 0 THEN 0 ELSE Lesser(demand[s], left(s))
    BY <1>4
  <2> QED BY <2>4, <2>5, <2>6 DEF Lesser
<1> QED BY <1>4, <1>5, <1>11, <1>12 DEF sum

-----------------------------------------------------------------------------
(* The types of what the calls for slices and UEs leave.                    *)

\* A map with one more entry, or one entry less, is a map still (With, Restrict).
LEMMA MapType ==
  ASSUME NEW f, NEW S, NEW T, IsPartialFunction(f, S, T), NEW x
  PROVE  /\ \A v \in T : x \in S => IsPartialFunction(With(f, x, v), S, T)
         /\ IsPartialFunction(Restrict(f, DOMAIN f \ {x}), S, T)
         /\ \A v \in T : IsPartialFunction([f EXCEPT ![x] = v], S, T)
<1>1. \A v \in T : x \in S => IsPartialFunction(With(f, x, v), S, T)
  BY DEF IsPartialFunction, With
<1>2. IsPartialFunction(Restrict(f, DOMAIN f \ {x}), S, T)
  BY DEF IsPartialFunction, Restrict
<1>3. \A v \in T : IsPartialFunction([f EXCEPT ![x] = v], S, T)
  BY DEF IsPartialFunction
<1> QED BY <1>1, <1>2, <1>3

\* A counted call leaves the count within its bound (Call).
LEMMA CallType == TypeOK /\ Call => calls' \in 0..MaxCalls /\ calls' = calls + 1
BY SliceAssumption DEF TypeOK, Call

\* Nothing changes but the maps of slices and UEs.
MapsOnly == UNCHANGED <<current_budgets, shared_pool, external>>

\* Then the types of the maps are enough.
LEMMA MapsTyped ==
  ASSUME TypeOK, MapsOnly, slas_in_force' \in BOOLEAN, calls' \in 0..MaxCalls,
         IsPartialFunction(slice_configs', SliceIds, SlaConfigs),
         IsPartialFunction(slice_states', SliceIds, Counts),
         IsPartialFunction(ue_slice_map', Rntis, SliceIds)
  PROVE  TypeOK'
BY DEF TypeOK, MapsOnly, external

\* The count of UEs, counted up or down, is a count.
LEMMA CountType ==
  /\ 0 \in Counts
  /\ \A n \in Counts : (n + 1) % COUNT_WORD \in Counts /\ (n > 0 => n - 1 \in Counts)
<1>1. COUNT_WORD \in Nat /\ COUNT_WORD > 0
  BY SliceAssumption
<1>2. \A x \in Nat : x % COUNT_WORD \in 0..(COUNT_WORD - 1)
  BY <1>1
<1>3. ASSUME NEW n \in 0..(COUNT_WORD - 1)
      PROVE  (n + 1) % COUNT_WORD \in 0..(COUNT_WORD - 1)
  <2>1. n + 1 \in Nat
    BY <1>1
  <2> QED BY <1>2, <2>1
<1> QED BY <1>1, <1>3 DEF Counts

\* Creating a slice keeps the types (create_slice).
LEMMA CreateType ==
  ASSUME TypeOK, NEW s \in SliceIds, NEW sla \in SlaConfigs, NEW connected \in IndeterminateCounts,
         create_slice(s, sla, connected)
  PROVE  TypeOK'
<1>0. connected \in Counts
  BY SliceAssumption DEF Counts
<1>1. /\ IsPartialFunction(With(slice_configs, s, sla), SliceIds, SlaConfigs)
      /\ IsPartialFunction(With(slice_states, s, connected), SliceIds, Counts)
  BY <1>0, MapType DEF TypeOK
<1>2. MapsOnly /\ calls' \in 0..MaxCalls /\ ue_slice_map' = ue_slice_map
      /\ slas_in_force' = slas_in_force
  BY CallType DEF create_slice, external, MapsOnly
<1>3. /\ slice_configs' = With(slice_configs, s, sla)
      /\ slice_states' = With(slice_states, s, connected)
  BY DEF create_slice
<1>4. IsPartialFunction(slice_configs', SliceIds, SlaConfigs)
      /\ IsPartialFunction(slice_states', SliceIds, Counts)
  BY <1>1, <1>3
<1>5. IsPartialFunction(ue_slice_map', Rntis, SliceIds) /\ slas_in_force' \in BOOLEAN
  BY <1>2 DEF TypeOK
<1> QED BY MapsTyped, <1>2, <1>4, <1>5

\* Updating the agreement of a slice keeps the types (update_slice).
LEMMA UpdateType ==
  ASSUME TypeOK, NEW s \in SliceIds, NEW sla \in SlaConfigs, update_slice(s, sla)
  PROVE  TypeOK'
<1>1. IsPartialFunction([slice_configs EXCEPT ![s] = sla], SliceIds, SlaConfigs)
  BY MapType DEF TypeOK
<1>2. MapsOnly /\ calls' \in 0..MaxCalls /\ ue_slice_map' = ue_slice_map
      /\ slas_in_force' = FALSE /\ slice_states' = slice_states
      /\ slice_configs' = [slice_configs EXCEPT ![s] = sla]
  BY CallType DEF update_slice, external, MapsOnly
<1>3. IsPartialFunction(slice_configs', SliceIds, SlaConfigs)
  BY <1>1, <1>2
<1>4. IsPartialFunction(ue_slice_map', Rntis, SliceIds) /\ slas_in_force' \in BOOLEAN
      /\ IsPartialFunction(slice_states', SliceIds, Counts)
  BY <1>2 DEF TypeOK
<1> QED BY MapsTyped, <1>2, <1>3, <1>4

\* Associating a UE keeps the types, whatever the count was (associate_ue).
LEMMA AssociateType ==
  ASSUME TypeOK, NEW s \in SliceIds, NEW r \in Rntis, associate_ue(r, s)
  PROVE  TypeOK'
<1> DEFINE count == IF s \in DOMAIN slice_states THEN (slice_states[s] + 1) % COUNT_WORD ELSE 0
<1>1. count \in Counts
  <2>1. \A o \in DOMAIN slice_states : slice_states[o] \in Counts
    BY DEF TypeOK, IsPartialFunction
  <2> QED BY <2>1, CountType
<1>2. slice_states' = [slice_states EXCEPT ![s] = count]
  BY DEF associate_ue, TypeOK, IsPartialFunction
<1>3. /\ IsPartialFunction(With(ue_slice_map, r, s), Rntis, SliceIds)
      /\ IsPartialFunction([slice_states EXCEPT ![s] = count], SliceIds, Counts)
  <2> HIDE DEF count
  <2> QED BY <1>1, MapType DEF TypeOK
<1>4. MapsOnly /\ calls' \in 0..MaxCalls /\ slas_in_force' = slas_in_force
      /\ slice_configs' = slice_configs /\ ue_slice_map' = With(ue_slice_map, r, s)
  BY CallType DEF associate_ue, external, MapsOnly
<1>5. /\ IsPartialFunction(ue_slice_map', Rntis, SliceIds)
      /\ IsPartialFunction(slice_states', SliceIds, Counts)
  BY <1>2, <1>3, <1>4
<1>6. IsPartialFunction(slice_configs', SliceIds, SlaConfigs) /\ slas_in_force' \in BOOLEAN
  BY <1>4 DEF TypeOK
<1> QED BY MapsTyped, <1>4, <1>5, <1>6

\* Ending an association keeps the types (disassociate_ue).
LEMMA DisassociateType ==
  ASSUME TypeOK, NEW r \in Rntis, disassociate_ue(r)
  PROVE  TypeOK'
<1> DEFINE o == ue_slice_map[r]
           connected == IF o \in DOMAIN slice_states THEN slice_states[o] ELSE 0
           count == IF connected > 0 THEN connected - 1 ELSE 0
<1>1. o \in SliceIds /\ connected \in Counts
  <2>1. \A s \in DOMAIN slice_states : slice_states[s] \in Counts
    BY DEF TypeOK, IsPartialFunction
  <2>2. o \in SliceIds
    BY DEF disassociate_ue, TypeOK, IsPartialFunction
  <2> QED BY <2>1, <2>2, CountType
<1>2. count \in Counts
  <2> HIDE DEF connected
  <2> QED BY <1>1, CountType
<1>3. MapsOnly /\ calls' \in 0..MaxCalls /\ slas_in_force' = slas_in_force
      /\ slice_configs' = slice_configs
      /\ ue_slice_map' = Restrict(ue_slice_map, DOMAIN ue_slice_map \ {r})
      /\ slice_states' = With(slice_states, o, count)
  BY CallType DEF disassociate_ue, external, MapsOnly
<1> HIDE DEF o, count
<1>4. /\ IsPartialFunction(Restrict(ue_slice_map, DOMAIN ue_slice_map \ {r}), Rntis, SliceIds)
      /\ IsPartialFunction(With(slice_states, o, count), SliceIds, Counts)
  BY <1>1, <1>2, MapType DEF TypeOK
<1>5. /\ IsPartialFunction(ue_slice_map', Rntis, SliceIds)
      /\ IsPartialFunction(slice_states', SliceIds, Counts)
  BY <1>3, <1>4
<1>6. IsPartialFunction(slice_configs', SliceIds, SlaConfigs) /\ slas_in_force' \in BOOLEAN
  BY <1>3 DEF TypeOK
<1> QED BY MapsTyped, <1>3, <1>5, <1>6

\* Deleting a slice keeps the types (delete_slice).
LEMMA DeleteType ==
  ASSUME TypeOK, NEW s \in SliceIds, delete_slice(s)
  PROVE  TypeOK'
<1>1. /\ IsPartialFunction(Restrict(slice_configs, DOMAIN slice_configs \ {s}), SliceIds, SlaConfigs)
      /\ IsPartialFunction(Restrict(slice_states, DOMAIN slice_states \ {s}), SliceIds, Counts)
      /\ IsPartialFunction(Restrict(current_budgets, DOMAIN current_budgets \ {s}), SliceIds,
                           SliceResourceBudget)
  BY MapType DEF TypeOK
<1>2. /\ slice_configs' = Restrict(slice_configs, DOMAIN slice_configs \ {s})
      /\ slice_states' = Restrict(slice_states, DOMAIN slice_states \ {s})
      /\ current_budgets' = Restrict(current_budgets, DOMAIN current_budgets \ {s})
      /\ scheduled' = [scheduled EXCEPT ![s] = Nothing[s]]
      /\ slas_in_force' = FALSE /\ calls' \in 0..MaxCalls
      /\ UNCHANGED <<ue_slice_map, shared_pool, cell_rbs, asked>>
  BY CallType DEF delete_slice, Erase
<1>3. /\ IsPartialFunction(slice_configs', SliceIds, SlaConfigs)
      /\ IsPartialFunction(slice_states', SliceIds, Counts)
      /\ IsPartialFunction(current_budgets', SliceIds, SliceResourceBudget)
  BY <1>1, <1>2
<1>4. scheduled' \in [SliceIds -> [Directions -> Nat]]
  <2>1. Nothing[s] \in [Directions -> Nat]
    BY DEF Nothing
  <2> QED BY <1>2, <2>1 DEF TypeOK
<1>5. /\ IsPartialFunction(ue_slice_map', Rntis, SliceIds)
      /\ shared_pool' \in [Directions -> Words] /\ cell_rbs' \in CellWidths
      /\ asked' \subseteq Decisions
  BY <1>2 DEF TypeOK
<1> QED BY <1>2, <1>3, <1>4, <1>5 DEF TypeOK

-----------------------------------------------------------------------------
(* Returning and reporting.                                                 *)

\* Returning blocks: only what counts as borrowed changes (return_resources).
LEMMA Returned ==
  ASSUME TypeOK, NEW s \in DOMAIN current_budgets, NEW d \in Directions,
         NEW rbs \in Amounts, return_resources(s, rbs, d)
  PROVE  /\ TypeOK'
         /\ DOMAIN current_budgets' = DOMAIN current_budgets
         /\ \A o \in DOMAIN current_budgets :
              /\ current_budgets'[o].available_rbs = current_budgets[o].available_rbs
              /\ current_budgets'[o].used_rbs = current_budgets[o].used_rbs
         /\ UNCHANGED <<slice_configs, cell_rbs, scheduled, asked, slas_in_force>>
<1>1. rbs \in Nat /\ \A o \in DOMAIN current_budgets : current_budgets[o] \in SliceResourceBudget
  BY AmountType, BudgetsType
<1> DEFINE b == current_budgets[s].borrowed_rbs
           v == IF b > 0 THEN AsInt16(b - Lesser(b, AsInt16(rbs))) ELSE b
<1>2. v \in Int16
  <2>1. b \in Int16 /\ b \in Int /\ AsInt16(rbs) \in Int
    <3>1. b \in Int16
      BY BudgetType
    <3>2. AsInt16(rbs) \in Int16
      BY <1>1, Converted
    <3> HIDE DEF b
    <3> QED BY <3>1, <3>2, Converted
  <2> DEFINE c == AsInt16(rbs)
  <2> HIDE DEF b, c
  <2>2. b - Lesser(b, c) \in Int
    BY <2>1 DEF Lesser, c
  <2>3. AsInt16(b - Lesser(b, c)) \in Int16
    BY <2>2, Converted
  <2> QED BY <2>1, <2>3 DEF c
<1>3. /\ current_budgets' = [current_budgets EXCEPT ![s].borrowed_rbs = v]
      /\ UNCHANGED <<slice_configs, slice_states, ue_slice_map, cell_rbs, scheduled, asked,
                     slas_in_force>>
      /\ shared_pool' = [shared_pool EXCEPT ![d] = (@ + rbs) % WORD]
      /\ calls' \in 0..MaxCalls
  BY <1>1, CallType DEF return_resources, external
<1> HIDE DEF v
<1>4. /\ DOMAIN current_budgets' = DOMAIN current_budgets
      /\ \A o \in DOMAIN current_budgets \ {s} : current_budgets'[o] = current_budgets[o]
      /\ current_budgets'[s] = [current_budgets[s] EXCEPT !.borrowed_rbs = v]
  BY <1>3
<1>5. /\ current_budgets'[s].available_rbs = current_budgets[s].available_rbs
      /\ current_budgets'[s].used_rbs = current_budgets[s].used_rbs
      /\ current_budgets'[s] \in SliceResourceBudget
  BY <1>1, <1>2, <1>4 DEF SliceResourceBudget
<1>6. shared_pool' \in [Directions -> Words]
  <2> DEFINE w == (shared_pool[d] + rbs) % WORD
  <2>1. shared_pool[d] + rbs \in Int
    <3>1. shared_pool[d] \in Nat
      BY Converted DEF TypeOK
    <3> QED BY <1>1, <3>1
  <2>2. w \in Words
    BY <2>1, Converted
  <2> HIDE DEF w
  <2>3. [shared_pool EXCEPT ![d] = w] \in [Directions -> Words]
    BY <2>2 DEF TypeOK
  <2> QED BY <1>3, <2>3 DEF w
<1>7. IsPartialFunction(current_budgets', SliceIds, SliceResourceBudget)
  <2>1. current_budgets' = [o \in DOMAIN current_budgets |-> current_budgets'[o]]
    BY <1>3
  <2>2. \A o \in DOMAIN current_budgets : current_budgets'[o] \in SliceResourceBudget
    BY <1>1, <1>4, <1>5
  <2> QED BY <1>4, <2>1, <2>2, BudgetsType DEF IsPartialFunction
<1>8. TypeOK'
  BY <1>3, <1>6, <1>7 DEF TypeOK
<1> QED BY <1>3, <1>4, <1>5, <1>8

\* Reporting a decision: the blocks of the UE's slice count as used and as scheduled
\* (report_scheduling).
LEMMA Reported ==
  ASSUME TypeOK, NEW x \in asked, Report(x)
  PROVE  LET s == ue_slice_map[x.rnti]
             d == x.direction
         IN  /\ TypeOK' /\ asked' = asked \ {x} /\ x \in Decisions
             /\ DOMAIN current_budgets' = DOMAIN current_budgets
             /\ UNCHANGED <<slice_configs, cell_rbs, slas_in_force>>
             /\ ~Budgeted(x.rnti) => UNCHANGED <<current_budgets, scheduled>>
             /\ Budgeted(x.rnti) =>
                  /\ s \in DOMAIN current_budgets /\ s \in SliceIds
                  /\ current_budgets'[s].available_rbs = current_budgets[s].available_rbs
                  /\ current_budgets'[s].used_rbs[d]
                       = (current_budgets[s].used_rbs[d] + x.rbs) % WORD
                  /\ \A e \in Directions \ {d} :
                       current_budgets'[s].used_rbs[e] = current_budgets[s].used_rbs[e]
                  /\ \A o \in DOMAIN current_budgets \ {s} :
                       current_budgets'[o] = current_budgets[o]
                  /\ scheduled'[s][d] = scheduled[s][d] + x.rbs
                  /\ \A o \in SliceIds, e \in Directions :
                       o # s \/ e # d => scheduled'[o][e] = scheduled[o][e]
<1> DEFINE s == ue_slice_map[x.rnti]
           d == x.direction
           rbs == x.rbs
           v == (current_budgets[s].used_rbs[d] + rbs) % WORD
<1>1. x \in Decisions /\ d \in Directions /\ rbs \in Amounts /\ rbs \in Nat
  <2>1. x \in Decisions
    BY DEF TypeOK
  <2>2. d \in Directions /\ rbs \in Amounts
    BY <2>1 DEF Decisions
  <2> QED BY <2>1, <2>2, AmountType
<1>2. /\ asked' = asked \ {x}
      /\ UNCHANGED <<slice_configs, slice_states, ue_slice_map, shared_pool, cell_rbs,
                     slas_in_force, calls>>
      /\ ~Budgeted(x.rnti) => UNCHANGED <<current_budgets, scheduled>>
      /\ Budgeted(x.rnti) =>
           /\ s \in DOMAIN current_budgets
           /\ current_budgets' = [current_budgets EXCEPT ![s].used_rbs[d] = v]
           /\ scheduled' = [scheduled EXCEPT ![s][d] = @ + rbs]
  BY DEF Report, report_scheduling, Budgeted
<1>3. asked' \subseteq Decisions
  BY <1>2 DEF TypeOK
<1>4. CASE ~Budgeted(x.rnti)
  <2>1. TypeOK'
    BY <1>2, <1>3, <1>4 DEF TypeOK
  <2> QED BY <1>1, <1>2, <1>4, <2>1
<1>5. CASE Budgeted(x.rnti)
  <2> HIDE DEF s, d, rbs
  <2>1. /\ s \in DOMAIN current_budgets /\ s \in SliceIds
        /\ \A o \in DOMAIN current_budgets : current_budgets[o] \in SliceResourceBudget
    BY <1>2, <1>5, BudgetsType
  <2>2. v \in Words
    <3>1. current_budgets[s].used_rbs[d] \in Nat
      BY <1>1, <2>1, BudgetType, Converted
    <3>2. current_budgets[s].used_rbs[d] + rbs \in Int
      BY <1>1, <3>1
    <3> QED BY <3>2, Converted
  <2> HIDE DEF v
  <2>3. /\ DOMAIN current_budgets' = DOMAIN current_budgets
        /\ \A o \in DOMAIN current_budgets \ {s} : current_budgets'[o] = current_budgets[o]
        /\ current_budgets'[s] = [current_budgets[s] EXCEPT !.used_rbs[d] = v]
        /\ current_budgets' = [o \in DOMAIN current_budgets |-> current_budgets'[o]]
    BY <1>2, <1>5, <2>1
  <2>4. /\ current_budgets'[s].available_rbs = current_budgets[s].available_rbs
        /\ current_budgets'[s].used_rbs = [current_budgets[s].used_rbs EXCEPT ![d] = v]
    BY <2>1, <2>3 DEF SliceResourceBudget
  <2>5. current_budgets[s].used_rbs \in [Directions -> Words]
    BY <2>1 DEF SliceResourceBudget
  <2>6. /\ current_budgets'[s].used_rbs[d] = v
        /\ \A e \in Directions \ {d} :
             current_budgets'[s].used_rbs[e] = current_budgets[s].used_rbs[e]
    BY <1>1, <2>4, <2>5
  <2>7. current_budgets'[s] \in SliceResourceBudget
    <3>1. current_budgets'[s].used_rbs \in [Directions -> Words]
      BY <2>2, <2>4, <2>5
    <3> QED BY <2>1, <2>3, <2>4, <3>1 DEF SliceResourceBudget
  <2>8. /\ scheduled' \in [SliceIds -> [Directions -> Nat]]
        /\ scheduled'[s][d] = scheduled[s][d] + rbs
        /\ \A o \in SliceIds, e \in Directions :
             o # s \/ e # d => scheduled'[o][e] = scheduled[o][e]
    BY <1>1, <1>2, <1>5, <2>1 DEF TypeOK
  <2>9. IsPartialFunction(current_budgets', SliceIds, SliceResourceBudget)
    <3>1. \A o \in DOMAIN current_budgets : current_budgets'[o] \in SliceResourceBudget
      BY <2>1, <2>3, <2>7
    <3> QED BY <2>3, <3>1, BudgetsType DEF IsPartialFunction
  <2>10. TypeOK'
    BY <1>2, <1>3, <2>8, <2>9 DEF TypeOK
  <2> QED BY <1>1, <1>2, <1>5, <2>1, <2>3, <2>4, <2>6, <2>8, <2>10 DEF s, d, rbs, v
<1> QED BY <1>4, <1>5

-----------------------------------------------------------------------------
(* The budgets of a slot.                                                   *)

\* What is granted and what comes on top of it, when that is no more than was left.
LEMMA PartsTogether ==
  ASSUME NEW D, IsFiniteSet(D), NEW num \in Nat, NEW pool \in Nat,
         NEW granted, NEW extra, NEW avail,
         \A s \in D : granted[s] \in Nat /\ extra[s] \in Nat /\ avail[s] = granted[s] + extra[s],
         SumFunctionOnSet(granted, D) + pool = num, SumFunctionOnSet(extra, D) <= pool
  PROVE  /\ SumFunctionOnSet(avail, D) <= num
         /\ \A s \in D : avail[s] \in Nat /\ granted[s] <= avail[s] /\ avail[s] <= num
<1>1. \A s \in D : avail[s] \in Nat /\ granted[s] <= avail[s]
  OBVIOUS
<1>2. SumFunctionOnSet(avail, D) = SumFunctionOnSet(granted, D) + SumFunctionOnSet(extra, D)
  <2>1. \A s \in D : granted[s] \in Int /\ extra[s] \in Int /\ avail[s] = granted[s] + extra[s]
    OBVIOUS
  <2> QED BY <2>1, SumPlus
<1>3. /\ SumFunctionOnSet(avail, D) \in Nat /\ SumFunctionOnSet(granted, D) \in Nat
      /\ SumFunctionOnSet(extra, D) \in Nat
  BY <1>1, SumNat
<1> DEFINE x == SumFunctionOnSet(avail, D)
           y == SumFunctionOnSet(granted, D)
           z == SumFunctionOnSet(extra, D)
<1>4. x = y + z /\ x \in Nat /\ y \in Nat /\ z \in Nat /\ y + pool = num /\ z <= pool
  BY <1>2, <1>3
<1>5. x <= num
  <2> HIDE DEF x, y, z
  <2> QED BY <1>4
<1>6. ASSUME NEW s \in D PROVE avail[s] <= num
  <2>1. avail[s] = avail[s] + 0 /\ avail[s] \in Int
    BY <1>1
  <2>2. SumFunctionOnSet(avail, D) = avail[s] + SumFunctionOnSet(avail, D \ {s})
    <3>1. \A o \in D : avail[o] \in Int
      BY <1>1
    <3> QED BY <3>1, SumRemove
  <2>3. SumFunctionOnSet(avail, D \ {s}) \in Nat
    <3>1. IsFiniteSet(D \ {s}) /\ \A o \in D \ {s} : avail[o] \in Nat
      BY <1>1, FS_RemoveElement
    <3> QED BY <3>1, SumNat
  <2> DEFINE w == SumFunctionOnSet(avail, D \ {s})
  <2>4. x = avail[s] + w /\ w \in Nat /\ x <= num /\ x \in Nat /\ avail[s] \in Nat
    BY <1>1, <1>4, <1>5, <2>2, <2>3
  <2> HIDE DEF w, x
  <2> QED BY <2>4
<1> QED BY <1>1, <1>5, <1>6

\* The values calculate_budgets computes for slices D with agreements sla.
Given(D, order, num, sla, guaranteed, granted, pool, shares, total_share, avail) ==
  /\ guaranteed = [s \in D |-> sla[s].guaranteed_rbs]
  /\ granted = TakeInOrder(order, guaranteed, num)
  /\ pool = num - SumFunction(granted)
  /\ shares = [s \in D |-> sla[s].resource_share]
  /\ total_share = SumFunction(shares)
  /\ avail = [s \in D |-> granted[s] + Extra(sla[s], granted[s], pool, total_share)]

\* The blocks that a cell gives to slices, guaranteed and shared, are no more than it
\* has, and a slice is given its guarantee when the cell has all of them (the two loops
\* of calculate_budgets).
LEMMA BlocksGiven ==
  ASSUME NEW D, IsFiniteSet(D), NEW order \in Orders(D), NEW num \in 0..(WORD - 1),
         NEW sla \in [D -> SliceSlaConfig], NEW guaranteed, NEW granted, NEW pool,
         NEW shares, NEW total_share, NEW avail,
         Given(D, order, num, sla, guaranteed, granted, pool, shares, total_share, avail)
  PROVE  /\ pool \in Words
         /\ \A s \in D : avail[s] \in Nat /\ avail[s] < WORD
         /\ SumFunctionOnSet(avail, D) <= num
         /\ SumFunctionOnSet(guaranteed, D) <= num =>
              \A s \in D : avail[s] >= sla[s].guaranteed_rbs
<1>1. WORD \in Nat \ {0} /\ num \in Nat /\ num < WORD
  BY SliceAssumption
<1>2. \A s \in D : /\ sla[s].guaranteed_rbs \in Nat /\ sla[s].max_rbs \in Nat
                   /\ sla[s].resource_share \in Nat
  BY DEF SliceSlaConfig
<1>3. \A s \in D : guaranteed[s] \in Nat /\ guaranteed[s] = sla[s].guaranteed_rbs
  BY <1>2 DEF Given
<1>0. granted = TakeInOrder(order, guaranteed, num)
  BY DEF Given
<1>4. /\ DOMAIN granted = D
      /\ \A s \in D : granted[s] \in Nat /\ granted[s] <= guaranteed[s]
      /\ SumFunctionOnSet(granted, D) <= num
      /\ SumFunctionOnSet(guaranteed, D) <= num => \A s \in D : granted[s] = guaranteed[s]
  BY <1>0, <1>1, <1>3, TakenInOrder
<1> DEFINE all == SumFunctionOnSet(granted, D)
<1>5. all \in Nat
  BY <1>4, SumNat
<1>6. pool = num - all
  BY <1>4 DEF SumFunction, Given
<1>7. pool \in Nat /\ pool <= num /\ all + pool = num
  <2>1. all <= num
    BY <1>4
  <2> HIDE DEF all
  <2> QED BY <1>1, <1>5, <1>6, <2>1
<1>8. pool \in Words
  BY <1>1, <1>7 DEF Words
<1>9. total_share = SumFunctionOnSet(shares, D) /\ \A s \in D : shares[s] \in Nat
        /\ shares[s] = sla[s].resource_share
  BY <1>2 DEF SumFunction, Given
<1>10. total_share \in Nat
  <2>1. SumFunctionOnSet(shares, D) \in Nat
    BY <1>9, SumNat
  <2> QED BY <1>9, <2>1
<1> DEFINE extra == [s \in D |-> Extra(sla[s], granted[s], pool, total_share)]
           part == [s \in D |-> (pool * shares[s]) \div SumFunctionOnSet(shares, D)]
<1>11. ASSUME total_share = 0
       PROVE  (\A s \in D : extra[s] \in Nat) /\ SumFunctionOnSet(extra, D) <= pool
  <2>1. \A s \in D : extra[s] = 0
    BY <1>11 DEF Extra
  <2> HIDE DEF extra
  <2>2. SumFunctionOnSet(extra, D) = 0
    BY <2>1, SumZero
  <2> QED BY <1>7, <2>1, <2>2
<1>12. ASSUME total_share # 0
       PROVE  (\A s \in D : extra[s] \in Nat) /\ SumFunctionOnSet(extra, D) <= pool
  <2>1. ASSUME NEW s \in D PROVE extra[s] \in Nat /\ part[s] \in Nat /\ extra[s] <= part[s]
    <3> DEFINE share == (pool * sla[s].resource_share) \div total_share
               limit == (sla[s].max_rbs - granted[s]) % WORD
    <3>1. part[s] = share
      BY <1>9
    <3>2. share \in Nat
      <4> DEFINE x == pool * sla[s].resource_share
      <4>1. x \in Nat
        BY <1>2, <1>7
      <4>2. total_share \in Nat /\ total_share > 0
        BY <1>10, <1>12
      <4> HIDE DEF x
      <4>3. x \div total_share \in Nat
        BY <4>1, <4>2
      <4> QED BY <4>3 DEF x
    <3>3. limit \in Nat
      <4> DEFINE x == sla[s].max_rbs - granted[s]
      <4>1. x \in Int /\ WORD \in Nat /\ WORD > 0
        BY <1>1, <1>2, <1>4
      <4> HIDE DEF x
      <4>2. x % WORD \in Nat
        BY <4>1
      <4> QED BY <4>2 DEF x
    <3>4. extra[s] = IF sla[s].max_rbs = 0 THEN share ELSE Lesser(share, limit)
      BY <1>12 DEF Extra
    <3> HIDE DEF share, limit, extra, part
    <3> QED BY <3>1, <3>2, <3>3, <3>4 DEF Lesser
  <2>2. \A s \in D : shares[s] \in Nat /\ part[s] = (pool * shares[s]) \div SumFunctionOnSet(shares, D)
    BY <1>9
  <2>3. SumFunctionOnSet(shares, D) # 0
    BY <1>9, <1>12
  <2> HIDE DEF extra, part
  <2>4. SumFunctionOnSet(part, D) <= pool
    BY <1>7, <2>2, <2>3, SumOfShares
  <2>5. SumFunctionOnSet(extra, D) <= SumFunctionOnSet(part, D)
    <3>1. \A s \in D : extra[s] \in Int /\ part[s] \in Int /\ extra[s] <= part[s]
      BY <2>1
    <3> QED BY <3>1, SumLeq
  <2>6. SumFunctionOnSet(extra, D) \in Nat /\ SumFunctionOnSet(part, D) \in Nat
    BY <2>1, SumNat
  <2> QED BY <1>7, <2>1, <2>4, <2>5, <2>6
<1>13. (\A s \in D : extra[s] \in Nat) /\ SumFunctionOnSet(extra, D) <= pool
  BY <1>11, <1>12
<1>14. \A s \in D : avail[s] = granted[s] + extra[s]
  BY DEF Given
<1> HIDE DEF extra, part
<1>15. /\ \A s \in D : granted[s] \in Nat /\ extra[s] \in Nat /\ avail[s] = granted[s] + extra[s]
       /\ SumFunctionOnSet(granted, D) + pool = num /\ SumFunctionOnSet(extra, D) <= pool
  BY <1>4, <1>7, <1>13, <1>14
<1>16. /\ SumFunctionOnSet(avail, D) <= num
       /\ \A s \in D : avail[s] \in Nat /\ granted[s] <= avail[s] /\ avail[s] <= num
  BY <1>1, <1>7, <1>15, PartsTogether
<1>18. \A s \in D : avail[s] < WORD
  BY <1>1, <1>16
<1>19. ASSUME SumFunctionOnSet(guaranteed, D) <= num, NEW s \in D
       PROVE  avail[s] >= sla[s].guaranteed_rbs
  <2>1. granted[s] = sla[s].guaranteed_rbs
    BY <1>3, <1>4, <1>19
  <2> QED BY <1>2, <1>16, <2>1
<1> QED BY <1>8, <1>16, <1>18, <1>19

\* Calculating the budgets of a slot (calculate_budgets).
LEMMA Calculated ==
  ASSUME TypeOK, NEW num_rbs \in CellWidths,
         NEW order \in Orders(DOMAIN slice_configs), calculate_budgets(num_rbs, order)
  PROVE  /\ TypeOK'
         /\ DOMAIN current_budgets' = DOMAIN slice_configs /\ slice_configs' = slice_configs
         /\ cell_rbs' = num_rbs /\ scheduled' = Nothing /\ asked' = {} /\ slas_in_force' = TRUE
         /\ \E avail :
              /\ \A s \in DOMAIN slice_configs :
                   /\ avail[s] \in Words
                   /\ \A d \in Directions : /\ current_budgets'[s].available_rbs[d] = avail[s]
                                            /\ current_budgets'[s].used_rbs[d] = 0
              /\ SumFunctionOnSet(avail, DOMAIN slice_configs) <= num_rbs
              /\ SumFunction([s \in DOMAIN slice_configs |-> slice_configs[s].guaranteed_rbs]) <= num_rbs
                   => \A s \in DOMAIN slice_configs : avail[s] >= slice_configs[s].guaranteed_rbs
<1> DEFINE D == DOMAIN slice_configs
           guaranteed == [s \in D |-> slice_configs[s].guaranteed_rbs]
           granted == TakeInOrder(order, guaranteed, num_rbs)
           pool == num_rbs - SumFunction(granted)
           shares == [s \in D |-> slice_configs[s].resource_share]
           total_share == SumFunction(shares)
           avail == [s \in D |-> granted[s] + Extra(slice_configs[s], granted[s], pool, total_share)]
           budget(s) == [available_rbs |-> [d \in Directions |-> avail[s] % WORD],
                         used_rbs |-> [d \in Directions |-> 0], borrowed_rbs |-> 0]
<1>1. WORD \in Nat \ {0}
  BY SliceAssumption
<1>2. /\ D \subseteq SliceIds /\ IsFiniteSet(D)
      /\ slice_configs \in [D -> SliceSlaConfig] /\ slice_configs \in [D -> SlaConfigs]
  BY <1>1, FS_Subset, SliceAssumption DEF TypeOK, IsPartialFunction
<1>3. DOMAIN order = D
  BY DEF Orders, Injection
<1>4. /\ shared_pool' = [d \in Directions |-> pool]
      /\ current_budgets' = [s \in D |-> budget(s)]
      /\ cell_rbs' = num_rbs /\ scheduled' = Nothing /\ asked' = {} /\ slas_in_force' = TRUE
      /\ UNCHANGED <<slice_configs, slice_states, ue_slice_map>>
      /\ calls' \in 0..MaxCalls
  BY <1>1, <1>3, CallType DEF calculate_budgets
<1>5. num_rbs \in 0..(WORD - 1) /\ num_rbs \in Nat
  BY <1>1, SliceAssumption
<1>6. Given(D, order, num_rbs, slice_configs, guaranteed, granted, pool, shares, total_share, avail)
  BY DEF Given
<1>6a. SumFunction(guaranteed) = SumFunctionOnSet(guaranteed, D)
  BY DEF SumFunction
<1> HIDE DEF granted, pool, shares, total_share, avail, guaranteed, D
<1>7. /\ pool \in Words
      /\ \A s \in D : avail[s] \in Nat /\ avail[s] < WORD
      /\ SumFunctionOnSet(avail, D) <= num_rbs
      /\ SumFunctionOnSet(guaranteed, D) <= num_rbs =>
           \A s \in D : avail[s] >= slice_configs[s].guaranteed_rbs
  BY <1>2, <1>5, <1>6, BlocksGiven DEF D
<1>8. \A s \in D : avail[s] % WORD = avail[s] /\ avail[s] \in Words /\ 0 \in Words
  <2> SUFFICES ASSUME NEW s \in D
               PROVE  avail[s] % WORD = avail[s] /\ avail[s] \in Words /\ 0 \in Words
    OBVIOUS
  <2> DEFINE x == avail[s]
  <2>1. x \in Nat /\ x < WORD
    BY <1>7
  <2> HIDE DEF x
  <2>2. x % WORD = x /\ x \in 0..(WORD - 1) /\ 0 \in 0..(WORD - 1)
    BY <1>1, <2>1
  <2> QED BY <2>2 DEF x, Words
<1>9. /\ DOMAIN current_budgets' = D
      /\ \A s \in D : current_budgets'[s] = budget(s)
  BY <1>4
<1>10. \A s \in D : /\ current_budgets'[s] \in SliceResourceBudget
                    /\ \A d \in Directions :
                         /\ current_budgets'[s].available_rbs[d] = avail[s]
                         /\ current_budgets'[s].used_rbs[d] = 0
  <2>1. 0 \in Int16
    <3>1. WORD \div 2 \in Nat /\ WORD \div 2 <= WORD - 1
      BY <1>1
    <3> QED BY <1>1, <3>1 DEF Int16, HALF
  <2> QED BY <1>8, <1>9, <2>1 DEF SliceResourceBudget
<1>11. TypeOK'
  <2>1. IsPartialFunction(current_budgets', SliceIds, SliceResourceBudget)
    <3> HIDE DEF budget
    <3> QED BY <1>2, <1>4, <1>9, <1>10 DEF IsPartialFunction
  <2>2. shared_pool' \in [Directions -> Words]
    BY <1>4, <1>7
  <2>3. scheduled' \in [SliceIds -> [Directions -> Nat]]
    BY <1>4 DEF Nothing
  <2> QED BY <1>4, <2>1, <2>2, <2>3 DEF TypeOK
<1>12. SumFunction([s \in D |-> slice_configs[s].guaranteed_rbs]) <= num_rbs
         => \A s \in D : avail[s] >= slice_configs[s].guaranteed_rbs
  BY <1>6a, <1>7 DEF guaranteed
<1> HIDE DEF budget
<1> QED BY <1>4, <1>7, <1>8, <1>9, <1>10, <1>11, <1>12 DEF D

-----------------------------------------------------------------------------
(* Borrowing.                                                               *)

\* A step in which s borrows b blocks, taken from each of those it may borrow from.
Moved(s, d, taken, b) ==
  /\ DOMAIN current_budgets' = DOMAIN current_budgets
  /\ current_budgets' = [o \in DOMAIN current_budgets |-> current_budgets'[o]]
  /\ b \in Nat /\ b = SumFunctionOnSet(taken, Lenders(s))
  /\ \A o \in Lenders(s) :
       /\ taken[o] \in Nat /\ taken[o] <= Remaining(o, d)
       /\ current_budgets'[o] =
            [current_budgets[o] EXCEPT !.used_rbs[d] = (@ + taken[o]) % WORD]
  /\ current_budgets'[s] = [current_budgets[s] EXCEPT !.available_rbs[d] = (@ + b) % WORD,
                                                      !.borrowed_rbs = AsInt16(@ + b)]
  /\ \A o \in DOMAIN current_budgets \ (Lenders(s) \cup {s}) :
       current_budgets'[o] = current_budgets[o]

\* A request that is granted is such a step (request_resources).
LEMMA RequestMoves ==
  ASSUME TypeOK, NEW s \in DOMAIN current_budgets, NEW d \in Directions, NEW rbs \in Amounts,
         NEW order \in Orders(Lenders(s)), request_resources(s, rbs, d, order)
  PROVE  /\ \E taken, b : Moved(s, d, taken, b)
         /\ UNCHANGED <<slice_configs, slice_states, ue_slice_map, shared_pool, external,
                        slas_in_force, calls>>
<1> DEFINE L == Lenders(s)
           demand == [o \in DOMAIN order |-> Remaining(o, d)]
           total == rbs - Remaining(s, d)
           taken == TakeInOrder(order, demand, total)
           b == SumFunction(taken)
<1>1. L \subseteq DOMAIN current_budgets /\ s \notin L /\ IsFiniteSet(L)
  <2>1. L \subseteq DOMAIN current_budgets /\ s \notin L
    BY DEF Lenders
  <2> HIDE DEF L
  <2> QED BY <2>1, BudgetsType, FS_Subset
<1>2. DOMAIN order = L
  BY DEF Orders, Injection
<1>3. total \in Nat
  <2>1. Remaining(s, d) < rbs /\ Remaining(s, d) \in Nat /\ rbs \in Nat
    BY BudgetType, AmountType DEF request_resources
  <2> QED BY <2>1
<1>4. \A o \in L : demand[o] \in Nat /\ demand[o] = Remaining(o, d)
  BY <1>1, <1>2, BudgetType
<1>5. /\ current_budgets' = [o \in DOMAIN current_budgets |->
           CASE o = s ->
                  [current_budgets[o] EXCEPT !.available_rbs[d] = (@ + b) % WORD,
                                             !.borrowed_rbs = AsInt16(@ + b)]
             [] o \in DOMAIN order ->
                  [current_budgets[o] EXCEPT !.used_rbs[d] = (@ + taken[o]) % WORD]
             [] OTHER -> current_budgets[o]]
      /\ UNCHANGED <<slice_configs, slice_states, ue_slice_map, shared_pool, external,
                     slas_in_force, calls>>
  BY DEF request_resources
<1>6. taken = TakeInOrder(order, demand, total)
  OBVIOUS
<1> HIDE DEF demand, total, taken
<1>7. DOMAIN taken = L /\ \A o \in L : taken[o] \in Nat /\ taken[o] <= demand[o]
  <2> HIDE DEF L
  <2>1. order \in Orders(L)
    BY DEF L
  <2> QED BY <1>1, <1>3, <1>4, <1>6, <2>1, TakenInOrder
<1>8. b \in Nat /\ b = SumFunctionOnSet(taken, L)
  <2>1. b = SumFunctionOnSet(taken, L)
    BY <1>7 DEF SumFunction
  <2>2. SumFunctionOnSet(taken, L) \in Nat
    <3> HIDE DEF L
    <3> QED BY <1>1, <1>7, SumNat
  <2> QED BY <2>1, <2>2
<1> HIDE DEF b
<1>9. /\ DOMAIN current_budgets' = DOMAIN current_budgets
      /\ current_budgets' = [o \in DOMAIN current_budgets |-> current_budgets'[o]]
      /\ \A o \in L : current_budgets'[o] =
            [current_budgets[o] EXCEPT !.used_rbs[d] = (@ + taken[o]) % WORD]
      /\ current_budgets'[s] = [current_budgets[s] EXCEPT !.available_rbs[d] = (@ + b) % WORD,
                                                          !.borrowed_rbs = AsInt16(@ + b)]
      /\ \A o \in DOMAIN current_budgets \ (L \cup {s}) : current_budgets'[o] = current_budgets[o]
  <2> HIDE DEF L
  <2> QED BY <1>1, <1>2, <1>5
<1>10. Moved(s, d, taken, b)
  BY <1>4, <1>7, <1>8, <1>9 DEF Moved
<1> QED BY <1>5, <1>10

\* What such a step does to the counts of the budgets.
LEMMA CountsMoved ==
  ASSUME TypeOK, NEW s \in DOMAIN current_budgets, NEW d \in Directions, NEW taken, NEW b,
         Moved(s, d, taken, b)
  PROVE  /\ \A o \in DOMAIN current_budgets, e \in Directions :
              /\ o \notin Lenders(s) \/ e # d =>
                   current_budgets'[o].used_rbs[e] = current_budgets[o].used_rbs[e]
              /\ o # s \/ e # d =>
                   current_budgets'[o].available_rbs[e] = current_budgets[o].available_rbs[e]
         /\ \A o \in Lenders(s) :
              current_budgets'[o].used_rbs[d] = (current_budgets[o].used_rbs[d] + taken[o]) % WORD
         /\ current_budgets'[s].available_rbs[d] = (current_budgets[s].available_rbs[d] + b) % WORD
         /\ IsPartialFunction(current_budgets', SliceIds, SliceResourceBudget)
         /\ s \notin Lenders(s) /\ Lenders(s) \subseteq DOMAIN current_budgets
<1>1. \A o \in DOMAIN current_budgets : current_budgets[o] \in SliceResourceBudget
  BY DEF TypeOK, IsPartialFunction
<1>2. s \notin Lenders(s) /\ Lenders(s) \subseteq DOMAIN current_budgets
  BY DEF Lenders
<1>3. \A x \in Nat : x % WORD \in Words
  BY Converted
<1>4. ASSUME NEW o \in Lenders(s)
      PROVE  /\ current_budgets'[o].available_rbs = current_budgets[o].available_rbs
             /\ current_budgets'[o].used_rbs[d] = (current_budgets[o].used_rbs[d] + taken[o]) % WORD
             /\ \A e \in Directions \ {d} :
                  current_budgets'[o].used_rbs[e] = current_budgets[o].used_rbs[e]
             /\ current_budgets'[o] \in SliceResourceBudget
  <2> DEFINE v == (current_budgets[o].used_rbs[d] + taken[o]) % WORD
  <2>1. current_budgets[o] \in SliceResourceBudget
    BY <1>1, <1>2
  <2>2. v \in Words
    <3>1. current_budgets[o].used_rbs[d] \in Nat /\ taken[o] \in Nat
      <4>1. current_budgets[o].used_rbs[d] \in Nat
        BY <2>1, SliceAssumption DEF SliceResourceBudget, Words
      <4>2. taken[o] \in Nat
        BY DEF Moved
      <4> QED BY <4>1, <4>2
    <3> DEFINE x == current_budgets[o].used_rbs[d] + taken[o]
    <3>2. x \in Nat
      BY <3>1
    <3> HIDE DEF x
    <3>3. x % WORD \in Words
      BY <1>3, <3>2
    <3> QED BY <3>3 DEF x
  <2>3. current_budgets'[o] = [current_budgets[o] EXCEPT !.used_rbs[d] = v]
    BY DEF Moved
  <2> HIDE DEF v
  <2>4. /\ current_budgets'[o].available_rbs = current_budgets[o].available_rbs
        /\ current_budgets'[o].borrowed_rbs = current_budgets[o].borrowed_rbs
        /\ current_budgets'[o].used_rbs = [current_budgets[o].used_rbs EXCEPT ![d] = v]
    BY <2>1, <2>3 DEF SliceResourceBudget
  <2>5. current_budgets[o].used_rbs \in [Directions -> Words]
    BY <2>1 DEF SliceResourceBudget
  <2>6. current_budgets'[o].used_rbs \in [Directions -> Words]
    BY <2>2, <2>4, <2>5
  <2>7. current_budgets'[o] \in SliceResourceBudget
    BY <2>1, <2>3, <2>4, <2>6 DEF SliceResourceBudget
  <2> QED BY <2>4, <2>5, <2>7 DEF v
<1>5. /\ current_budgets'[s].used_rbs = current_budgets[s].used_rbs
      /\ current_budgets'[s].available_rbs[d] = (current_budgets[s].available_rbs[d] + b) % WORD
      /\ \A e \in Directions \ {d} :
           current_budgets'[s].available_rbs[e] = current_budgets[s].available_rbs[e]
      /\ current_budgets'[s] \in SliceResourceBudget
  <2> DEFINE v == (current_budgets[s].available_rbs[d] + b) % WORD
             w == AsInt16(current_budgets[s].borrowed_rbs + b)
  <2>1. current_budgets[s] \in SliceResourceBudget
    BY <1>1
  <2>2. v \in Words /\ w \in Int16
    <3>1. current_budgets[s].available_rbs[d] \in Nat /\ b \in Nat
          /\ current_budgets[s].borrowed_rbs \in Int
      BY <2>1, Converted DEF SliceResourceBudget, Moved
    <3> DEFINE x == current_budgets[s].available_rbs[d] + b
               y == current_budgets[s].borrowed_rbs + b
    <3>2. x \in Nat /\ y \in Int
      BY <3>1
    <3> HIDE DEF x, y
    <3>3. x % WORD \in Words /\ AsInt16(y) \in Int16
      BY <1>3, <3>2, Converted
    <3> QED BY <3>3 DEF x, y
  <2>3. current_budgets'[s] = [current_budgets[s] EXCEPT !.available_rbs[d] = v, !.borrowed_rbs = w]
    BY DEF Moved
  <2> HIDE DEF v, w
  <2>4. /\ current_budgets'[s].used_rbs = current_budgets[s].used_rbs
        /\ current_budgets'[s].borrowed_rbs = w
        /\ current_budgets'[s].available_rbs = [current_budgets[s].available_rbs EXCEPT ![d] = v]
    BY <2>1, <2>3 DEF SliceResourceBudget
  <2>5. current_budgets[s].available_rbs \in [Directions -> Words]
    BY <2>1 DEF SliceResourceBudget
  <2>6. current_budgets'[s].available_rbs \in [Directions -> Words]
    BY <2>2, <2>4, <2>5
  <2>7. current_budgets'[s] \in SliceResourceBudget
    BY <2>1, <2>2, <2>3, <2>4, <2>6 DEF SliceResourceBudget
  <2> QED BY <2>4, <2>5, <2>7 DEF v, w
<1>6. \A o \in DOMAIN current_budgets \ (Lenders(s) \cup {s}) :
        current_budgets'[o] = current_budgets[o]
  BY DEF Moved
<1>7. IsPartialFunction(current_budgets', SliceIds, SliceResourceBudget)
  <2>1. \A o \in DOMAIN current_budgets : current_budgets'[o] \in SliceResourceBudget
    BY <1>1, <1>4, <1>5, <1>6
  <2>2. /\ current_budgets' = [o \in DOMAIN current_budgets |-> current_budgets'[o]]
        /\ DOMAIN current_budgets' = DOMAIN current_budgets
    BY DEF Moved
  <2>3. DOMAIN current_budgets \subseteq SliceIds
    BY DEF TypeOK, IsPartialFunction
  <2> QED BY <2>1, <2>2, <2>3 DEF IsPartialFunction
<1>8. ASSUME NEW o \in DOMAIN current_budgets, NEW e \in Directions
      PROVE  /\ o \notin Lenders(s) \/ e # d =>
                  current_budgets'[o].used_rbs[e] = current_budgets[o].used_rbs[e]
             /\ o # s \/ e # d =>
                  current_budgets'[o].available_rbs[e] = current_budgets[o].available_rbs[e]
  BY <1>2, <1>4, <1>5, <1>6
<1> QED BY <1>2, <1>4, <1>5, <1>7, <1>8

-----------------------------------------------------------------------------
(* The types.                                                               *)

\* Every call keeps the types, whatever was asked and is reported.
LEMMA NextType == TypeOK /\ [Next]_vars => TypeOK'
<1> SUFFICES ASSUME TypeOK, [Next]_vars PROVE TypeOK'
  OBVIOUS
<1>1. ASSUME Administer PROVE TypeOK'
  BY <1>1, CreateType, UpdateType, DeleteType, AssociateType, DisassociateType DEF Administer
<1>2. ASSUME NEW s \in DOMAIN current_budgets, NEW d \in Directions, NEW rbs \in Amounts,
             NEW order \in Orders(Lenders(s)), request_resources(s, rbs, d, order)
      PROVE  TypeOK'
  <2>1. PICK taken, b : Moved(s, d, taken, b)
    BY <1>2, RequestMoves
  <2>2. IsPartialFunction(current_budgets', SliceIds, SliceResourceBudget)
    BY <2>1, CountsMoved
  <2>3. UNCHANGED <<slice_configs, slice_states, ue_slice_map, shared_pool, external,
                    slas_in_force, calls>>
    BY <1>2, RequestMoves
  <2> QED BY <2>2, <2>3 DEF TypeOK, external
<1>3. ASSUME Budget PROVE TypeOK'
  BY <1>2, <1>3, Calculated, Returned DEF Budget
<1>4. ASSUME NEW x \in Decisions, Ask(x) PROVE TypeOK'
  BY <1>4 DEF Ask, TypeOK
<1>5. ASSUME NEW x \in asked, Report(x) PROVE TypeOK'
  BY <1>5, Reported
<1>6. CASE UNCHANGED vars
  BY <1>6 DEF vars, TypeOK
<1> QED BY <1>1, <1>3, <1>4, <1>5, <1>6 DEF Next

\* Before the first call every map is empty and every count zero.
LEMMA InitType == Init => TypeOK
<1> SUFFICES ASSUME Init PROVE TypeOK
  OBVIOUS
<1>1. /\ slice_configs = <<>> /\ slice_states = <<>> /\ ue_slice_map = <<>> /\ current_budgets = <<>>
      /\ shared_pool = [d \in Directions |-> 0] /\ cell_rbs \in CellWidths
      /\ scheduled = Nothing /\ asked = {} /\ slas_in_force = FALSE /\ calls = 0
  BY DEF Init
<1>2. MaxCalls \in Nat /\ 0 \in Words
  BY SliceAssumption DEF Words
<1>3. \A f, S, T : f = <<>> => DOMAIN f = {} /\ IsPartialFunction(f, S, T)
  BY DEF IsPartialFunction
<1>4. /\ IsPartialFunction(slice_configs, SliceIds, SlaConfigs)
      /\ IsPartialFunction(slice_states, SliceIds, Counts)
      /\ IsPartialFunction(ue_slice_map, Rntis, SliceIds)
      /\ IsPartialFunction(current_budgets, SliceIds, SliceResourceBudget)
  BY <1>1, <1>3
<1>5. shared_pool \in [Directions -> Words] /\ scheduled \in [SliceIds -> [Directions -> Nat]]
  BY <1>1, <1>2 DEF Nothing
<1>6. calls \in 0..MaxCalls /\ slas_in_force \in BOOLEAN /\ asked \subseteq Decisions
  <2>1. calls = 0 /\ 0 \in 0..MaxCalls
    BY <1>1, <1>2
  <2>2. slas_in_force \in BOOLEAN /\ asked \subseteq Decisions
    BY <1>1
  <2> QED BY <2>1, <2>2
<1> QED BY <1>1, <1>4, <1>5, <1>6 DEF TypeOK

\* The variables keep their types through every call, whatever the caller asked and
\* reports (class SliceOrchestrator).
THEOREM TypeCorrect == Spec => []TypeOK
<1> QED BY InitType, NextType, PTL DEF Spec

-----------------------------------------------------------------------------
(* The blocks a slice holds.                                                *)

\* What a slice has left, nothing without a budget.
Rem(s, d) == IF s \in DOMAIN current_budgets THEN Remaining(s, d) ELSE 0

\* What a slice has scheduled or has left.
Held(d) == [s \in SliceIds |-> scheduled[s][d] + Rem(s, d)]

HeldBy(A, d) == SumFunctionOnSet(Held(d), A)

WithinCell == \A d \in Directions : HeldBy(SliceIds, d) <= cell_rbs

BudgetInv == TypeOK /\ AssociationsValid /\ WithinCell /\ GuaranteeKept

\* What slices hold is a number of blocks, one by one and together.
LEMMA HeldType ==
  ASSUME TypeOK, NEW d \in Directions
  PROVE  /\ \A s \in SliceIds : /\ Held(d)[s] = scheduled[s][d] + Rem(s, d)
                                /\ Held(d)[s] \in Nat /\ Held(d)[s] \in Int
                                /\ scheduled[s][d] \in Nat /\ Rem(s, d) \in Nat
         /\ \A A \in SUBSET SliceIds : IsFiniteSet(A) /\ HeldBy(A, d) \in Nat
<1>1. ASSUME NEW s \in SliceIds
      PROVE  scheduled[s][d] \in Nat /\ Rem(s, d) \in Nat
  <2>1. scheduled[s][d] \in Nat
    BY DEF TypeOK
  <2>2. CASE s \in DOMAIN current_budgets
    BY <2>1, <2>2, BudgetType DEF Rem
  <2>3. CASE s \notin DOMAIN current_budgets
    BY <2>1, <2>3 DEF Rem
  <2> QED BY <2>2, <2>3, <2>1
<1>2. \A s \in SliceIds : Held(d)[s] = scheduled[s][d] + Rem(s, d)
  BY DEF Held
<1>3. \A s \in SliceIds : Held(d)[s] \in Nat /\ Held(d)[s] \in Int
  BY <1>1, <1>2
<1>4. ASSUME NEW A \in SUBSET SliceIds PROVE IsFiniteSet(A) /\ HeldBy(A, d) \in Nat
  <2>1. IsFiniteSet(A)
    BY FS_Subset, SliceAssumption
  <2>2. \A s \in A : Held(d)[s] \in Nat
    BY <1>3
  <2> QED BY <2>1, <2>2, SumNat DEF HeldBy
<1> QED BY <1>1, <1>2, <1>3, <1>4

\* What a slice holds and what those it may borrow from hold is no more than the cell.
LEMMA PartsOfCell ==
  ASSUME TypeOK, WithinCell, NEW s \in DOMAIN current_budgets, NEW d \in Directions
  PROVE  /\ Lenders(s) \in SUBSET DOMAIN current_budgets
         /\ Lenders(s) \in SUBSET SliceIds /\ s \notin Lenders(s)
         /\ Held(d)[s] + HeldBy(Lenders(s), d) <= cell_rbs
<1> DEFINE L == Lenders(s)
<1>1. s \in SliceIds /\ L \in SUBSET DOMAIN current_budgets /\ L \in SUBSET SliceIds /\ s \notin L
  BY BudgetsType DEF Lenders
<1> HIDE DEF L
<1>2. \A o \in SliceIds : Held(d)[o] \in Int /\ Held(d)[o] \in Nat
  BY HeldType
<1>3. L \cup {s} \in SUBSET SliceIds
  BY <1>1
<1>4. HeldBy(L \cup {s}, d) = HeldBy(L, d) + Held(d)[s]
  <2>1. IsFiniteSet(L) /\ \A y \in L : Held(d)[y] \in Int
    BY <1>1, <1>2, HeldType
  <2>2. Held(d)[s] \in Int
    BY <1>1, <1>2
  <2> QED BY <1>1, <2>1, <2>2, SumAdd DEF HeldBy
<1>5. HeldBy(L \cup {s}, d) <= HeldBy(SliceIds, d)
  BY <1>2, <1>3, SumOfPart, SliceAssumption DEF HeldBy
<1>6. /\ HeldBy(L, d) \in Nat /\ Held(d)[s] \in Nat
      /\ HeldBy(L \cup {s}, d) \in Nat /\ HeldBy(SliceIds, d) \in Nat
      /\ HeldBy(SliceIds, d) <= cell_rbs /\ cell_rbs \in Nat
  <2>1. cell_rbs \in Nat
    BY SliceAssumption DEF TypeOK
  <2>2. SliceIds \in SUBSET SliceIds
    OBVIOUS
  <2> QED BY <1>1, <1>2, <1>3, <2>1, <2>2, HeldType DEF WithinCell
<1>7. Held(d)[s] + HeldBy(L, d) <= cell_rbs
  <2> DEFINE whole == HeldBy(L \cup {s}, d)
  <2>1. whole = HeldBy(L, d) + Held(d)[s] /\ whole <= HeldBy(SliceIds, d) /\ whole \in Nat
    BY <1>4, <1>5, <1>6
  <2> HIDE DEF whole
  <2> QED BY <1>6, <2>1
<1> QED BY <1>1, <1>7 DEF L

\* What HeldType says, to be had of the next state too.
HeldNumbers ==
  \A d \in Directions :
    /\ \A s \in SliceIds : /\ Held(d)[s] = scheduled[s][d] + Rem(s, d)
                          /\ Held(d)[s] \in Nat /\ Held(d)[s] \in Int
                          /\ scheduled[s][d] \in Nat /\ Rem(s, d) \in Nat
    /\ \A A \in SUBSET SliceIds : IsFiniteSet(A) /\ SumFunctionOnSet(Held(d), A) \in Nat

\* The numbers are numbers in the next state.
LEMMA HeldNumbersNext == TypeOK' => HeldNumbers'
<1>1. TypeOK => HeldNumbers
  BY HeldType DEF HeldNumbers, HeldBy
<1> QED BY <1>1, PTL

\* Slices hold what they held when neither the budgets' counts nor what is scheduled
\* changes.
LEMMA HeldKept ==
  ASSUME scheduled' = scheduled, DOMAIN current_budgets' = DOMAIN current_budgets,
         \A s \in DOMAIN current_budgets :
           /\ current_budgets'[s].available_rbs = current_budgets[s].available_rbs
           /\ current_budgets'[s].used_rbs = current_budgets[s].used_rbs
  PROVE  \A d \in Directions : Held(d)' = Held(d) /\ \A A : HeldBy(A, d)' = HeldBy(A, d)
<1> SUFFICES ASSUME NEW d \in Directions
             PROVE  Held(d)' = Held(d) /\ \A A : HeldBy(A, d)' = HeldBy(A, d)
  OBVIOUS
<1>1. \A s \in DOMAIN current_budgets : Remaining(s, d)' = Remaining(s, d)
  BY DEF Remaining
<1>2. \A s : Rem(s, d)' = Rem(s, d)
  BY <1>1 DEF Rem
<1>3. Held(d)' = Held(d)
  BY <1>2 DEF Held
<1> QED BY <1>3 DEF HeldBy

\* The guarantee in terms of what a slice holds.
GuaranteeHeld ==
  \A s \in DOMAIN current_budgets, d \in Directions :
    /\ slas_in_force
    /\ ~slice_configs[s].preemptible
    /\ SumFunction([o \in DOMAIN current_budgets |-> slice_configs[o].guaranteed_rbs])
         <= cell_rbs
    => Held(d)[s] >= slice_configs[s].guaranteed_rbs

\* The two say the same.
LEMMA GuaranteeForm == TypeOK => (GuaranteeKept <=> GuaranteeHeld)
<1> SUFFICES ASSUME TypeOK PROVE GuaranteeKept <=> GuaranteeHeld
  OBVIOUS
<1>1. ASSUME NEW s \in DOMAIN current_budgets, NEW d \in Directions
      PROVE  Held(d)[s] = scheduled[s][d] + Remaining(s, d)
  BY BudgetType DEF Held, Rem
<1> QED BY <1>1 DEF GuaranteeKept, GuaranteeHeld

-----------------------------------------------------------------------------
(* The budgets through the calls.                                           *)

\* A call that leaves what each slice holds and the agreements of the slices that
\* have a budget.
LEMMA QuietStep ==
  ASSUME BudgetInv, TypeOK', AssociationsValid', UNCHANGED <<cell_rbs, slas_in_force>>,
         DOMAIN current_budgets' = DOMAIN current_budgets,
         \A d \in Directions : Held(d)' = Held(d),
         \A s \in DOMAIN current_budgets : slice_configs'[s] = slice_configs[s]
  PROVE  BudgetInv'
<1>1. TypeOK
  BY DEF BudgetInv
<1>2. WithinCell'
  BY DEF BudgetInv, WithinCell, HeldBy
<1>3. GuaranteeKept'
  <2>1. [o \in DOMAIN current_budgets |-> slice_configs'[o].guaranteed_rbs]
          = [o \in DOMAIN current_budgets |-> slice_configs[o].guaranteed_rbs]
    OBVIOUS
  <2>2. GuaranteeHeld
    BY <1>1, GuaranteeForm DEF BudgetInv
  <2>3. GuaranteeHeld'
    BY <2>1, <2>2 DEF GuaranteeHeld
  <2>4. TypeOK' => (GuaranteeKept' <=> GuaranteeHeld')
    BY GuaranteeForm, PTL
  <2> QED BY <2>3, <2>4
<1> QED BY <1>2, <1>3 DEF BudgetInv

\* A call after which the agreements are no longer those of the budgets.
LEMMA EndOfForce ==
  ASSUME BudgetInv, TypeOK', AssociationsValid', ~slas_in_force', cell_rbs' = cell_rbs,
         \A d \in Directions : \A s \in SliceIds : Held(d)'[s] <= Held(d)[s]
  PROVE  BudgetInv'
<1>1. TypeOK /\ cell_rbs \in Nat
  BY SliceAssumption DEF BudgetInv, TypeOK
<1>2. ASSUME NEW d \in Directions PROVE HeldBy(SliceIds, d)' <= cell_rbs
  <2>1. /\ \A s \in SliceIds : Held(d)[s] \in Int
        /\ HeldBy(SliceIds, d) \in Nat
    BY <1>1, HeldType
  <2>2. /\ \A s \in SliceIds : Held(d)'[s] \in Int
        /\ SumFunctionOnSet(Held(d)', SliceIds) \in Nat
    BY HeldNumbersNext DEF HeldNumbers
  <2>3. SumFunctionOnSet(Held(d)', SliceIds) <= SumFunctionOnSet(Held(d), SliceIds)
    BY <2>1, <2>2, SumLeq, SliceAssumption
  <2>4. HeldBy(SliceIds, d) <= cell_rbs
    BY DEF BudgetInv, WithinCell
  <2> DEFINE x == SumFunctionOnSet(Held(d)', SliceIds)
             y == SumFunctionOnSet(Held(d), SliceIds)
  <2>5. x <= y /\ y <= cell_rbs /\ x \in Nat /\ y \in Nat
    BY <2>1, <2>2, <2>3, <2>4 DEF HeldBy
  <2> HIDE DEF x, y
  <2>6. x <= cell_rbs
    BY <1>1, <2>5
  <2> QED BY <2>6 DEF x, HeldBy
<1>3. WithinCell'
  BY <1>2 DEF WithinCell
<1>4. GuaranteeKept'
  BY DEF GuaranteeKept
<1> QED BY <1>3, <1>4 DEF BudgetInv

\* A slice that is created is not among those with a budget, and associating UEs leaves
\* the budgets alone; an updated agreement and a deleted slice end what was in force.
LEMMA AdministerStep ==
  ASSUME BudgetInv, TypeOK', AssociationsValid', Administer
  PROVE  BudgetInv'
<1>1. TypeOK /\ DOMAIN current_budgets \subseteq DOMAIN slice_configs
  BY DEF BudgetInv, AssociationsValid
<1>2. ASSUME UNCHANGED <<current_budgets, cell_rbs, scheduled, slas_in_force>>,
             \A o \in DOMAIN slice_configs : slice_configs'[o] = slice_configs[o]
      PROVE  BudgetInv'
  BY <1>1, <1>2, HeldKept, QuietStep
<1>3. ASSUME NEW s \in SliceIds, NEW sla, NEW connected, create_slice(s, sla, connected)
      PROVE  BudgetInv'
  <2>1. UNCHANGED <<current_budgets, cell_rbs, scheduled, slas_in_force>>
    BY <1>3 DEF create_slice, external
  <2>2. \A o \in DOMAIN slice_configs : slice_configs'[o] = slice_configs[o]
    BY <1>3 DEF create_slice, With
  <2> QED BY <1>2, <2>1, <2>2
<1>4. ASSUME NEW s \in SliceIds, NEW r, associate_ue(r, s) PROVE BudgetInv'
  BY <1>2, <1>4 DEF associate_ue, external
<1>5. ASSUME NEW r, disassociate_ue(r) PROVE BudgetInv'
  BY <1>2, <1>5 DEF disassociate_ue, external
<1>6. ASSUME NEW s \in SliceIds, NEW sla, update_slice(s, sla) PROVE BudgetInv'
  <2>1. /\ UNCHANGED <<current_budgets, cell_rbs, scheduled>> /\ slas_in_force' = FALSE
    BY <1>6 DEF update_slice, external
  <2>2. \A d \in Directions : Held(d)' = Held(d)
    BY <2>1, HeldKept
  <2>3. \A d \in Directions : \A o \in SliceIds : Held(d)'[o] <= Held(d)[o]
    BY <1>1, <2>2, HeldType
  <2> QED BY <2>1, <2>3, EndOfForce
<1>7. ASSUME NEW s \in SliceIds, delete_slice(s) PROVE BudgetInv'
  <2>1. /\ DOMAIN current_budgets' = DOMAIN current_budgets \ {s}
        /\ \A o \in DOMAIN current_budgets' : current_budgets'[o] = current_budgets[o]
        /\ scheduled' = [scheduled EXCEPT ![s] = Nothing[s]]
        /\ cell_rbs' = cell_rbs /\ slas_in_force' = FALSE
    BY <1>7 DEF delete_slice, Erase, Restrict
  <2>2. ASSUME NEW d \in Directions, NEW o \in SliceIds PROVE Held(d)'[o] <= Held(d)[o]
    <3>1. Held(d)'[o] = scheduled'[o][d] + Rem(o, d)' /\ Held(d)[o] \in Nat
          /\ Held(d)[o] = scheduled[o][d] + Rem(o, d)
      BY <1>1, HeldType, HeldNumbersNext DEF HeldNumbers
    <3>2. CASE o = s
      <4>1. scheduled'[o][d] = 0
        BY <1>1, <2>1, <3>2 DEF TypeOK, Nothing
      <4>2. Rem(o, d)' = 0
        BY <2>1, <3>2 DEF Rem
      <4> QED BY <3>1, <4>1, <4>2
    <3>3. CASE o # s
      <4>1. scheduled'[o][d] = scheduled[o][d]
        BY <1>1, <2>1, <3>3 DEF TypeOK
      <4>2. Rem(o, d)' = Rem(o, d)
        BY <2>1, <3>3 DEF Rem, Remaining
      <4> QED BY <3>1, <4>1, <4>2
    <3> QED BY <3>2, <3>3
  <2> QED BY <2>1, <2>2, EndOfForce
<1> QED BY <1>3, <1>4, <1>5, <1>6, <1>7 DEF Administer

\* Returning blocks changes what counts as borrowed only (return_resources).
LEMMA ReturnStep ==
  ASSUME BudgetInv, TypeOK', AssociationsValid', NEW s \in DOMAIN current_budgets,
         NEW d \in Directions, NEW rbs \in Amounts, return_resources(s, rbs, d)
  PROVE  BudgetInv'
<1>1. TypeOK
  BY DEF BudgetInv
<1>2. /\ DOMAIN current_budgets' = DOMAIN current_budgets
      /\ \A o \in DOMAIN current_budgets :
           /\ current_budgets'[o].available_rbs = current_budgets[o].available_rbs
           /\ current_budgets'[o].used_rbs = current_budgets[o].used_rbs
      /\ UNCHANGED <<slice_configs, cell_rbs, scheduled, slas_in_force>>
  BY <1>1, Returned
<1>3. \A e \in Directions : Held(e)' = Held(e)
  BY <1>2, HeldKept
<1> QED BY <1>2, <1>3, QuietStep

\* What is left when blocks that are left are used.
LEMMA UsedLess ==
  ASSUME NEW a \in 0..(WORD - 1), NEW u \in 0..(WORD - 1), NEW n \in Nat, n <= (a - u) % WORD
  PROVE  (a - ((u + n) % WORD)) % WORD = ((a - u) % WORD) - n
<1>1. WORD \in Nat \ {0}
  BY SliceAssumption
<1> QED BY <1>1, WordDifference, SMTT(30)

\* Reporting a decision that is still allowed: what is scheduled grows by what is no
\* longer left (report_scheduling).
LEMMA ReportStep ==
  ASSUME BudgetInv, TypeOK', AssociationsValid', NEW x \in asked, Report(x),
         is_scheduling_allowed(x.rnti, x.rbs, x.direction)
  PROVE  BudgetInv'
<1> DEFINE s == ue_slice_map[x.rnti]
           d == x.direction
           rbs == x.rbs
           a == current_budgets[s].available_rbs[d]
           u == current_budgets[s].used_rbs[d]
           v == (u + rbs) % WORD
<1>1. TypeOK /\ WORD \in Nat \ {0}
  BY SliceAssumption DEF BudgetInv
<1>2. x \in Decisions /\ d \in Directions /\ rbs \in Nat
  <2>1. x \in Decisions
    BY <1>1 DEF TypeOK
  <2>2. d \in Directions /\ rbs \in Amounts
    BY <2>1 DEF Decisions
  <2> QED BY <2>1, <2>2, AmountType
<1>3. /\ DOMAIN current_budgets' = DOMAIN current_budgets
      /\ UNCHANGED <<slice_configs, cell_rbs, slas_in_force>>
  BY <1>1, Reported
<1>4. CASE ~Budgeted(x.rnti)
  <2>1. UNCHANGED <<current_budgets, scheduled>>
    BY <1>1, <1>4, Reported
  <2>2. \A e \in Directions : Held(e)' = Held(e)
    BY <2>1, HeldKept
  <2> QED BY <1>3, <2>2, QuietStep
<1>5. CASE Budgeted(x.rnti)
  <2>1. /\ s \in DOMAIN current_budgets /\ s \in SliceIds
        /\ current_budgets'[s].available_rbs = current_budgets[s].available_rbs
        /\ current_budgets'[s].used_rbs[d] = v
        /\ \A e \in Directions \ {d} :
             current_budgets'[s].used_rbs[e] = current_budgets[s].used_rbs[e]
        /\ \A o \in DOMAIN current_budgets \ {s} : current_budgets'[o] = current_budgets[o]
        /\ scheduled'[s][d] = scheduled[s][d] + rbs
        /\ \A o \in SliceIds, e \in Directions :
             o # s \/ e # d => scheduled'[o][e] = scheduled[o][e]
    BY <1>1, <1>5, Reported
  <2>2. Remaining(s, d) >= rbs
    BY <1>5 DEF is_scheduling_allowed
  <2> HIDE DEF s, d, rbs
  <2>3. a \in 0..(WORD - 1) /\ u \in 0..(WORD - 1) /\ Remaining(s, d) = (a - u) % WORD
        /\ Remaining(s, d) \in Nat
    BY <1>1, <1>2, <2>1, BudgetType DEF Words, Remaining
  <2>4. (a - v) % WORD = Remaining(s, d) - rbs
    <3> HIDE DEF a, u
    <3>1. rbs <= (a - u) % WORD
      BY <1>2, <2>2, <2>3
    <3>2. a \in 0..(WORD - 1) /\ u \in 0..(WORD - 1) /\ rbs \in Nat
      BY <1>2, <2>3
    <3>3. (a - v) % WORD = ((a - u) % WORD) - rbs
      BY <3>1, <3>2, UsedLess
    <3> QED BY <2>3, <3>3
  <2> HIDE DEF v
  <2>5. ASSUME NEW e \in Directions, NEW o \in SliceIds
        PROVE  scheduled'[o][e] + Rem(o, e)' = scheduled[o][e] + Rem(o, e)
    <3>1. CASE o = s /\ e = d
      <4>1. Rem(o, e) = Remaining(s, d) /\ Rem(o, e)' = (a - v) % WORD
        BY <1>3, <2>1, <3>1 DEF Rem, Remaining
      <4>2. Remaining(s, d) \in Nat /\ scheduled[s][d] \in Nat
        BY <1>1, <1>2, <2>1, HeldType, BudgetType
      <4>3. scheduled'[o][e] = scheduled[s][d] + rbs /\ Rem(o, e)' = Remaining(s, d) - rbs
            /\ scheduled[o][e] = scheduled[s][d]
        BY <2>1, <2>4, <3>1, <4>1
      <4> QED BY <1>2, <4>1, <4>2, <4>3
    <3>2. CASE o # s \/ e # d
      <4>1. scheduled'[o][e] = scheduled[o][e]
        BY <2>1, <3>2
      <4>2. Rem(o, e)' = Rem(o, e)
        BY <1>3, <2>1, <3>2 DEF Rem, Remaining
      <4> QED BY <4>1, <4>2
    <3> QED BY <3>1, <3>2
  <2>6. \A e \in Directions : Held(e)' = Held(e)
    BY <2>5 DEF Held
  <2> QED BY <1>3, <2>6, QuietStep
<1> QED BY <1>4, <1>5

\* The budgets of a slot fit in the cell, and hold what is guaranteed when the cell has
\* it (calculate_budgets).
LEMMA CalculateStep ==
  ASSUME BudgetInv, TypeOK', AssociationsValid', NEW num_rbs \in CellWidths,
         NEW order \in Orders(DOMAIN slice_configs), calculate_budgets(num_rbs, order)
  PROVE  BudgetInv'
<1> DEFINE D == DOMAIN slice_configs
<1>1. TypeOK /\ WORD \in Nat \ {0} /\ D \subseteq SliceIds /\ IsFiniteSet(D)
  BY FS_Subset, SliceAssumption DEF BudgetInv, TypeOK, IsPartialFunction
<1>2. /\ DOMAIN current_budgets' = D /\ slice_configs' = slice_configs
      /\ cell_rbs' = num_rbs /\ scheduled' = Nothing
  BY <1>1, Calculated
<1>3. PICK avail :
        /\ \A s \in D :
             /\ avail[s] \in Words
             /\ \A d \in Directions : /\ current_budgets'[s].available_rbs[d] = avail[s]
                                      /\ current_budgets'[s].used_rbs[d] = 0
        /\ SumFunctionOnSet(avail, D) <= num_rbs
        /\ SumFunction([s \in D |-> slice_configs[s].guaranteed_rbs]) <= num_rbs
             => \A s \in D : avail[s] >= slice_configs[s].guaranteed_rbs
  BY <1>1, Calculated
<1> HIDE DEF D
<1>4. \A s \in D : avail[s] \in Nat /\ (avail[s] - 0) % WORD = avail[s]
  <2> SUFFICES ASSUME NEW s \in D PROVE avail[s] \in Nat /\ (avail[s] - 0) % WORD = avail[s]
    OBVIOUS
  <2> DEFINE x == avail[s]
  <2>1. x \in 0..(WORD - 1)
    BY <1>3 DEF Words
  <2> HIDE DEF x
  <2>2. x \in Nat /\ (x - 0) % WORD = x
    BY <1>1, <2>1
  <2> QED BY <2>2 DEF x
<1>5. ASSUME NEW d \in Directions
      PROVE  /\ \A s \in D : Held(d)'[s] = avail[s]
             /\ SumFunctionOnSet(Held(d)', SliceIds) <= num_rbs
  <2>1. \A s \in SliceIds : Held(d)'[s] = scheduled'[s][d] + Rem(s, d)' /\ Held(d)'[s] \in Int
                            /\ Rem(s, d)' \in Nat
    BY HeldNumbersNext DEF HeldNumbers
  <2>2. \A s \in SliceIds : scheduled'[s][d] = 0
    BY <1>2 DEF Nothing
  <2>3. \A s \in SliceIds \ D : Rem(s, d)' = 0
    BY <1>2 DEF Rem
  <2>4. ASSUME NEW s \in D PROVE Rem(s, d)' = avail[s]
    <3>1. Rem(s, d)' = (avail[s] - 0) % WORD
      BY <1>2, <1>3 DEF Rem, Remaining
    <3> QED BY <1>4, <3>1
  <2>5. \A s \in SliceIds \ D : Held(d)'[s] = 0
    BY <2>1, <2>2, <2>3
  <2>6. \A s \in D : Held(d)'[s] = avail[s]
    BY <1>1, <2>1, <2>2, <2>4
  <2>7. SumFunctionOnSet(Held(d)', SliceIds) = SumFunctionOnSet(Held(d)', D)
    BY <1>1, <2>1, <2>5, SumOnSupport, SliceAssumption
  <2>8. SumFunctionOnSet(Held(d)', D) = SumFunctionOnSet(avail, D)
    <3>1. \A s \in D : Held(d)'[s] \in Int /\ Held(d)'[s] = avail[s]
      BY <1>1, <2>1, <2>6
    <3> QED BY <1>1, <3>1, SumSame
  <2> QED BY <1>3, <2>6, <2>7, <2>8
<1>6. WithinCell'
  BY <1>2, <1>5 DEF WithinCell, HeldBy
<1>7. GuaranteeKept'
  <2>1. GuaranteeHeld'
    BY <1>2, <1>3, <1>5 DEF GuaranteeHeld
  <2>2. TypeOK' => (GuaranteeKept' <=> GuaranteeHeld')
    BY GuaranteeForm, PTL
  <2> QED BY <2>1, <2>2
<1> QED BY <1>6, <1>7 DEF BudgetInv

-----------------------------------------------------------------------------
(* Borrowing and the blocks that slices hold.                               *)

\* By how much what each slice holds changes when s borrows.
Change(s, taken, b) ==
  [o \in SliceIds |-> IF o = s THEN b ELSE IF o \in Lenders(s) THEN 0 - taken[o] ELSE 0]

\* What a slice borrows and what it has left fit in the cell, and in a word.
LEMMA MovedFits ==
  ASSUME TypeOK, WithinCell, NEW s \in DOMAIN current_budgets, NEW d \in Directions, NEW taken, NEW b,
         Moved(s, d, taken, b)
  PROVE  Remaining(s, d) + b < WORD
<1> DEFINE L == Lenders(s)
<1>1. /\ L \in SUBSET DOMAIN current_budgets /\ L \in SUBSET SliceIds
      /\ Held(d)[s] + HeldBy(L, d) <= cell_rbs
  BY PartsOfCell
<1>2. b \in Nat /\ b = SumFunctionOnSet(taken, L)
      /\ \A o \in L : taken[o] \in Nat /\ taken[o] <= Remaining(o, d)
  BY DEF Moved
<1> HIDE DEF L
<1>3. b <= HeldBy(L, d)
  <2>1. ASSUME NEW o \in L PROVE taken[o] \in Int /\ Held(d)[o] \in Int /\ taken[o] <= Held(d)[o]
    <3>1. /\ Held(d)[o] = scheduled[o][d] + Rem(o, d) /\ Rem(o, d) = Remaining(o, d)
          /\ scheduled[o][d] \in Nat /\ Rem(o, d) \in Nat
      BY <1>1, HeldType DEF Rem
    <3>2. taken[o] \in Nat /\ taken[o] <= Remaining(o, d)
      BY <1>2
    <3> QED BY <3>1, <3>2
  <2>2. IsFiniteSet(L)
    BY <1>1, HeldType
  <2>3. SumFunctionOnSet(taken, L) <= SumFunctionOnSet(Held(d), L)
    BY <2>1, <2>2, SumLeq
  <2> QED BY <1>2, <2>3 DEF HeldBy
<1>4. HeldBy(L, d) \in Nat /\ s \in SliceIds
  BY <1>1, HeldType, BudgetsType
<1>5. Held(d)[s] = scheduled[s][d] + Remaining(s, d) /\ scheduled[s][d] \in Nat
      /\ Remaining(s, d) \in Nat /\ Held(d)[s] \in Nat
  BY <1>4, HeldType, BudgetType DEF Rem
<1>6. cell_rbs \in Nat /\ cell_rbs < WORD /\ WORD \in Nat
  BY SliceAssumption DEF TypeOK
<1> DEFINE y == HeldBy(L, d)
           h == Held(d)[s]
<1>7. y \in Nat /\ h \in Nat /\ b <= y /\ h + y <= cell_rbs
      /\ h = scheduled[s][d] + Remaining(s, d)
  BY <1>1, <1>3, <1>4, <1>5
<1> HIDE DEF y, h
<1> QED BY <1>2, <1>5, <1>6, <1>7

\* What the slices hold before and after.
LEMMA HeldMoved ==
  ASSUME TypeOK, TypeOK', WithinCell, NEW s \in DOMAIN current_budgets, NEW d \in Directions, NEW taken, NEW b,
         Moved(s, d, taken, b), scheduled' = scheduled
  PROVE  /\ \A o \in SliceIds : /\ Change(s, taken, b)[o] \in Int
                                /\ Held(d)'[o] = Held(d)[o] + Change(s, taken, b)[o]
         /\ \A e \in Directions \ {d} : \A o \in SliceIds : Held(e)'[o] = Held(e)[o]
<1>1. TypeOK /\ s \in SliceIds /\ WORD \in Nat \ {0}
  BY BudgetsType, SliceAssumption
<1>2. b \in Nat /\ \A o \in Lenders(s) : taken[o] \in Nat /\ taken[o] <= Remaining(o, d)
  BY DEF Moved
<1>3. s \notin Lenders(s) /\ Lenders(s) \subseteq DOMAIN current_budgets
      /\ DOMAIN current_budgets' = DOMAIN current_budgets
  BY DEF Lenders, Moved
<1>4. ASSUME NEW e \in Directions, NEW o \in SliceIds
      PROVE  /\ Held(e)'[o] = scheduled[o][e] + Rem(o, e)' /\ Rem(o, e)' \in Nat
             /\ Held(e)[o] = scheduled[o][e] + Rem(o, e) /\ Rem(o, e) \in Nat
             /\ scheduled[o][e] \in Nat
  BY <1>1, HeldType, HeldNumbersNext DEF HeldNumbers
<1>5. Rem(s, d)' = Rem(s, d) + b
  <2> DEFINE a == current_budgets[s].available_rbs[d]
             u == current_budgets[s].used_rbs[d]
  <2>1. a \in 0..(WORD - 1) /\ u \in 0..(WORD - 1)
    BY <1>1, BudgetType DEF Words
  <2>2. Rem(s, d) = (a - u) % WORD
    BY DEF Rem, Remaining
  <2>3. Rem(s, d)' = (((a + b) % WORD) - u) % WORD
    <3>1. current_budgets'[s].available_rbs[d] = (a + b) % WORD /\ current_budgets'[s].used_rbs[d] = u
      BY <1>1, <1>3, CountsMoved
    <3> QED BY <1>3, <3>1 DEF Rem, Remaining
  <2>4. ((a - u) % WORD) + b < WORD
    BY MovedFits DEF Remaining
  <2> HIDE DEF a, u
  <2>5. (((a + b) % WORD) - u) % WORD = ((a - u) % WORD) + b
    BY <1>1, <1>2, <2>1, <2>4, WordDifference
  <2> QED BY <2>2, <2>3, <2>5
<1>6. ASSUME NEW o \in Lenders(s) PROVE Rem(o, d)' = Rem(o, d) - taken[o]
  <2> DEFINE a == current_budgets[o].available_rbs[d]
             u == current_budgets[o].used_rbs[d]
             t == taken[o]
  <2>1. a \in 0..(WORD - 1) /\ u \in 0..(WORD - 1) /\ t \in Nat
    BY <1>1, <1>2, <1>3, BudgetType DEF Words
  <2>2. Rem(o, d) = (a - u) % WORD
    BY <1>3 DEF Rem, Remaining
  <2>3. Rem(o, d)' = (a - ((u + t) % WORD)) % WORD
    <3>1. current_budgets'[o].available_rbs[d] = a /\ current_budgets'[o].used_rbs[d] = (u + t) % WORD
      BY <1>1, <1>3, CountsMoved
    <3> QED BY <1>3, <3>1 DEF Rem, Remaining
  <2>4. t <= (a - u) % WORD
    BY <1>2 DEF Remaining
  <2> HIDE DEF a, u, t
  <2>5. (a - ((u + t) % WORD)) % WORD = ((a - u) % WORD) - t
    BY <1>1, <2>1, <2>4, WordDifference
  <2> QED BY <2>2, <2>3, <2>5 DEF t
<1>7. ASSUME NEW o \in SliceIds, NEW e \in Directions, (o # s /\ o \notin Lenders(s)) \/ e # d
      PROVE  Rem(o, e)' = Rem(o, e)
  <2>1. CASE o \in DOMAIN current_budgets
    <3>1. /\ current_budgets'[o].available_rbs[e] = current_budgets[o].available_rbs[e]
          /\ current_budgets'[o].used_rbs[e] = current_budgets[o].used_rbs[e]
      BY <1>1, <1>7, <2>1, CountsMoved
    <3> QED BY <1>3, <2>1, <3>1 DEF Rem, Remaining
  <2>2. CASE o \notin DOMAIN current_budgets
    BY <1>3, <2>2 DEF Rem
  <2> QED BY <2>1, <2>2
<1> DEFINE c == Change(s, taken, b)
<1>8. ASSUME NEW o \in SliceIds
      PROVE  c[o] \in Int /\ Held(d)'[o] = Held(d)[o] + c[o]
  <2>1. CASE o = s
    <3>1. c[o] = b
      BY <2>1 DEF Change
    <3> HIDE DEF c
    <3> QED BY <1>2, <1>4, <1>5, <2>1, <3>1
  <2>2. CASE o \in Lenders(s)
    <3>1. c[o] = 0 - taken[o]
      BY <1>3, <2>2 DEF Change
    <3>2. taken[o] \in Nat /\ Rem(o, d)' = Rem(o, d) - taken[o]
      BY <1>2, <1>6, <2>2
    <3> HIDE DEF c
    <3> QED BY <1>4, <3>1, <3>2
  <2>3. CASE o # s /\ o \notin Lenders(s)
    <3>1. c[o] = 0
      BY <2>3 DEF Change
    <3>2. Rem(o, d)' = Rem(o, d)
      BY <1>7, <2>3
    <3> HIDE DEF c
    <3> QED BY <1>4, <3>1, <3>2
  <2> QED BY <2>1, <2>2, <2>3
<1>9. \A e \in Directions \ {d} : \A o \in SliceIds : Held(e)'[o] = Held(e)[o]
  BY <1>4, <1>7
<1> QED BY <1>8, <1>9

\* The changes come to nothing together.
LEMMA ChangeSums ==
  ASSUME TypeOK, NEW s \in DOMAIN current_budgets, NEW d \in Directions, NEW taken, NEW b,
         Moved(s, d, taken, b)
  PROVE  SumFunctionOnSet(Change(s, taken, b), SliceIds) = 0
<1> DEFINE c == Change(s, taken, b)
           M == Lenders(s)
<1>1. s \in SliceIds /\ s \notin M /\ M \in SUBSET SliceIds /\ b \in Nat
      /\ b = SumFunctionOnSet(taken, M)
      /\ \A o \in M : taken[o] \in Nat
  BY BudgetsType DEF Lenders, Moved
<1>2. IsFiniteSet(SliceIds) /\ IsFiniteSet(M)
  <2> HIDE DEF M
  <2> QED BY <1>1, FS_Subset, SliceAssumption
<1>3. /\ c[s] = b /\ \A o \in M : c[o] = 0 - taken[o] /\ taken[o] \in Nat /\ taken[o] \in Int
      /\ \A o \in SliceIds \ (M \cup {s}) : c[o] = 0
  BY <1>1 DEF Change
<1> HIDE DEF c, M
<1>4. \A o \in M : c[o] \in Int
  BY <1>3
<1>5. SumFunctionOnSet(c, M) = 0 - b
  <2> DEFINE z == [o \in M |-> 0]
  <2>1. \A o \in M : c[o] \in Int /\ taken[o] \in Int /\ z[o] = c[o] + taken[o]
    BY <1>3, <1>4
  <2>2. \A o \in M : z[o] = 0
    OBVIOUS
  <2> HIDE DEF z
  <2>3. SumFunctionOnSet(z, M) = SumFunctionOnSet(c, M) + SumFunctionOnSet(taken, M)
    BY <1>2, <2>1, SumPlus
  <2>4. SumFunctionOnSet(z, M) = 0
    BY <1>2, <2>2, SumZero
  <2>5. SumFunctionOnSet(c, M) \in Int
    BY <1>2, <1>4, SumType
  <2> QED BY <1>1, <2>3, <2>4, <2>5
<1>6. SumFunctionOnSet(c, SliceIds) = SumFunctionOnSet(c, M \cup {s})
  <2>1. M \cup {s} \in SUBSET SliceIds
    BY <1>1
  <2>2. \A o \in SliceIds : c[o] \in Int
    BY <1>1, <1>3, <1>4
  <2> QED BY <1>2, <1>3, <2>1, <2>2, SumOnSupport
<1>7. SumFunctionOnSet(c, M \cup {s}) = SumFunctionOnSet(c, M) + c[s]
  <2>1. c[s] \in Int
    BY <1>1, <1>3
  <2> QED BY <1>1, <1>2, <1>4, <2>1, SumAdd
<1>8. SumFunctionOnSet(c, SliceIds) = 0
  BY <1>1, <1>3, <1>5, <1>6, <1>7
<1> QED BY <1>8 DEF c

\* The cell holds as much in all.
LEMMA AllTheSame ==
  ASSUME TypeOK, TypeOK', WithinCell, NEW s \in DOMAIN current_budgets, NEW d \in Directions, NEW taken, NEW b,
         Moved(s, d, taken, b), scheduled' = scheduled
  PROVE  \A e \in Directions : SumFunctionOnSet(Held(e)', SliceIds) = SumFunctionOnSet(Held(e), SliceIds)
<1> DEFINE c == Change(s, taken, b)
           x == SumFunctionOnSet(c, SliceIds)
<1>1. TypeOK /\ s \in SliceIds /\ IsFiniteSet(SliceIds)
  BY BudgetsType, SliceAssumption
<1>2. SumFunctionOnSet(Held(d)', SliceIds) = SumFunctionOnSet(Held(d), SliceIds) + x
  <2>1. \A o \in SliceIds : Held(d)[o] \in Int /\ c[o] \in Int /\ Held(d)'[o] = Held(d)[o] + c[o]
    BY <1>1, HeldType, HeldMoved
  <2> HIDE DEF c
  <2> QED BY <1>1, <2>1, SumPlus
<1>3. x = 0
  BY ChangeSums
<1>4. SumFunctionOnSet(Held(d), SliceIds) \in Nat
  BY <1>1, HeldType DEF HeldBy
<1>5. SumFunctionOnSet(Held(d)', SliceIds) = SumFunctionOnSet(Held(d), SliceIds)
  <2> HIDE DEF x
  <2> QED BY <1>2, <1>3, <1>4
<1>6. ASSUME NEW e \in Directions \ {d}
      PROVE  SumFunctionOnSet(Held(e)', SliceIds) = SumFunctionOnSet(Held(e), SliceIds)
  <2>1. \A o \in SliceIds : Held(e)'[o] \in Int /\ Held(e)'[o] = Held(e)[o]
    BY <1>1, HeldType, HeldMoved
  <2> QED BY <1>1, <2>1, SumSame
<1> QED BY <1>5, <1>6

\* Borrowing moves blocks from the lenders to the borrower (request_resources).
LEMMA RequestStep ==
  ASSUME BudgetInv, TypeOK', AssociationsValid', NEW s \in DOMAIN current_budgets,
         NEW d \in Directions, NEW rbs \in Amounts, NEW order \in Orders(Lenders(s)),
         request_resources(s, rbs, d, order)
  PROVE  BudgetInv'
<1>1. TypeOK /\ WithinCell /\ AssociationsValid
  BY DEF BudgetInv
<1>2. UNCHANGED <<slice_configs, cell_rbs, scheduled, slas_in_force>>
  BY <1>1, RequestMoves DEF external
<1>3. PICK taken, b : Moved(s, d, taken, b)
  BY <1>1, RequestMoves
<1>4. DOMAIN current_budgets' = DOMAIN current_budgets /\ b \in Nat
  BY <1>3 DEF Moved
<1>5. WithinCell'
  <2>1. \A e \in Directions :
          SumFunctionOnSet(Held(e)', SliceIds) = SumFunctionOnSet(Held(e), SliceIds)
    BY <1>1, <1>2, <1>3, AllTheSame
  <2> QED BY <1>1, <1>2, <2>1 DEF WithinCell, HeldBy
<1>6. ASSUME NEW t \in DOMAIN current_budgets, NEW e \in Directions, ~slice_configs[t].preemptible
      PROVE  Held(e)'[t] >= Held(e)[t] /\ Held(e)[t] \in Nat /\ Held(e)'[t] \in Nat
  <2>1. t \in SliceIds /\ Held(e)[t] \in Nat /\ Held(e)'[t] \in Nat
    BY <1>1, BudgetsType, HeldType, HeldNumbersNext DEF HeldNumbers
  <2>2. CASE e = d
    <3>1. t \notin Lenders(s)
      BY <1>6 DEF Lenders
    <3>2. Change(s, taken, b)[t] \in Nat
      BY <1>4, <2>1, <3>1 DEF Change
    <3>3. Held(d)'[t] = Held(d)[t] + Change(s, taken, b)[t]
      BY <1>1, <1>2, <1>3, <2>1, HeldMoved
    <3> QED BY <2>1, <2>2, <3>2, <3>3
  <2>3. CASE e # d
    <3>1. Held(e)'[t] = Held(e)[t]
      BY <1>1, <1>2, <1>3, <2>1, <2>3, HeldMoved
    <3> QED BY <2>1, <3>1
  <2> QED BY <2>1, <2>2, <2>3
<1>7. GuaranteeKept'
  <2>1. GuaranteeHeld
    BY <1>1, GuaranteeForm DEF BudgetInv
  <2>2. GuaranteeHeld'
    <3> SUFFICES ASSUME NEW t \in DOMAIN current_budgets, NEW e \in Directions,
                        slas_in_force, ~slice_configs[t].preemptible,
                        SumFunction([o \in DOMAIN current_budgets |-> slice_configs[o].guaranteed_rbs])
                          <= cell_rbs
                 PROVE  Held(e)'[t] >= slice_configs[t].guaranteed_rbs
      BY <1>2, <1>4 DEF GuaranteeHeld
    <3>1. Held(e)[t] >= slice_configs[t].guaranteed_rbs
      BY <2>1 DEF GuaranteeHeld
    <3>2. Held(e)'[t] >= Held(e)[t] /\ Held(e)[t] \in Nat /\ Held(e)'[t] \in Nat
      BY <1>6
    <3>3. slice_configs[t].guaranteed_rbs \in Nat
      <4>1. t \in DOMAIN slice_configs
        BY <1>1 DEF AssociationsValid
      <4> QED BY <1>1, <4>1, SlaType
    <3> QED BY <3>1, <3>2, <3>3
  <2>3. TypeOK' => (GuaranteeKept' <=> GuaranteeHeld')
    BY GuaranteeForm, PTL
  <2> QED BY <2>2, <2>3
<1> QED BY <1>5, <1>7 DEF BudgetInv

-----------------------------------------------------------------------------
(* The theorems about the budgets.                                          *)

\* The caller reports a decision before it does anything else.
ReportsFirst == MaxAsked = 0

\* Then it has asked about one decision at most, and nothing has changed since.
OneAsked ==
  \/ asked = {}
  \/ \E x \in asked : asked = {x} /\ is_scheduling_allowed(x.rnti, x.rbs, x.direction)

IInv == BudgetInv /\ OneAsked

\* With no decision waiting any call may be made, with one it is reported.
LEMMA NextIInv ==
  ASSUME ReportsFirst, IInv, [Next]_vars
  PROVE  IInv'
<1>1. TypeOK /\ AssociationsValid /\ BudgetInv /\ TypeOK' /\ AssociationsValid'
  BY NextType, NextAssociations DEF IInv, BudgetInv
<1>2. ASSUME Cardinality(asked) <= MaxAsked PROVE asked = {}
  <2> SUFFICES ASSUME NEW x \in asked, asked = {x} PROVE FALSE
    BY DEF IInv, OneAsked
  <2>1. Cardinality({x}) = 1
    BY FS_Singleton
  <2> QED BY <1>2, <2>1 DEF ReportsFirst
<1>3. ASSUME asked = {}, Administer PROVE IInv'
  <2>1. asked' = asked
    BY <1>3 DEF Administer, create_slice, update_slice, delete_slice, Erase, associate_ue,
                disassociate_ue, external
  <2> QED BY <1>1, <1>3, <2>1, AdministerStep DEF IInv, OneAsked
<1>4. ASSUME asked = {}, Budget PROVE IInv'
  <2>1. ASSUME NEW num_rbs \in CellWidths, NEW order \in Orders(DOMAIN slice_configs),
               calculate_budgets(num_rbs, order)
        PROVE  BudgetInv' /\ asked' = {}
    BY <1>1, <2>1, CalculateStep, Calculated
  <2>2. ASSUME NEW s \in DOMAIN current_budgets, NEW d \in Directions, NEW rbs \in Amounts,
               NEW order \in Orders(Lenders(s)), request_resources(s, rbs, d, order)
        PROVE  BudgetInv' /\ asked' = {}
    BY <1>1, <1>4, <2>2, RequestStep, RequestMoves DEF external
  <2>3. ASSUME NEW s \in DOMAIN current_budgets, NEW d \in Directions, NEW rbs \in Amounts,
               return_resources(s, rbs, d)
        PROVE  BudgetInv' /\ asked' = {}
    BY <1>1, <1>4, <2>3, ReturnStep, Returned
  <2> QED BY <1>4, <2>1, <2>2, <2>3 DEF Budget, IInv, OneAsked
<1>5. ASSUME asked = {}, NEW x \in Decisions, Ask(x) PROVE IInv'
  <2>1. /\ UNCHANGED <<slice_configs, ue_slice_map, current_budgets, cell_rbs, scheduled,
                       slas_in_force>>
        /\ asked' = {x} /\ is_scheduling_allowed(x.rnti, x.rbs, x.direction)
    BY <1>5 DEF Ask
  <2>2. BudgetInv'
    BY <1>1, <2>1, HeldKept, QuietStep
  <2>3. is_scheduling_allowed(x.rnti, x.rbs, x.direction)'
    BY <2>1 DEF is_scheduling_allowed, Budgeted, Remaining
  <2> QED BY <2>1, <2>2, <2>3 DEF IInv, OneAsked
<1>6. ASSUME NEW x \in asked, Report(x) PROVE IInv'
  <2>1. asked = {x} /\ is_scheduling_allowed(x.rnti, x.rbs, x.direction)
    BY <1>6 DEF IInv, OneAsked
  <2>2. asked' = {}
    BY <1>6, <2>1 DEF Report
  <2> QED BY <1>1, <1>6, <2>1, <2>2, ReportStep DEF IInv, OneAsked
<1>7. ASSUME UNCHANGED vars PROVE IInv'
  <2>1. /\ UNCHANGED <<slice_configs, ue_slice_map, current_budgets, cell_rbs, scheduled,
                       slas_in_force, asked>>
    BY <1>7 DEF vars
  <2>2. BudgetInv'
    BY <1>1, <2>1, HeldKept, QuietStep
  <2>3. OneAsked' <=> OneAsked
    BY <2>1 DEF OneAsked, is_scheduling_allowed, Budgeted, Remaining
  <2> QED BY <2>2, <2>3 DEF IInv
<1> QED BY <1>2, <1>3, <1>4, <1>5, <1>6, <1>7 DEF Next

\* Before the first call there is nothing to be in order.
LEMMA InitIInv == Init => IInv
<1> SUFFICES ASSUME Init PROVE IInv
  OBVIOUS
<1>1. DOMAIN current_budgets = {} /\ scheduled = Nothing /\ asked = {} /\ slas_in_force = FALSE
  BY DEF Init
<1>2. TypeOK /\ AssociationsValid
  BY InitType, InitAssociations
<1>3. WithinCell
  <2> SUFFICES ASSUME NEW d \in Directions PROVE HeldBy(SliceIds, d) <= cell_rbs
    BY DEF WithinCell
  <2>1. \A s \in SliceIds : Held(d)[s] = 0
    BY <1>1 DEF Held, Rem, Nothing
  <2>2. HeldBy(SliceIds, d) = 0
    BY <2>1, SumZero, SliceAssumption DEF HeldBy
  <2>3. cell_rbs \in Nat
    BY <1>2, SliceAssumption DEF TypeOK
  <2> QED BY <2>2, <2>3
<1>4. GuaranteeKept /\ OneAsked
  BY <1>1 DEF GuaranteeKept, OneAsked
<1> QED BY <1>2, <1>3, <1>4 DEF IInv, BudgetInv

\* The budgets stay in order.
LEMMA BudgetsStayInOrder ==
  ASSUME ReportsFirst
  PROVE  Spec => []IInv
<1>1. IInv /\ [Next]_vars => IInv'
  BY ReportsFirst, NextIInv
<1> QED BY <1>1, InitIInv, PTL DEF Spec

\* The two sums of the property are a sum of what the slices hold.
LEMMA CellForm ==
  ASSUME TypeOK, WithinCell
  PROVE  BudgetsWithinCell
<1> SUFFICES ASSUME NEW d \in Directions
             PROVE  SumFunction([s \in SliceIds |-> scheduled[s][d]])
                      + SumFunction([s \in DOMAIN current_budgets |-> Remaining(s, d)]) <= cell_rbs
  BY DEF BudgetsWithinCell
<1> DEFINE D == DOMAIN current_budgets
           f == [s \in SliceIds |-> scheduled[s][d]]
           g == [s \in D |-> Remaining(s, d)]
           h == [s \in SliceIds |-> Rem(s, d)]
<1>1. D \in SUBSET SliceIds /\ IsFiniteSet(D) /\ IsFiniteSet(SliceIds)
  BY BudgetsType, SliceAssumption
<1>2. SumFunction(f) = SumFunctionOnSet(f, SliceIds) /\ SumFunction(g) = SumFunctionOnSet(g, D)
  BY DEF SumFunction
<1>3. \A s \in SliceIds : f[s] \in Int /\ h[s] \in Int /\ Held(d)[s] = f[s] + h[s]
  BY HeldType
<1>4. (\A s \in SliceIds \ D : h[s] = 0) /\ \A s \in D : h[s] = g[s] /\ h[s] \in Int
  BY <1>1, <1>3 DEF Rem
<1>5. SumFunctionOnSet(Held(d), SliceIds) <= cell_rbs
  BY DEF WithinCell, HeldBy
<1> HIDE DEF f, g, h, D
<1>6. SumFunctionOnSet(Held(d), SliceIds) = SumFunctionOnSet(f, SliceIds) + SumFunctionOnSet(h, SliceIds)
  BY <1>1, <1>3, SumPlus
<1>7. SumFunctionOnSet(h, SliceIds) = SumFunctionOnSet(h, D)
  <2>1. \A s \in SliceIds : h[s] \in Int
    BY <1>3
  <2> QED BY <1>1, <1>4, <2>1, SumOnSupport
<1>8. SumFunctionOnSet(h, D) = SumFunctionOnSet(g, D)
  BY <1>1, <1>4, SumSame
<1>9. SumFunctionOnSet(f, SliceIds) + SumFunctionOnSet(g, D) <= cell_rbs
  BY <1>5, <1>6, <1>7, <1>8
<1>10. SumFunction(f) + SumFunction(g) <= cell_rbs
  BY <1>2, <1>9
<1> QED BY <1>10 DEF f, g, D

\* What the slices have scheduled and what they have left never exceeds the cell,
\* for any agreements, borrowing and returning, when the caller reports each decision
\* before another call (calculate_budgets, request_resources, report_scheduling).
THEOREM BudgetsFitInCell ==
  ASSUME ReportsFirst
  PROVE  Spec => []BudgetsWithinCell
<1>1. IInv => BudgetsWithinCell
  BY CellForm DEF IInv, BudgetInv
<1>2. Spec => []IInv
  BY ReportsFirst, BudgetsStayInOrder
<1> QED BY <1>1, <1>2, PTL

\* Whatever the others borrow, a slice that may not be preempted keeps its guarantee,
\* when the caller reports each decision before another call (calculate_budgets,
\* request_resources).
THEOREM GuaranteesAreKept ==
  ASSUME ReportsFirst
  PROVE  Spec => []GuaranteeKept
<1>1. IInv => GuaranteeKept
  BY DEF IInv, BudgetInv
<1>2. Spec => []IInv
  BY ReportsFirst, BudgetsStayInOrder
<1> QED BY <1>1, <1>2, PTL
=============================================================================
