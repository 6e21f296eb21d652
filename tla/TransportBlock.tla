---------------------------- MODULE TransportBlock ----------------------------
(***************************************************************************)
(* The size of a transport block and the resource blocks it takes:          *)
(* tbs_table_lookup and min_rbs_for_tbs of include/core/nr_types.hpp, as the *)
(* resource allocator calls them for one decision.                          *)
(*                                                                          *)
(* The tables and the arithmetic are those of the code; every product stays  *)
(* below 2^30.  The one undefined step, a negative floating-point number cast *)
(* to uint32_t for a block of less than 64 bits, has the outcomes of the      *)
(* processors the code is built for, and is the same throughout a build.     *)
(***************************************************************************)
EXTENDS Integers, Sequences

CONSTANTS
  Mcs,            \* modulation and coding schemes, of 0..28
  Layers,         \* numbers of layers
  Sizes,          \* bytes waiting
  Widths,         \* num_rbs a cell may have
  Casts           \* outcomes of casting a negative number: see Shifted

ASSUME TransportBlockAssumption ==
  /\ Mcs \subseteq 0..28 /\ Layers \subseteq Nat \ {0}
  /\ Sizes \subseteq Nat /\ Widths \subseteq Nat \ {0}
  /\ Casts \subseteq {"saturated", "truncated"}

VARIABLES
  request,      \* the parameters of min_rbs_for_tbs
  cast,         \* external: the outcome of the undefined cast in this build
  low, high,    \* the variables of its loop
  pc            \* "search", then "done"

vars == <<request, cast, low, high, pc>>

-----------------------------------------------------------------------------
(* tbs_table_lookup.                                                        *)

spectral_eff_x1024 ==
  <<120, 157, 193, 251, 308, 379, 449, 526, 602, 679, 772, 873, 948, 1024, 1101,
    1176, 1252, 1327, 1403, 1478, 1554, 1630, 1706, 1783, 1859, 1935, 2011, 2088, 2165>>

Larger(a, b) == IF a > b THEN a ELSE b

\* 12 symbols, less the 12 elements of the reference signals; at most 156.
RE_PER_RB == 12 * 12 - 12

n_info(mcs, layers, num_rbs) ==
  (RE_PER_RB * num_rbs * spectral_eff_x1024[mcs + 1] * layers) \div 1024

\* Powers of two, 1u << k.
Power[k \in 0..30] == IF k = 0 THEN 1 ELSE 2 * Power[k - 1]

floor_log2(n) == CHOOSE k \in 0..29 : Power[k] <= n /\ n < Power[k + 1]

\* The products of the widest cell and the most layers are less than 2^30: the code
\* has at most 275 resource blocks and 8 layers.
ASSUME ProductsFit ==
  \A num_rbs \in Widths, layers \in Layers : RE_PER_RB * num_rbs * 2165 * layers < Power[30]

\* (n >> shift) << shift
Quantized(n, shift) == (n \div Power[shift]) * Power[shift]

\* n shifted by max(3, floor(log2 n) - 6).  The difference is negative below 64:
\* converted to 0 it gives a shift of 3; truncated to 32 bits it is beyond the
\* width of the number, of which the processor's shift leaves nothing.
Shifted(n) ==
  IF n >= 64 THEN Quantized(n, Larger(3, floor_log2(n) - 6))
  ELSE IF cast = "saturated" THEN Quantized(n, 3) ELSE 0

Bytes(bits) == (bits + 7) \div 8

SmallTbs(n) == Bytes(Larger(24, Shifted(n)))

\* Mutant: the block is not divided into code blocks.
LargeTbs_single_block(n) ==
  LET n_prime == Larger(3840, Quantized(n - 24, floor_log2(n - 24) - 5))
  IN  Bytes(IF n_prime < 8424 THEN 8 * ((n_prime + 24 + 31) \div 32) - 24
            ELSE 8 * (n_prime + 24 + 1) - 24)

LargeTbs(n) ==
  LET n_prime == Larger(3840, Quantized(n - 24, floor_log2(n - 24) - 5))
      c       == (n_prime + 24 + 8423) \div 8424
  IN  Bytes(IF n_prime < 8424 THEN 8 * ((n_prime + 24 + 31) \div 32) - 24
            ELSE 8 * c * ((n_prime + 24) \div (8 * c) + 1) - 24)

tbs_table_lookup(mcs, num_rbs, layers) ==
  IF num_rbs = 0 \/ layers = 0 THEN 0
  ELSE LET n == n_info(mcs, layers, num_rbs)
       IN  IF n <= 3824 THEN SmallTbs(n) ELSE LargeTbs(n)

-----------------------------------------------------------------------------
(* min_rbs_for_tbs.                                                         *)

\* The size of a block on n resource blocks, for the request.
Tbs(n) == tbs_table_lookup(request.mcs, n, request.layers)

Init ==
  /\ request \in [mcs : Mcs, layers : Layers, bytes : Sizes, max_rbs : Widths]
  /\ cast \in Casts
  /\ low = 1 /\ high = request.max_rbs
  /\ pc = "search"

\* Mutant: the lower bound moves to the middle, not past it.
Halve_without_progress ==
  /\ pc = "search" /\ low < high
  /\ LET mid == (low + high) \div 2
     IN  IF Tbs(mid) >= request.bytes THEN high' = mid /\ UNCHANGED low
                                      ELSE low' = mid /\ UNCHANGED high
  /\ UNCHANGED <<request, cast, pc>>

\* Mutant: a block of exactly the size asked for is refused.
Halve_strict ==
  /\ pc = "search" /\ low < high
  /\ LET mid == (low + high) \div 2
     IN  IF Tbs(mid) > request.bytes THEN high' = mid /\ UNCHANGED low
                                     ELSE low' = mid + 1 /\ UNCHANGED high
  /\ UNCHANGED <<request, cast, pc>>

\* Mutant: the upper bound moves below a middle that would do.
Halve_past_middle ==
  /\ pc = "search" /\ low < high
  /\ LET mid == (low + high) \div 2
     IN  IF Tbs(mid) >= request.bytes THEN high' = mid - 1 /\ UNCHANGED low
                                      ELSE low' = mid + 1 /\ UNCHANGED high
  /\ UNCHANGED <<request, cast, pc>>

\* One turn of the loop.
Halve ==
  /\ pc = "search" /\ low < high
  /\ LET mid == (low + high) \div 2
     IN  IF Tbs(mid) >= request.bytes THEN high' = mid /\ UNCHANGED low
                                      ELSE low' = mid + 1 /\ UNCHANGED high
  /\ UNCHANGED <<request, cast, pc>>

\* The loop ends and low is returned.
Return ==
  /\ pc = "search" /\ low >= high
  /\ pc' = "done"
  /\ UNCHANGED <<request, cast, low, high>>

Next == Halve \/ Return

Spec == Init /\ [][Next]_vars

\* The loop is run by a thread that nothing keeps waiting.
FairSpec == Spec /\ WF_vars(Next)

-----------------------------------------------------------------------------
(* Properties.                                                              *)

\* The bounds stay within the cell and never cross.
TypeOK ==
  /\ request \in [mcs : Mcs, layers : Layers, bytes : Sizes, max_rbs : Widths]
  /\ cast \in Casts
  /\ low \in 1..request.max_rbs /\ high \in low..request.max_rbs
  /\ pc \in {"search", "done"}

\* What is returned holds the bytes or is the whole cell, and one block less would
\* not hold them, although the size does not grow with the blocks (min_rbs_for_tbs).
ResultIsTight ==
  pc = "done" =>
    /\ low = request.max_rbs \/ Tbs(low) >= request.bytes
    /\ low = 1 \/ ~(Tbs(low - 1) >= request.bytes)

\* The numbers of blocks that hold the bytes.
Enough == {n \in 1..request.max_rbs : Tbs(n) >= request.bytes}

\* In a cell no allocation of which passes 3824 bits, the result is the least
\* number of blocks that holds the bytes, or the whole cell if none does: the
\* quantisation never makes a block smaller for having more resources.  Beyond 3824
\* bits it does, and a larger number than needed may be returned.
MinimalForSmallBlocks ==
  pc = "done" /\ n_info(request.mcs, request.layers, request.max_rbs) <= 3824 =>
    /\ \A n \in Enough : low <= n
    /\ Enough = {} => low = request.max_rbs

\* A transport block has at most the bits its resources carry, up to the rounding to
\* 24 bits and to whole bytes in each code block (tbs_table_lookup).
FitsItsResources ==
  pc = "done" =>
    LET n == n_info(request.mcs, request.layers, low)
    IN  8 * Tbs(low) <= Larger(24, n) + 8 * ((n + 8423) \div 8424) + 7

\* The search ends (the loop of min_rbs_for_tbs).
SearchEnds == <>(pc = "done")
=============================================================================
