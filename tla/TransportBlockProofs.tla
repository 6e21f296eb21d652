------------------------ MODULE TransportBlockProofs ------------------------
(***************************************************************************)
(* The binary search of min_rbs_for_tbs and the sizes of tbs_table_lookup, for *)
(* every scheme, size, width and outcome of the undefined cast.  That the      *)
(* bounds are kept and the result is tight uses nothing of the sizes, least of *)
(* all that they grow; that they do, up to 3824 bits, makes it minimal.       *)
(***************************************************************************)
EXTENDS TransportBlock, NumberLemmas

\* The number below low does not hold the bytes; high does or is the whole cell.
SearchInv ==
  /\ TypeOK
  /\ low = 1 \/ ~(Tbs(low - 1) >= request.bytes)
  /\ high = request.max_rbs \/ Tbs(high) >= request.bytes
  /\ pc = "done" => low = high

\* Sizes are compared with the bytes as numbers.
LEMMA BoundsType ==
  ASSUME TypeOK
  PROVE  /\ low \in Nat \ {0} /\ high \in Nat /\ low <= high
         /\ request.max_rbs \in Nat /\ high <= request.max_rbs
<1>1. request.max_rbs \in Nat \ {0}
  BY TransportBlockAssumption DEF TypeOK
<1> QED BY <1>1 DEF TypeOK

LEMMA InitSearchInv == Init => SearchInv
<1> SUFFICES ASSUME Init PROVE SearchInv
  OBVIOUS
<1>1. request.max_rbs \in Nat \ {0}
  BY TransportBlockAssumption DEF Init
<1> QED BY <1>1 DEF Init, SearchInv, TypeOK

\* A middle that does not hold the bytes is passed, one that does is the new bound.
LEMMA HalveStep ==
  ASSUME SearchInv, Halve
  PROVE  SearchInv'
<1> DEFINE mid == (low + high) \div 2
<1>1. /\ low \in Nat \ {0} /\ high \in Nat /\ low < high
      /\ request.max_rbs \in Nat /\ high <= request.max_rbs
  BY BoundsType DEF SearchInv, Halve
<1>2. mid \in Nat /\ low <= mid /\ mid < high
  BY <1>1
<1>3. /\ IF Tbs(mid) >= request.bytes THEN high' = mid /\ low' = low
                                      ELSE low' = mid + 1 /\ high' = high
      /\ request' = request /\ cast' = cast /\ pc' = pc /\ pc = "search"
  BY DEF Halve
<1> HIDE DEF mid
<1>4. \A n : Tbs(n)' = Tbs(n)
  BY <1>3 DEF Tbs, tbs_table_lookup, SmallTbs, Shifted
<1>5. CASE Tbs(mid) >= request.bytes
  <2>1. low' = low /\ high' = mid
    BY <1>3, <1>5
  <2>2. TypeOK'
    BY <1>1, <1>2, <1>3, <2>1 DEF SearchInv, TypeOK
  <2>3. Tbs(high)' >= request'.bytes /\ (low' = 1 \/ ~(Tbs(low - 1)' >= request'.bytes))
    BY <1>3, <1>4, <1>5, <2>1 DEF SearchInv
  <2> QED BY <1>3, <2>2, <2>3 DEF SearchInv
<1>6. CASE ~(Tbs(mid) >= request.bytes)
  <2>1. low' = mid + 1 /\ high' = high
    BY <1>3, <1>6
  <2>2. TypeOK'
    BY <1>1, <1>2, <1>3, <2>1 DEF SearchInv, TypeOK
  <2>3. low' - 1 = mid
    BY <1>2, <2>1
  <2>4. Tbs(low - 1)' = Tbs(mid) /\ Tbs(high)' = Tbs(high)
    BY <1>4, <2>1, <2>3
  <2> QED BY <1>3, <1>6, <2>1, <2>2, <2>4 DEF SearchInv
<1> QED BY <1>5, <1>6

LEMMA NextSearchInv == SearchInv /\ [Next]_vars => SearchInv'
<1> SUFFICES ASSUME SearchInv, [Next]_vars PROVE SearchInv'
  OBVIOUS
<1>1. CASE Return
  <2>1. /\ low' = low /\ high' = high /\ request' = request /\ cast' = cast /\ pc' = "done"
        /\ low = high
    BY <1>1, BoundsType DEF Return, SearchInv
  <2>2. \A n : Tbs(n)' = Tbs(n)
    BY <2>1 DEF Tbs, tbs_table_lookup, SmallTbs, Shifted
  <2> QED BY <2>1, <2>2 DEF SearchInv, TypeOK
<1>2. CASE UNCHANGED vars
  <2>1. \A n : Tbs(n)' = Tbs(n)
    BY <1>2 DEF vars, Tbs, tbs_table_lookup, SmallTbs, Shifted
  <2> QED BY <1>2, <2>1 DEF vars, SearchInv, TypeOK
<1> QED BY <1>1, <1>2, HalveStep DEF Next

\* The bounds of the search stay within the cell and never cross
\* (min_rbs_for_tbs).
THEOREM BoundsStayInCell == Spec => []TypeOK
<1>1. SearchInv => TypeOK
  BY DEF SearchInv
<1> QED BY <1>1, InitSearchInv, NextSearchInv, PTL DEF Spec

\* The number returned holds the bytes or is the whole cell, and one block less
\* does not hold them, whatever the table of sizes contains (min_rbs_for_tbs).
THEOREM SearchIsTight == Spec => []ResultIsTight
<1>1. SearchInv => ResultIsTight
  BY DEF SearchInv, ResultIsTight
<1> QED BY <1>1, InitSearchInv, NextSearchInv, PTL DEF Spec

-----------------------------------------------------------------------------
(* Powers of two and the logarithm.                                         *)

\* There is a function that doubles at every step up to n.
LEMMA PowerExists ==
  \E g : g = [k \in 0..30 |-> IF k = 0 THEN 1 ELSE 2 * g[k - 1]]
<1> DEFINE N == {n \in Nat : n <= 30 =>
                   \E g : g = [k \in 0..n |-> IF k = 0 THEN 1 ELSE 2 * g[k - 1]]}
<1>1. 0 \in N
  <2> DEFINE g == [k \in 0..0 |-> 1]
  <2>1. g = [k \in 0..0 |-> IF k = 0 THEN 1 ELSE 2 * g[k - 1]]
    OBVIOUS
  <2> HIDE DEF g
  <2> QED BY <2>1
<1>2. ASSUME NEW n \in Nat, n \in N PROVE n + 1 \in N
  <2> SUFFICES ASSUME n + 1 <= 30
               PROVE  \E g : g = [k \in 0..(n + 1) |-> IF k = 0 THEN 1 ELSE 2 * g[k - 1]]
    OBVIOUS
  <2>1. PICK h : h = [k \in 0..n |-> IF k = 0 THEN 1 ELSE 2 * h[k - 1]]
    BY <1>2
  <2> DEFINE g == [k \in 0..(n + 1) |-> IF k = n + 1 THEN 2 * h[n] ELSE h[k]]
  <2>2. \A k \in 0..n : g[k] = h[k]
    OBVIOUS
  <2>3. \A k \in 0..n : h[k] = IF k = 0 THEN 1 ELSE 2 * h[k - 1]
    <3> HIDE DEF g
    <3>1. DOMAIN h = 0..n
      BY <2>1
    <3> QED BY <2>1, <3>1
  <2>4. \A k \in 0..(n + 1) : g[k] = IF k = 0 THEN 1 ELSE 2 * g[k - 1]
    <3> SUFFICES ASSUME NEW k \in 0..(n + 1)
                 PROVE  g[k] = IF k = 0 THEN 1 ELSE 2 * g[k - 1]
      OBVIOUS
    <3>1. CASE k = n + 1
      <4>1. g[k] = 2 * h[n] /\ k # 0 /\ k - 1 = n /\ g[n] = h[n]
        BY <3>1
      <4> HIDE DEF g
      <4> QED BY <4>1
    <3>2. CASE k = 0
      <4>1. g[k] = h[k] /\ h[k] = 1
        BY <2>2, <2>3, <3>2
      <4> HIDE DEF g
      <4> QED BY <3>2, <4>1
    <3>3. CASE k # n + 1 /\ k # 0
      <4>1. k \in 0..n /\ k - 1 \in 0..n
        BY <3>3
      <4>2. g[k] = h[k] /\ g[k - 1] = h[k - 1]
        BY <2>2, <4>1
      <4>3. h[k] = 2 * h[k - 1]
        BY <2>3, <3>3, <4>1
      <4> HIDE DEF g
      <4> QED BY <3>3, <4>2, <4>3
    <3> QED BY <3>1, <3>2, <3>3
  <2>5. g = [k \in 0..(n + 1) |-> g[k]]
    OBVIOUS
  <2> HIDE DEF g
  <2>6. g = [k \in 0..(n + 1) |-> IF k = 0 THEN 1 ELSE 2 * g[k - 1]]
    BY <2>4, <2>5
  <2> QED BY <2>6
<1> HIDE DEF N
<1>3. 30 \in N
  BY <1>1, <1>2, NatSetInduction
<1> QED BY <1>3 DEF N

\* Every power is twice the one before it.
LEMMA PowerEquation ==
  Power[0] = 1 /\ \A k \in 1..30 : Power[k] = 2 * Power[k - 1]
<1> DEFINE F(g) == [k \in 0..30 |-> IF k = 0 THEN 1 ELSE 2 * g[k - 1]]
<1>1. Power = CHOOSE g : g = F(g)
  BY DEF Power
<1>2. Power = F(Power)
  <2> HIDE DEF F
  <2>1. \E g : g = F(g)
    BY PowerExists DEF F
  <2> QED BY <1>1, <2>1
<1>3. \A k \in 0..30 : Power[k] = IF k = 0 THEN 1 ELSE 2 * Power[k - 1]
  <2> HIDE DEF F
  <2>1. \A k \in 0..30 : F(Power)[k] = IF k = 0 THEN 1 ELSE 2 * Power[k - 1]
    BY DEF F
  <2> QED BY <1>2, <2>1
<1> QED BY <1>3

\* The powers are positive, and those that the sizes of small blocks turn on.
LEMMA PowerValues ==
  /\ \A k \in 0..30 : Power[k] \in Nat \ {0}
  /\ Power[3] = 8 /\ Power[4] = 16 /\ Power[5] = 32 /\ Power[6] = 64
  /\ Power[10] = 1024 /\ Power[11] = 2048 /\ Power[12] = 4096
<1> DEFINE N == {n \in Nat : n <= 30 => Power[n] \in Nat \ {0}}
<1>1. 0 \in N
  BY PowerEquation
<1>2. ASSUME NEW n \in Nat, n \in N PROVE n + 1 \in N
  <2> SUFFICES ASSUME n + 1 <= 30 PROVE Power[n + 1] \in Nat \ {0}
    OBVIOUS
  <2>1. Power[n] \in Nat \ {0} /\ n + 1 \in 1..30 /\ (n + 1) - 1 = n
    BY <1>2
  <2>2. Power[n + 1] = 2 * Power[(n + 1) - 1]
    BY <2>1, PowerEquation
  <2> QED BY <2>1, <2>2
<1> HIDE DEF N
<1>3. \A n \in Nat : n \in N
  BY <1>1, <1>2, NatSetInduction
<1>4. \A k \in 0..30 : Power[k] \in Nat \ {0}
  BY <1>3 DEF N
<1>5. Power[1] = 2 /\ Power[2] = 4 /\ Power[3] = 8
  BY PowerEquation
<1>6. Power[4] = 16 /\ Power[5] = 32 /\ Power[6] = 64
  BY <1>5, PowerEquation
<1>7. Power[7] = 128 /\ Power[8] = 256 /\ Power[9] = 512
  BY <1>6, PowerEquation
<1>8. Power[10] = 1024 /\ Power[11] = 2048 /\ Power[12] = 4096
  BY <1>7, PowerEquation
<1> QED BY <1>4, <1>5, <1>6, <1>8

\* A larger exponent gives no smaller power.
LEMMA PowerGrows ==
  ASSUME NEW j \in 0..30, NEW k \in 0..30, j <= k
  PROVE  Power[j] <= Power[k]
<1> DEFINE N == {n \in Nat : j + n <= 30 => Power[j] <= Power[j + n]}
<1>1. \A i \in 0..30 : Power[i] \in Nat
  BY PowerValues
<1>2. 0 \in N
  BY <1>1
<1>3. ASSUME NEW n \in Nat, n \in N PROVE n + 1 \in N
  <2> SUFFICES ASSUME j + (n + 1) <= 30 PROVE Power[j] <= Power[j + (n + 1)]
    OBVIOUS
  <2>1. j + n \in 0..30 /\ j + (n + 1) \in 1..30 /\ (j + (n + 1)) - 1 = j + n
    OBVIOUS
  <2>2. Power[j + (n + 1)] = 2 * Power[j + n]
    BY <2>1, PowerEquation
  <2>3. Power[j] <= Power[j + n] /\ Power[j + n] \in Nat /\ Power[j] \in Nat
    BY <1>1, <1>3, <2>1
  <2> QED BY <2>2, <2>3
<1> HIDE DEF N
<1>4. k - j \in N /\ j + (k - j) = k
  BY <1>2, <1>3, NatSetInduction
<1> QED BY <1>4 DEF N

\* The logarithm of a number of at most 30 bits.
LEMMA LogIs ==
  ASSUME NEW n \in Nat \ {0}, n < Power[30]
  PROVE  /\ floor_log2(n) \in 0..29
         /\ Power[floor_log2(n)] <= n /\ n < Power[floor_log2(n) + 1]
<1> DEFINE N == {j \in Nat : j <= 29 /\ n < Power[j + 1] =>
                   \E k \in 0..29 : Power[k] <= n /\ n < Power[k + 1]}
<1>1. \A i \in 0..30 : Power[i] \in Nat
  BY PowerValues
<1>2. 0 \in N
  BY PowerEquation
<1>3. ASSUME NEW j \in Nat, j \in N PROVE j + 1 \in N
  <2> SUFFICES ASSUME j + 1 <= 29, n < Power[(j + 1) + 1]
               PROVE  \E k \in 0..29 : Power[k] <= n /\ n < Power[k + 1]
    OBVIOUS
  <2>1. CASE n < Power[j + 1]
    BY <1>3, <2>1
  <2>2. CASE ~(n < Power[j + 1])
    <3>1. j + 1 \in 0..29 /\ Power[j + 1] \in Nat
      BY <1>1
    <3>2. Power[j + 1] <= n
      BY <2>2, <3>1
    <3> QED BY <3>1, <3>2
  <2> QED BY <2>1, <2>2
<1> HIDE DEF N
<1>4. 29 \in N
  BY <1>2, <1>3, NatSetInduction
<1>5. \E k \in 0..29 : Power[k] <= n /\ n < Power[k + 1]
  BY <1>4 DEF N
<1> QED BY <1>5 DEF floor_log2

-----------------------------------------------------------------------------
(* The sizes.                                                               *)

\* Shifting down and up again never makes a number larger.
LEMMA QuantizedBelow ==
  ASSUME NEW n \in Nat, NEW shift \in Nat, shift <= 30
  PROVE  Quantized(n, shift) \in Nat /\ Quantized(n, shift) <= n
<1> DEFINE p == Power[shift]
<1>1. p \in Nat \ {0}
  BY PowerValues
<1> HIDE DEF p
<1>2. n \div p \in Nat /\ (n \div p) * p <= n
  BY <1>1
<1>3. (n \div p) * p \in Nat
  BY <1>1, <1>2
<1> QED BY <1>2, <1>3 DEF Quantized, p

\* What a number of 64 up to 3824 is rounded down to a multiple of.
Unit(n) == IF n < 1024 THEN 8 ELSE IF n < 2048 THEN 16 ELSE 32

\* The shift of a small block, as a multiple.
LEMMA SmallShift ==
  ASSUME NEW n \in Nat, 64 <= n, n <= 3824
  PROVE  Shifted(n) = (n \div Unit(n)) * Unit(n)
<1> DEFINE k == floor_log2(n)
<1>1. /\ Power[3] = 8 /\ Power[4] = 16 /\ Power[5] = 32 /\ Power[6] = 64
      /\ Power[10] = 1024 /\ Power[11] = 2048 /\ Power[12] = 4096
      /\ \A j \in 0..30 : Power[j] \in Nat
  BY PowerValues
<1>2. n < Power[30]
  <2>1. Power[12] <= Power[30] /\ Power[30] \in Nat
    BY <1>1, PowerGrows
  <2> QED BY <1>1, <2>1
<1>3. /\ n \in Nat \ {0}
      /\ k \in 0..29 /\ Power[k] <= n /\ n < Power[k + 1]
      /\ Power[k] \in Nat /\ Power[k + 1] \in Nat
  <2>1. n \in Nat \ {0}
    OBVIOUS
  <2>2. k \in 0..29 /\ Power[k] <= n /\ n < Power[k + 1]
    BY <1>2, <2>1, LogIs
  <2> HIDE DEF k
  <2>3. k \in 0..30 /\ k + 1 \in 0..30
    BY <2>2
  <2> QED BY <1>1, <2>1, <2>2, <2>3
<1> HIDE DEF k
<1>4. k >= 6
  <2> SUFFICES ASSUME k <= 5 PROVE FALSE
    BY <1>3
  <2>1. Power[k + 1] <= Power[6]
    BY <1>3, PowerGrows
  <2> QED BY <1>1, <1>3, <2>1
<1>5. k <= 11
  <2> SUFFICES ASSUME k >= 12 PROVE FALSE
    BY <1>3
  <2>1. Power[12] <= Power[k]
    BY <1>3, PowerGrows
  <2> QED BY <1>1, <1>3, <2>1
<1>6. n < 1024 => k <= 9
  <2> SUFFICES ASSUME n < 1024, k >= 10 PROVE FALSE
    BY <1>3
  <2>1. Power[10] <= Power[k]
    BY <1>3, PowerGrows
  <2> QED BY <1>1, <1>3, <2>1
<1>7. n >= 1024 => k >= 10
  <2> SUFFICES ASSUME n >= 1024, k <= 9 PROVE FALSE
    BY <1>3
  <2>1. Power[k + 1] <= Power[10]
    BY <1>3, PowerGrows
  <2> QED BY <1>1, <1>3, <2>1
<1>8. n >= 2048 => k >= 11
  <2> SUFFICES ASSUME n >= 2048, k <= 10 PROVE FALSE
    BY <1>3
  <2>1. Power[k + 1] <= Power[11]
    BY <1>3, PowerGrows
  <2> QED BY <1>1, <1>3, <2>1
<1>9. n < 2048 => k <= 10
  <2> SUFFICES ASSUME n < 2048, k >= 11 PROVE FALSE
    BY <1>3
  <2>1. Power[11] <= Power[k]
    BY <1>3, PowerGrows
  <2> QED BY <1>1, <1>3, <2>1
<1>10. Larger(3, k - 6) = IF n < 1024 THEN 3 ELSE IF n < 2048 THEN 4 ELSE 5
  BY <1>3, <1>4, <1>5, <1>6, <1>7, <1>8, <1>9 DEF Larger
<1>11. Power[Larger(3, k - 6)] = Unit(n)
  BY <1>1, <1>10 DEF Unit
<1>12. Shifted(n) = Quantized(n, Larger(3, k - 6))
  BY DEF Shifted, k
<1> QED BY <1>11, <1>12 DEF Quantized

\* A small block of more bits is no smaller, whatever the undefined cast gives.
LEMMA ShiftedGrows ==
  ASSUME NEW a \in Nat, NEW b \in Nat, a <= b, b <= 3824
  PROVE  Shifted(a) \in Nat /\ Shifted(b) \in Nat /\ Shifted(a) <= a /\ Shifted(a) <= Shifted(b)
<1>1. \A n \in Nat : 64 <= n /\ n <= 3824 =>
        Shifted(n) = IF n < 1024 THEN (n \div 8) * 8
                     ELSE IF n < 2048 THEN (n \div 16) * 16 ELSE (n \div 32) * 32
  <2> SUFFICES ASSUME NEW n \in Nat, 64 <= n, n <= 3824
               PROVE  Shifted(n) = IF n < 1024 THEN (n \div 8) * 8
                        ELSE IF n < 2048 THEN (n \div 16) * 16 ELSE (n \div 32) * 32
    OBVIOUS
  <2>1. Shifted(n) = (n \div Unit(n)) * Unit(n)
    BY SmallShift
  <2> QED BY <2>1 DEF Unit
<1>2. \A n \in Nat : n < 64 =>
        Shifted(n) = IF cast = "saturated" THEN (n \div 8) * 8 ELSE 0
  <2> SUFFICES ASSUME NEW n \in Nat, n < 64
               PROVE  Shifted(n) = IF cast = "saturated" THEN (n \div 8) * 8 ELSE 0
    OBVIOUS
  <2>1. ~(n >= 64) /\ Power[3] = 8
    BY PowerValues
  <2> QED BY <2>1 DEF Shifted, Quantized
<1>3. /\ Shifted(a) = IF a >= 64 THEN IF a < 1024 THEN (a \div 8) * 8
                         ELSE IF a < 2048 THEN (a \div 16) * 16 ELSE (a \div 32) * 32
                       ELSE IF cast = "saturated" THEN (a \div 8) * 8 ELSE 0
      /\ Shifted(b) = IF b >= 64 THEN IF b < 1024 THEN (b \div 8) * 8
                         ELSE IF b < 2048 THEN (b \div 16) * 16 ELSE (b \div 32) * 32
                       ELSE IF cast = "saturated" THEN (b \div 8) * 8 ELSE 0
  <2>1. (a >= 64 \/ a < 64) /\ (b >= 64 \/ b < 64)
    OBVIOUS
  <2> QED BY <1>1, <1>2, <2>1
<1> DEFINE x == Shifted(a)
           y == Shifted(b)
<1>4. x \in Nat /\ y \in Nat /\ x <= a
  <2>1. /\ (a \div 8) * 8 \in 0..a /\ (a \div 16) * 16 \in 0..a /\ (a \div 32) * 32 \in 0..a
        /\ (b \div 8) * 8 \in Nat /\ (b \div 16) * 16 \in Nat /\ (b \div 32) * 32 \in Nat
    OBVIOUS
  <2> QED BY <1>3, <2>1
<1>5. x <= y
  <2>1. CASE b < 64
    BY <1>3, <2>1
  <2>2. CASE b >= 64 /\ b < 1024
    BY <1>3, <2>2
  <2>3. CASE b >= 1024 /\ b < 2048
    BY <1>3, <2>3
  <2>4. CASE b >= 2048
    BY <1>3, <2>4
  <2> QED BY <2>1, <2>2, <2>3, <2>4
<1> QED BY <1>4, <1>5

\* A block up to 3824 bits of more bits has no fewer bytes.
LEMMA SmallTbsGrows ==
  ASSUME NEW a \in Nat, NEW b \in Nat, a <= b, b <= 3824
  PROVE  SmallTbs(a) \in Nat /\ SmallTbs(b) \in Nat /\ SmallTbs(a) <= SmallTbs(b)
<1>1. Shifted(a) \in Nat /\ Shifted(b) \in Nat /\ Shifted(a) <= Shifted(b)
  BY ShiftedGrows
<1> DEFINE x == Larger(24, Shifted(a))
           y == Larger(24, Shifted(b))
<1>2. x \in Nat /\ y \in Nat /\ x <= y
  BY <1>1 DEF Larger
<1>3. SmallTbs(a) = (x + 7) \div 8 /\ SmallTbs(b) = (y + 7) \div 8
  BY DEF SmallTbs, Bytes
<1> HIDE DEF x, y
<1> QED BY <1>2, <1>3

\* A small block is no larger than its bits, or 24, and the rest of a byte.
LEMMA SmallTbsFits ==
  ASSUME NEW n \in Nat, n <= 3824
  PROVE  SmallTbs(n) \in Nat /\ 8 * SmallTbs(n) <= Larger(24, n) + 7
<1>1. Shifted(n) \in Nat /\ Shifted(n) <= n
  BY ShiftedGrows
<1> DEFINE x == Larger(24, Shifted(n))
<1>2. x \in Nat /\ x <= Larger(24, n) /\ Larger(24, n) \in Nat
  BY <1>1 DEF Larger
<1>3. SmallTbs(n) = (x + 7) \div 8
  BY DEF SmallTbs, Bytes
<1> HIDE DEF x
<1> QED BY <1>2, <1>3

\* A large block is no larger than its bits, with a byte for each code block and the rest
\* of one.
LEMMA LargeTbsFits ==
  ASSUME NEW n \in Nat, n > 3824, n < Power[30]
  PROVE  8 * LargeTbs(n) <= n + 8 * ((n + 8423) \div 8424) + 7
<1> DEFINE m == n - 24
           k == floor_log2(m)
           q == Quantized(m, k - 5)
           n_prime == Larger(3840, q)
           c == (n_prime + 24 + 8423) \div 8424
           d == 8 * c
           bits == IF n_prime < 8424 THEN 8 * ((n_prime + 24 + 31) \div 32) - 24
                   ELSE 8 * c * ((n_prime + 24) \div (8 * c) + 1) - 24
<1>1. LargeTbs(n) = Bytes(bits)
  BY DEF LargeTbs
<1>2. m \in Nat \ {0} /\ m > 64 /\ m < Power[30]
  <2>1. Power[30] \in Nat
    BY PowerValues
  <2> QED BY <2>1
<1>3. k \in 0..29 /\ Power[k] <= m /\ m < Power[k + 1]
  <2> HIDE DEF m
  <2> QED BY <1>2, LogIs
<1>4. k - 5 \in 0..30
  <2> HIDE DEF k, m
  <2> SUFFICES ASSUME k <= 4 PROVE FALSE
    BY <1>3
  <2>1. Power[k + 1] <= Power[6] /\ Power[6] = 64 /\ Power[k + 1] \in Nat
    BY <1>3, PowerGrows, PowerValues
  <2> QED BY <1>2, <1>3, <2>1
<1>5. q \in Nat /\ q <= m
  <2> HIDE DEF k, m
  <2>1. m \in Nat
    BY <1>2
  <2> DEFINE shift == k - 5
  <2>2. shift \in Nat /\ shift <= 30
    BY <1>4
  <2> HIDE DEF shift
  <2>3. Quantized(m, shift) \in Nat /\ Quantized(m, shift) <= m
    BY <2>1, <2>2, QuantizedBelow, SMTT(20)
  <2> QED BY <2>3 DEF shift
<1> HIDE DEF q, k
<1>6. n_prime \in Nat /\ n_prime >= 3840 /\ (n_prime = 3840 \/ n_prime <= m)
  BY <1>5 DEF Larger
<1> HIDE DEF n_prime
<1>7. bits \in Int /\ bits <= n + 8 * ((n + 8423) \div 8424)
  <2>1. CASE n_prime < 8424
    <3>1. bits = 8 * ((n_prime + 24 + 31) \div 32) - 24
      BY <2>1
    <3> HIDE DEF bits
    <3> QED BY <1>6, <2>1, <3>1
  <2>2. CASE ~(n_prime < 8424)
    <3>1. bits = d * ((n_prime + 24) \div d + 1) - 24
      BY <2>2
    <3>2. c \in Nat \ {0} /\ c <= (n + 8423) \div 8424
      BY <1>6, <2>2
    <3>3. d \in Nat \ {0} /\ d = 8 * c
      BY <3>2
    <3> HIDE DEF bits, c, d, m
    <3> DEFINE a == n_prime + 24
    <3>4. a \in Nat /\ a = n_prime + 24
      BY <1>6
    <3>5. bits = d * (a \div d + 1) - 24
      BY <3>1
    <3> HIDE DEF a
    <3> DEFINE x == a \div d
    <3>6. x \in Nat /\ d * x <= a
      BY <3>3, <3>4
    <3>7. bits = d * (x + 1) - 24
      BY <3>5
    <3> HIDE DEF x
    <3>8. d * (x + 1) = d * x + d /\ d * x \in Nat
      BY <3>3, <3>6
    <3>9. n_prime <= n - 24
      BY <1>6, <2>2 DEF m
    <3> QED BY <1>6, <3>2, <3>3, <3>4, <3>6, <3>7, <3>8, <3>9
  <2> QED BY <2>1, <2>2
<1> HIDE DEF bits
<1> QED BY <1>1, <1>7 DEF Bytes

-----------------------------------------------------------------------------
(* The sizes of the blocks of a request.                                    *)

\* The table of spectral efficiencies.
LEMMA Efficiencies ==
  \A i \in 1..29 : spectral_eff_x1024[i] \in Nat /\ spectral_eff_x1024[i] <= 2165
BY SMTT(20) DEF spectral_eff_x1024

\* The bits of more resource blocks are no fewer, and stay below 2^30.
LEMMA InfoGrows ==
  ASSUME NEW mcs \in Mcs, NEW layers \in Layers, NEW width \in Widths,
         NEW a \in 1..width, NEW b \in a..width
  PROVE  /\ n_info(mcs, layers, a) \in Nat /\ n_info(mcs, layers, b) \in Nat
         /\ n_info(mcs, layers, a) <= n_info(mcs, layers, b)
         /\ n_info(mcs, layers, b) < Power[30]
<1> DEFINE eff == spectral_eff_x1024[mcs + 1]
<1>1. eff \in Nat /\ eff <= 2165
  <2> DEFINE i == mcs + 1
  <2>1. i \in 1..29
    BY TransportBlockAssumption
  <2> HIDE DEF i
  <2>2. spectral_eff_x1024[i] \in Nat /\ spectral_eff_x1024[i] <= 2165
    BY <2>1, Efficiencies
  <2> QED BY <2>2 DEF i
<1>2. width \in Nat \ {0} /\ layers \in Nat \ {0} /\ a \in Nat \ {0} /\ b \in Nat \ {0}
      /\ a <= b /\ b <= width
  BY TransportBlockAssumption
<1>3. 132 * width * 2165 * layers < Power[30] /\ Power[30] \in Nat
  <2>1. RE_PER_RB = 132
    BY DEF RE_PER_RB
  <2> QED BY <2>1, ProductsFit, PowerValues
<1>4. /\ n_info(mcs, layers, a) = (132 * a * eff * layers) \div 1024
      /\ n_info(mcs, layers, b) = (132 * b * eff * layers) \div 1024
  BY DEF n_info, RE_PER_RB
<1> HIDE DEF eff
<1>5. /\ 132 * a * eff \in Nat /\ 132 * b * eff \in Nat /\ 132 * width * 2165 \in Nat
      /\ 132 * a * eff <= 132 * b * eff /\ 132 * b * eff <= 132 * width * 2165
  <2>1. a * eff \in Nat /\ b * eff \in Nat /\ a * eff <= b * eff
    BY <1>1, <1>2
  <2>2. b * eff <= b * 2165 /\ b * 2165 <= width * 2165
    BY <1>1, <1>2
  <2>3. /\ 132 * a * eff = 132 * (a * eff) /\ 132 * b * eff = 132 * (b * eff)
        /\ 132 * width * 2165 = 132 * (width * 2165)
    BY <1>1, <1>2
  <2> QED BY <1>2, <2>1, <2>2, <2>3
<1> DEFINE x == 132 * a * eff
           y == 132 * b * eff
           z == 132 * width * 2165
<1>6. x \in Nat /\ y \in Nat /\ z \in Nat /\ x <= y /\ y <= z
  BY <1>5
<1> HIDE DEF x, y, z
<1>7. /\ x * layers \in Nat /\ y * layers \in Nat /\ z * layers \in Nat
      /\ x * layers <= y * layers /\ y * layers <= z * layers
  BY <1>2, <1>6
<1>8. z * layers < Power[30]
  BY <1>3 DEF z
<1>9. /\ n_info(mcs, layers, a) = (x * layers) \div 1024
      /\ n_info(mcs, layers, b) = (y * layers) \div 1024
  BY <1>4 DEF x, y
<1> QED BY <1>3, <1>7, <1>8, <1>9

\* For any table entry and layers, a transport block has at most the bits its resources
\* carry, with the rounding to 24 bits and to whole bytes in each code block
\* (tbs_table_lookup).
THEOREM BlocksFitTheirResources == Spec => []FitsItsResources
<1>1. ASSUME SearchInv PROVE FitsItsResources
  <2> DEFINE mcs == request.mcs
             layers == request.layers
             n == n_info(mcs, layers, low)
  <2>1. mcs \in Mcs /\ layers \in Layers /\ request.max_rbs \in Widths
    BY <1>1 DEF SearchInv, TypeOK
  <2>2. low \in 1..request.max_rbs /\ low \in low..request.max_rbs
    BY <1>1, BoundsType DEF SearchInv
  <2> HIDE DEF mcs, layers
  <2>3. n \in Nat /\ n < Power[30]
    BY <2>1, <2>2, InfoGrows
  <2>4. low # 0 /\ layers # 0
    BY <2>1, <2>2, TransportBlockAssumption
  <2>5. Tbs(low) = IF n <= 3824 THEN SmallTbs(n) ELSE LargeTbs(n)
    BY <2>4 DEF Tbs, tbs_table_lookup, mcs, layers
  <2> HIDE DEF n
  <2>6. CASE n <= 3824
    <3>1. n \in Nat /\ n <= 3824
      BY <2>3, <2>6
    <3>2. SmallTbs(n) \in Nat /\ 8 * SmallTbs(n) <= Larger(24, n) + 7
      BY <3>1, SmallTbsFits
    <3>3. 8 * Tbs(low) <= Larger(24, n) + 8 * ((n + 8423) \div 8424) + 7
      BY <2>3, <2>5, <2>6, <3>2 DEF Larger
    <3> QED BY <3>3 DEF FitsItsResources, n, mcs, layers
  <2>7. CASE n > 3824
    <3>1. 8 * LargeTbs(n) <= n + 8 * ((n + 8423) \div 8424) + 7
      BY <2>3, <2>7, LargeTbsFits
    <3>2. Tbs(low) = LargeTbs(n) /\ Larger(24, n) = n
      BY <2>3, <2>5, <2>7 DEF Larger
    <3>3. 8 * Tbs(low) <= Larger(24, n) + 8 * ((n + 8423) \div 8424) + 7
      BY <3>1, <3>2
    <3> QED BY <3>3 DEF FitsItsResources, n, mcs, layers
  <2> QED BY <2>3, <2>6, <2>7
<1> QED BY <1>1, InitSearchInv, NextSearchInv, PTL DEF Spec

\* In a cell of at most 3824 bits, for any request, the search returns the least number
\* of resource blocks that holds the bytes, or the whole cell (min_rbs_for_tbs).
THEOREM SmallBlocksAreMinimal == Spec => []MinimalForSmallBlocks
<1>1. ASSUME SearchInv PROVE MinimalForSmallBlocks
  <2> DEFINE mcs == request.mcs
             layers == request.layers
             width == request.max_rbs
  <2> SUFFICES ASSUME pc = "done", n_info(mcs, layers, width) <= 3824
               PROVE  /\ \A n \in Enough : low <= n
                      /\ Enough = {} => low = width
    BY DEF MinimalForSmallBlocks
  <2>1. mcs \in Mcs /\ layers \in Layers /\ width \in Widths /\ request.bytes \in Nat
    <3>1. request \in [mcs : Mcs, layers : Layers, bytes : Sizes, max_rbs : Widths]
      BY <1>1 DEF SearchInv, TypeOK
    <3>2. /\ request.mcs \in Mcs /\ request.layers \in Layers /\ request.max_rbs \in Widths
          /\ request.bytes \in Sizes
      BY <3>1
    <3>3. \A bytes \in Sizes : bytes \in Nat
      BY TransportBlockAssumption
    <3> QED BY <3>2, <3>3
  <2>2. low \in 1..width /\ width \in Nat /\ low \in Nat
    BY <1>1, BoundsType DEF SearchInv
  <2> HIDE DEF mcs, layers, width
  <2>3. ASSUME NEW a \in 1..width, NEW b \in a..width
        PROVE  Tbs(a) \in Nat /\ Tbs(b) \in Nat /\ Tbs(a) <= Tbs(b)
    <3> DEFINE x == n_info(mcs, layers, a)
               y == n_info(mcs, layers, b)
               z == n_info(mcs, layers, width)
    <3>1. a # 0 /\ b # 0 /\ layers # 0 /\ b \in 1..width /\ width \in b..width
      BY <2>1, <2>2, <2>3, TransportBlockAssumption
    <3>2. x \in Nat /\ y \in Nat /\ x <= y
      BY <2>1, <2>3, InfoGrows
    <3>3. y <= z /\ z \in Nat
      BY <2>1, <3>1, InfoGrows
    <3>4. x \in Nat /\ y \in Nat /\ x <= y /\ x <= 3824 /\ y <= 3824
      <4>1. z <= 3824
        BY DEF mcs, layers, width
      <4> HIDE DEF x, y, z
      <4> QED BY <3>2, <3>3, <4>1
    <3>5. Tbs(a) = SmallTbs(x) /\ Tbs(b) = SmallTbs(y)
      <4>1. /\ Tbs(a) = IF x <= 3824 THEN SmallTbs(x) ELSE LargeTbs(x)
            /\ Tbs(b) = IF y <= 3824 THEN SmallTbs(y) ELSE LargeTbs(y)
        BY <3>1 DEF Tbs, tbs_table_lookup, mcs, layers
      <4> HIDE DEF x, y
      <4> QED BY <3>4, <4>1
    <3> HIDE DEF x, y, z
    <3>6. SmallTbs(x) \in Nat /\ SmallTbs(y) \in Nat /\ SmallTbs(x) <= SmallTbs(y)
      BY <3>4, SmallTbsGrows
    <3> QED BY <3>5, <3>6
  <2>4. ASSUME NEW n \in Enough PROVE low <= n
    <3>1. n \in 1..width /\ Tbs(n) >= request.bytes
      BY <2>4 DEF Enough, width
    <3> SUFFICES ASSUME n < low PROVE FALSE
      BY <2>2, <3>1
    <3>2. low - 1 \in n..width /\ low # 1
      BY <2>2, <3>1
    <3>3. ~(Tbs(low - 1) >= request.bytes)
      BY <1>1, <3>2 DEF SearchInv
    <3>4. Tbs(n) <= Tbs(low - 1) /\ Tbs(n) \in Nat /\ Tbs(low - 1) \in Nat
      BY <2>3, <3>1, <3>2
    <3> QED BY <2>1, <3>1, <3>3, <3>4
  <2>5. Enough = {} => low = width
    <3>1. low = high /\ (high = request.max_rbs \/ Tbs(high) >= request.bytes)
      BY <1>1 DEF SearchInv
    <3>2. low # width => low \in Enough
      BY <2>2, <3>1 DEF Enough, width
    <3> QED BY <3>2
  <2> QED BY <2>4, <2>5 DEF width
<1> QED BY <1>1, InitSearchInv, NextSearchInv, PTL DEF Spec
=============================================================================
