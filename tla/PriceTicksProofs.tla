--------------------------- MODULE PriceTicksProofs ---------------------------
(***************************************************************************)
(* Theorems about the prices in single precision: every tick has its own   *)
(* level and its own text, for books of far more levels than a run can     *)
(* step through.  The roundings of the price and of the product undo each  *)
(* other as long as a tenth is at least sixteen units of the last place.   *)
(***************************************************************************)
EXTENDS PriceTicks, TLAPS

(* Books whose tenths have a weight of sixteen units at least, or of 128.  *)
ExactBook == 10 * 2^20
LegibleBook == 10 * 2^17

-----------------------------------------------------------------------------
(* The scale of a price. *)

Power(s) == 2^s

LEMMA Powers ==
  /\ Power(0) = 1 /\ Power(1) = 2 /\ Power(2) = 4 /\ Power(3) = 8 /\ Power(4) = 16
  /\ Power(5) = 32 /\ Power(6) = 64 /\ Power(7) = 128 /\ Power(8) = 256
  /\ Power(9) = 512 /\ Power(10) = 1024 /\ Power(11) = 2048 /\ Power(12) = 4096
  /\ Power(13) = 8192 /\ Power(14) = 16384 /\ Power(15) = 32768
  /\ Power(16) = 65536 /\ Power(17) = 131072 /\ Power(18) = 262144
  /\ Power(19) = 524288 /\ Power(20) = 1048576 /\ Power(21) = 2097152
  /\ Power(22) = 4194304 /\ Power(23) = 8388608 /\ Power(24) = 16777216
  /\ Power(25) = 33554432 /\ Power(26) = 67108864 /\ Power(27) = 134217728
BY SMT DEF Power

LEMMA ScalePowers ==
  ASSUME NEW s \in 0 .. 27
  PROVE  /\ Power(s) \in Nat
         /\ s < 4 => Power(s) <= 8
         /\ s < 7 => Power(s) <= 64
         /\ s >= 4 => Power(s) = 16 * (Power(s) \div 16)
         /\ s >= 7 => Power(s) >= 128
<1>1. \/ s = 0 \/ s = 1 \/ s = 2 \/ s = 3 \/ s = 4 \/ s = 5 \/ s = 6
      \/ s = 7 \/ s = 8 \/ s = 9 \/ s = 10 \/ s = 11 \/ s = 12 \/ s = 13
      \/ s = 14 \/ s = 15 \/ s = 16 \/ s = 17 \/ s = 18 \/ s = 19 \/ s = 20
      \/ s = 21 \/ s = 22 \/ s = 23 \/ s = 24 \/ s = 25 \/ s = 26 \/ s = 27
  BY SMT
<1>2. PICK p : p = Power(s)
  BY SMT
<1>3. /\ p \in Nat
      /\ s < 4 => p <= 8
      /\ s < 7 => p <= 64
      /\ s >= 4 => p = 16 * (p \div 16)
      /\ s >= 7 => p >= 128
  BY ONLY SMT, <1>1, <1>2, Powers
<1> QED BY ONLY SMT, <1>2, <1>3

LEMMA SmallPowers ==
  ASSUME NEW b \in 0 .. 7
  PROVE  /\ Power(b) \in Nat \ {0} /\ Power(b) <= 128
         /\ \A c \in 0 .. b - 1 : Power(c) \in Nat \ {0} /\ 2 * Power(c) <= Power(b)
<1>1. \A c \in 0 .. 7 : c = 0 \/ c = 1 \/ c = 2 \/ c = 3 \/ c = 4 \/ c = 5 \/ c = 6 \/ c = 7
  BY SMT
<1>2. \A c \in 0 .. 7 : Power(c) \in Nat \ {0} /\ Power(c) <= 128
  BY ONLY SMT, <1>1, Powers
<1>3. ASSUME NEW c \in 0 .. b - 1 PROVE 2 * Power(c) <= Power(b)
  BY SMT, <1>1, Powers
<1> QED BY SMT, <1>2, <1>3

Fits(n) == 10 * 2^(Precision - 1) <= n /\ n < 10 * 2^Precision

Scales(k, s) == Fits(k * Power(s))

LEMMA FitsBounds ==
  ASSUME NEW n \in Int
  PROVE  Fits(n) <=> 83886080 <= n /\ n < 167772160
BY SMT DEF Fits, Precision

LEMMA ScaleFound ==
  ASSUME NEW k \in Nat, 0 < k, k < ExactBook
  PROVE  \E s \in 0 .. 27 : Scales(k, s)
<1>1. \/ Fits(k * 16) \/ Fits(k * 32) \/ Fits(k * 64) \/ Fits(k * 128)
      \/ Fits(k * 256) \/ Fits(k * 512) \/ Fits(k * 1024) \/ Fits(k * 2048)
      \/ Fits(k * 4096) \/ Fits(k * 8192) \/ Fits(k * 16384) \/ Fits(k * 32768)
      \/ Fits(k * 65536) \/ Fits(k * 131072) \/ Fits(k * 262144) \/ Fits(k * 524288)
      \/ Fits(k * 1048576) \/ Fits(k * 2097152) \/ Fits(k * 4194304) \/ Fits(k * 8388608)
      \/ Fits(k * 16777216) \/ Fits(k * 33554432) \/ Fits(k * 67108864) \/ Fits(k * 134217728)
  <2>1. k < 10485760
    BY SMT DEF ExactBook
  <2> QED BY SMT, <2>1 DEF Fits, Precision
<1>2. \/ Scales(k, 4) \/ Scales(k, 5) \/ Scales(k, 6) \/ Scales(k, 7)
      \/ Scales(k, 8) \/ Scales(k, 9) \/ Scales(k, 10) \/ Scales(k, 11)
      \/ Scales(k, 12) \/ Scales(k, 13) \/ Scales(k, 14) \/ Scales(k, 15)
      \/ Scales(k, 16) \/ Scales(k, 17) \/ Scales(k, 18) \/ Scales(k, 19)
      \/ Scales(k, 20) \/ Scales(k, 21) \/ Scales(k, 22) \/ Scales(k, 23)
      \/ Scales(k, 24) \/ Scales(k, 25) \/ Scales(k, 26) \/ Scales(k, 27)
  BY ONLY SMT, <1>1, Powers DEF Scales
<1> QED BY ONLY SMT, <1>2

(* A price has a mantissa of 24 bits, and a tenth of it the weight of its  *)
(* scale: sixteen units of the last place, or 128 in a smaller book.       *)
LEMMA PriceScale ==
  ASSUME NEW k \in Nat, 0 < k, k < ExactBook
  PROVE  \E s \in 0 .. 27, p \in Nat :
           /\ p = 2^s
           /\ PriceOf(k) = [mantissa |-> RoundHalfEven(k * p, 10), scale |-> s]
           /\ Fits(k * p)
           /\ p = 16 * (p \div 16)
           /\ k < LegibleBook => p >= 128
<1>1. PICK s : s = CHOOSE t \in 0 .. 27 : Scales(k, t)
  BY Zenon
<1>2. s \in 0 .. 27 /\ Scales(k, s)
  BY Zenon, <1>1, ScaleFound
<1>3. PICK p \in Nat : p = Power(s)
  BY Zenon, <1>2, ScalePowers
<1>4. Fits(k * p)
  BY Zenon, <1>2, <1>3 DEF Scales
<1>5. /\ s < 4 => p <= 8
      /\ s < 7 => p <= 64
      /\ s >= 4 => p = 16 * (p \div 16)
      /\ s >= 7 => p >= 128
  BY Zenon, <1>2, <1>3, ScalePowers
<1>6. p > 8 /\ (k < LegibleBook => p > 64)
  <2>1. PICK n \in Nat : n = k * p
    BY SMT
  <2>2. 83886080 <= n
    BY ONLY SMT, <1>4, <2>1, FitsBounds
  <2>3. p <= 8 => n <= k * 8
    BY SMT, <2>1
  <2>4. p <= 64 => n <= k * 64
    BY SMT, <2>1
  <2>5. k < 10485760 /\ (k < LegibleBook => k < 1310720)
    BY SMT DEF ExactBook, LegibleBook
  <2> QED BY SMT, <2>2, <2>3, <2>4, <2>5
<1>7. p = 16 * (p \div 16) /\ (k < LegibleBook => p >= 128)
  BY SMT, <1>2, <1>5, <1>6
<1>8. p = 2^s
  BY Zenon, <1>3 DEF Power
<1>9. PriceOf(k) = [mantissa |-> RoundHalfEven(k * p, 10), scale |-> s]
  <2>1. k # 0
    BY SMT
  <2>2. s = CHOOSE t \in 0 .. 27 : 10 * 2^(Precision - 1) <= k * 2^t /\ k * 2^t < 10 * 2^Precision
    BY Zenon, <1>1 DEF Scales, Fits, Power
  <2> QED BY Zenon, <1>8, <2>1, <2>2 DEF PriceOf
<1> QED BY Zenon, <1>2, <1>4, <1>7, <1>8, <1>9

-----------------------------------------------------------------------------
(* The roundings. *)

(* What the quotient and the remainder of the roundings are. *)
LEMMA Quotient ==
  ASSUME NEW n \in Int, NEW d \in Nat \ {0}
  PROVE  /\ n \div d \in Int
         /\ (n \div d) * d <= n /\ n < (n \div d) * d + d
         /\ n % d = n - (n \div d) * d
<1>1. PICK q \in Int : q = n \div d
  BY SMT
<1>2. q * d <= n /\ n < (q + 1) * d
  BY SMT, <1>1
<1>3. n % d = n - q * d
  <2>1. PICK r : r = n - q * d
    BY Zenon
  <2>2. r \in 0 .. d - 1 /\ n = q * d + r
    BY SMT, <1>2, <2>1
  <2>3. n % d = r
    BY SMT, <2>2
  <2> QED BY Zenon, <2>1, <2>3
<1>4. (q + 1) * d = q * d + d
  BY SMT
<1>5. n < q * d + d
  BY Zenon, <1>2, <1>4
<1> QED BY Zenon, <1>1, <1>2, <1>3, <1>5

LEMMA QuotientAtLeast ==
  ASSUME NEW n \in Int, NEW d \in Nat \ {0}, NEW q \in Int, q * d <= n
  PROVE  q <= n \div d
BY SMT

LEMMA QuotientBelow ==
  ASSUME NEW n \in Int, NEW d \in Nat \ {0}, NEW q \in Int, n < q * d
  PROVE  n \div d < q
BY SMT

LEMMA QuotientIs ==
  ASSUME NEW n \in Int, NEW d \in Nat \ {0}, NEW q \in Int, q * d <= n, n < q * d + d
  PROVE  n \div d = q
BY SMT

(* The nearest multiple is at most half a unit away. *)
LEMMA NearestMultiple ==
  ASSUME NEW n \in Int, NEW d \in Nat \ {0}
  PROVE  /\ RoundHalfEven(n, d) \in Int
         /\ 2 * (RoundHalfEven(n, d) * d - n) <= d
         /\ 2 * (n - RoundHalfEven(n, d) * d) <= d
<1>1. PICK q \in Int, r \in Int : q = n \div d /\ r = n % d
  BY SMT, Quotient
<1>2. n = q * d + r /\ 0 <= r /\ r < d
  BY SMT, <1>1, Quotient
<1>3. PICK m : m = RoundHalfEven(n, d)
  BY Zenon
<1>4. /\ m = q \/ m = q + 1
      /\ 2 * r < d => m = q
      /\ m = q => 2 * r < d \/ 2 * r = d
  <2>1. m = IF 2 * r < d \/ (2 * r = d /\ q % 2 = 0) THEN q ELSE q + 1
    BY Zenon, <1>1, <1>3 DEF RoundHalfEven
  <2>2. CASE 2 * r < d \/ (2 * r = d /\ q % 2 = 0)
    BY Zenon, <2>1, <2>2
  <2>3. CASE ~ (2 * r < d \/ (2 * r = d /\ q % 2 = 0))
    <3>1. m = q + 1 /\ m # q
      BY SMT, <2>1, <2>3
    <3> QED BY Zenon, <2>3, <3>1
  <2> QED BY Zenon, <2>2, <2>3
<1>5. (q + 1) * d = q * d + d
  BY SMT
<1> QED BY SMT, <1>2, <1>3, <1>4, <1>5

Dropped(n, b) ==
  n \div Power(b) < 2^Precision /\ \A c \in 0 .. b - 1 : n \div Power(c) >= 2^Precision

(* The number of bits that do not fit a float. *)
LEMMA FloatDrops ==
  ASSUME NEW n \in Nat, NEW b \in 0 .. 7, Dropped(n, b)
  PROVE  RoundToFloat(n) = RoundHalfEven(n, Power(b)) * Power(b)
<1>1. PICK d : d = CHOOSE c \in 0 .. 7 : Dropped(n, c)
  BY Zenon
<1>2. d \in 0 .. 7 /\ Dropped(n, d)
  BY Zenon, <1>1
<1>3. ASSUME NEW x \in 0 .. 7, NEW y \in 0 .. 7, Dropped(n, x), Dropped(n, y), x < y
      PROVE  FALSE
  <2>1. x \in 0 .. y - 1
    BY SMT, <1>3
  <2>2. PICK u, v : u = n \div Power(x) /\ v = 2^Precision
    BY Zenon
  <2>3. u < v /\ u >= v
    BY Zenon, <1>3, <2>1, <2>2 DEF Dropped
  <2>4. v \in Int
    BY ONLY SMT, <2>2 DEF Precision
  <2>5. u \in Int
    <3>1. PICK p \in Nat \ {0} : p = Power(x)
      BY SMT, SmallPowers
    <3>2. n \in Int
      BY SMT
    <3>3. n \div p \in Int
      BY Zenon, <3>2, Quotient
    <3> QED BY Zenon, <2>2, <3>1, <3>3
  <2> QED BY ONLY SMT, <2>3, <2>4, <2>5
<1>4. d = b
  BY SMT, <1>2, <1>3
<1> QED BY Zenon, <1>1, <1>4 DEF RoundToFloat, Dropped, Power

(* n has 24 bits and b more. *)
HasBits(n, b) == n < 16777216 * Power(b) /\ (b = 0 \/ n >= 8388608 * Power(b))

LEMMA FloatRounds ==
  ASSUME NEW n \in Nat, NEW b \in 0 .. 7, HasBits(n, b)
  PROVE  RoundToFloat(n) = RoundHalfEven(n, Power(b)) * Power(b)
<1>1. PICK v : v = 2^Precision
  BY Zenon
<1>2. v = 16777216
  BY ONLY SMT, <1>1 DEF Precision
<1>3. PICK p \in Nat \ {0} : p = Power(b)
  BY SMT, SmallPowers
<1>4. n < v * p /\ (b = 0 \/ 2 * n >= v * p)
  BY SMT, <1>2, <1>3 DEF HasBits
<1>5. n \div p < v
  BY SMT, <1>2, <1>4, QuotientBelow
<1>6. ASSUME NEW c \in 0 .. b - 1 PROVE n \div Power(c) >= v
  <2>1. PICK h \in Nat \ {0} : h = Power(c) /\ 2 * h <= p
    BY SMT, <1>3, SmallPowers
  <2>2. v * h <= n
    BY SMT, <1>2, <1>4, <2>1
  <2> QED BY SMT, <1>2, <2>1, <2>2, QuotientAtLeast
<1>7. Dropped(n, b)
  BY Zenon, <1>1, <1>3, <1>5, <1>6 DEF Dropped
<1> QED BY Zenon, <1>7, FloatDrops

OfSevenBitsMore(n) == n < 128 * 2^Precision

(* An integer of 31 bits is at most half of seven bits away from a float.  *)
LEMMA FloatNear ==
  ASSUME NEW n \in Nat, OfSevenBitsMore(n)
  PROVE  RoundToFloat(n) \in Int /\ n - RoundToFloat(n) \in -64 .. 64
<1>1. \/ HasBits(n, 0) \/ HasBits(n, 1) \/ HasBits(n, 2) \/ HasBits(n, 3)
      \/ HasBits(n, 4) \/ HasBits(n, 5) \/ HasBits(n, 6) \/ HasBits(n, 7)
  <2>1. n < 2147483648
    BY SMT DEF OfSevenBitsMore, Precision
  <2> QED BY SMT, <2>1, Powers DEF HasBits
<1>2. PICK b \in 0 .. 7 : HasBits(n, b)
  BY ONLY SMT, <1>1
<1>3. PICK p \in Nat \ {0} : p = Power(b) /\ p <= 128
  BY SMT, SmallPowers
<1>4. PICK m : m = RoundHalfEven(n, p)
  BY Zenon
<1>5. m \in Int /\ 2 * (m * p - n) <= p /\ 2 * (n - m * p) <= p
  BY SMT, <1>4, NearestMultiple
<1>6. RoundToFloat(n) = m * p
  BY Zenon, <1>2, <1>3, <1>4, FloatRounds
<1>7. PICK f \in Int : f = m * p
  BY SMT, <1>5
<1>8. n - f \in -64 .. 64
  <2>1. 2 * (f - n) <= p /\ 2 * (n - f) <= p
    BY Zenon, <1>5, <1>7
  <2> QED BY SMT, <1>3, <2>1
<1> QED BY Zenon, <1>6, <1>7, <1>8

LEMMA FloatZero == RoundToFloat(0) = 0
<1>1. HasBits(0, 0) /\ Power(0) = 1
  BY SMT, Powers DEF HasBits
<1>2. RoundToFloat(0) = RoundHalfEven(0, 1) * 1
  <2>1. 0 \in Nat /\ 0 \in 0 .. 7
    BY SMT
  <2> QED BY Zenon, <1>1, <2>1, FloatRounds
<1>3. RoundHalfEven(0, 1) = 0
  BY SMT DEF RoundHalfEven
<1> QED BY SMT, <1>2, <1>3

-----------------------------------------------------------------------------
(* The index of a level. *)

(* Ten times a mantissa is next to the tenths it stands for, *)
LEMMA TenMantissas ==
  ASSUME NEW y \in Nat
  PROVE  /\ RoundHalfEven(16 * y, 10) \in Int
         /\ RoundHalfEven(16 * y, 10) * 10 - 16 * y \in {-4, -2, 0, 2, 4}
BY SMT DEF RoundHalfEven

LEMMA NearMultiples ==
  ASSUME NEW y \in Nat, NEW n \in Nat, n - 16 * y \in {-4, -2, 0, 2, 4}
  PROVE  /\ RoundHalfEven(n, 8) * 8 = 16 * y
         /\ RoundHalfEven(n, 16) * 16 = 16 * y
<1>1. RoundHalfEven(n, 8) = 2 * y
  BY SMT DEF RoundHalfEven
<1>2. RoundHalfEven(n, 16) = y
  BY SMT DEF RoundHalfEven
<1> QED BY SMT, <1>1, <1>2

(* and the rounding of the product to a float makes up for it.             *)
LEMMA ProductIsExact ==
  ASSUME NEW y \in Nat, Fits(16 * y), NEW n \in Nat, n - 16 * y \in {-4, -2, 0, 2, 4}
  PROVE  RoundToFloat(n) = 16 * y
<1>1. 83886080 - 4 <= n /\ n < 167772160 + 4
  BY SMT DEF Fits, Precision
<1>2. Power(3) = 8 /\ Power(4) = 16
  BY SMT, Powers
<1>3. HasBits(n, 3) \/ HasBits(n, 4)
  BY SMT, <1>1, <1>2 DEF HasBits
<1>4. 3 \in 0 .. 7 /\ 4 \in 0 .. 7
  BY SMT
<1>5. CASE HasBits(n, 3)
  BY SMT, <1>2, <1>4, <1>5, FloatRounds, NearMultiples
<1>6. CASE HasBits(n, 4)
  BY SMT, <1>2, <1>4, <1>6, FloatRounds, NearMultiples
<1> QED BY SMT, <1>3, <1>5, <1>6

(* The mantissa of the price of tick k, its scale and the weight of a tenth. *)
LEMMA PriceMantissa ==
  ASSUME NEW k \in Nat, 0 < k, k < ExactBook
  PROVE  \E s \in Nat, p \in Nat \ {0}, m \in Nat :
           /\ p = 2^s /\ PriceOf(k) = [mantissa |-> m, scale |-> s]
           /\ m * 10 - k * p \in {-4, -2, 0, 2, 4}
           /\ RoundToFloat(m * 10) = k * p
           /\ m <= 2^Precision
           /\ k < LegibleBook => p >= 128
<1>1. PICK s \in 0 .. 27, p \in Nat :
           /\ p = 2^s
           /\ PriceOf(k) = [mantissa |-> RoundHalfEven(k * p, 10), scale |-> s]
           /\ Fits(k * p)
           /\ p = 16 * (p \div 16)
           /\ k < LegibleBook => p >= 128
  BY Zenon, PriceScale
<1>2. PICK w \in Nat : w = p \div 16 /\ p = 16 * w
  BY SMT, <1>1
<1>3. PICK y \in Nat : y = k * w
  BY SMT
<1>4. k * p = 16 * y
  BY SMT, <1>2, <1>3
<1>5. PICK m : m = RoundHalfEven(16 * y, 10)
  BY Zenon
<1>6. m \in Int /\ m * 10 - 16 * y \in {-4, -2, 0, 2, 4}
  BY Zenon, <1>5, TenMantissas
<1>7. Fits(16 * y)
  BY Zenon, <1>1, <1>4
<1>8. 83886080 <= 16 * y /\ 16 * y < 167772160
  BY SMT, <1>7 DEF Fits, Precision
<1>9. m \in Nat /\ m <= 2^Precision /\ m * 10 \in Nat
  BY SMT, <1>6, <1>8 DEF Precision
<1>10. RoundToFloat(m * 10) = 16 * y
  BY SMT, <1>6, <1>7, <1>9, ProductIsExact
<1>11. p # 0
  BY SMT, <1>2, <1>3, <1>8
<1>12. s \in Nat /\ p \in Nat \ {0}
  BY SMT, <1>1, <1>11
<1>13. /\ PriceOf(k) = [mantissa |-> m, scale |-> s]
       /\ m * 10 - k * p \in {-4, -2, 0, 2, 4}
       /\ RoundToFloat(m * 10) = k * p
  BY Zenon, <1>1, <1>4, <1>5, <1>6, <1>10
<1> QED BY Zenon, <1>1, <1>9, <1>12, <1>13

LEMMA IndexOfTick ==
  ASSUME NEW k \in Nat, k < ExactBook
  PROVE  PriceIndex(PriceOf(k)) = k
<1>1. CASE k = 0
  <2>1. PriceOf(k) = [mantissa |-> 0, scale |-> 0]
    BY Zenon, <1>1 DEF PriceOf
  <2>2. PriceIndex(PriceOf(k)) = RoundToFloat(0 * 10) \div 2^0
    BY SMT, <2>1 DEF PriceIndex
  <2>3. 0 * 10 = 0 /\ 0 \div 2^0 = 0
    BY SMT
  <2> QED BY Zenon, <1>1, <2>2, <2>3, FloatZero
<1>2. CASE 0 < k
  <2>1. PICK s \in Nat, p \in Nat \ {0}, m \in Nat :
          /\ p = 2^s /\ PriceOf(k) = [mantissa |-> m, scale |-> s]
          /\ RoundToFloat(m * 10) = k * p
    BY Zenon, <1>2, PriceMantissa
  <2>2. PriceIndex(PriceOf(k)) = (k * p) \div p
    <3>1. PriceOf(k).mantissa = m /\ PriceOf(k).scale = s
      BY SMT, <2>1
    <3> QED BY Zenon, <2>1, <3>1 DEF PriceIndex
  <2>3. k * p \in Int /\ k \in Int /\ k * p <= k * p /\ k * p < k * p + p
    BY SMT, <2>1
  <2>4. (k * p) \div p = k
    BY SMT, <2>3, QuotientIs
  <2> QED BY Zenon, <2>2, <2>4
<1> QED BY SMT, <1>1, <1>2

-----------------------------------------------------------------------------
(* The text of a price. *)

(* What is left of a price of k tenths without its units: t tenths, but    *)
(* for the rounding of the price.                                          *)
IsPrice(m, j, t, p) == p >= 128 /\ m * 10 - (10 * j + t) * p \in {-4, -2, 0, 2, 4}

Splits(m, j, t, p) ==
  /\ m \div p = j
  /\ m % p \in 0 .. m
  /\ (m % p) * 100 - 10 * (t * p) \in -40 .. 40
  /\ t = 0 => m % p = 0

LEMMA TenthsOfPrice ==
  ASSUME NEW j \in Nat, NEW t \in 0 .. 9, NEW p \in Nat, NEW m \in Nat,
         IsPrice(m, j, t, p)
  PROVE  Splits(m, j, t, p)
<1>0. p >= 128
  BY Zenon DEF IsPrice
<1>1. PICK u \in Nat, v \in Nat : u = j * p /\ v = t * p
  BY SMT
<1>2. m * 10 - (10 * u + v) \in {-4, -2, 0, 2, 4}
  <2>1. (10 * j + t) * p = 10 * u + v
    BY SMT, <1>1
  <2> QED BY Zenon, <2>1 DEF IsPrice
<1>3. v <= 9 * p /\ (t = 0 => v = 0) /\ (t # 0 => v >= p)
  BY SMT, <1>0, <1>1
<1>4. u <= m /\ m < u + p
  BY SMT, <1>0, <1>2, <1>3
<1>5. m \div p = j
  BY SMT, <1>0, <1>1, <1>4, QuotientIs
<1>6. m % p = m - u
  <2>1. m \in Int /\ p \in Nat \ {0}
    BY SMT, <1>0
  <2>2. m % p = m - (m \div p) * p
    BY Zenon, <2>1, Quotient
  <2> QED BY Zenon, <1>1, <1>5, <2>2
<1>7. (m - u) * 100 - 10 * v \in -40 .. 40 /\ m - u \in 0 .. m /\ (t = 0 => m - u = 0)
  BY SMT, <1>0, <1>2, <1>3, <1>4
<1> QED BY Zenon, <1>1, <1>5, <1>6, <1>7 DEF Splits

(* The hundredths of such a rest are those of the tenths or one less.      *)
LEMMA HundredthsOfRest ==
  ASSUME NEW t \in 0 .. 9, NEW p \in Nat, p >= 128,
         NEW f \in Int, f - 10 * (t * p) \in -104 .. 104, t = 0 => f = 0
  PROVE  /\ f \div p \in 0 .. 99
         /\ 10 * t - f \div p \in {0, 1}
<1>1. PICK v \in Nat : v = t * p
  BY SMT
<1>2. p \in Nat \ {0} /\ 10 * t \in Int /\ 10 * t - 1 \in Int
  BY SMT
<1>3. (10 * t) * p = 10 * v /\ (10 * t - 1) * p = 10 * v - p
  BY SMT, <1>1
<1>4. f \div p = 10 * t \/ (t # 0 /\ f \div p = 10 * t - 1)
  <2>1. CASE f >= 10 * v
    <3>1. (10 * t) * p <= f /\ f < (10 * t) * p + p
      BY SMT, <1>1, <1>3, <2>1
    <3> QED BY Zenon, <1>2, <3>1, QuotientIs
  <2>2. CASE f < 10 * v
    <3>1. t # 0
      BY SMT, <1>1, <2>2
    <3>2. (10 * t - 1) * p <= f /\ f < (10 * t - 1) * p + p
      BY SMT, <1>1, <1>3, <2>2
    <3> QED BY Zenon, <1>2, <3>1, <3>2, QuotientIs
  <2> QED BY SMT, <1>1, <2>1, <2>2
<1> QED BY SMT, <1>4

LEMMA TextOfTick ==
  ASSUME NEW k \in Nat, k < LegibleBook
  PROVE  /\ FracPart(PriceOf(k)) \in 0 .. 99
         /\ 10 * k - (100 * IntPart(PriceOf(k)) + FracPart(PriceOf(k))) \in {0, 1}
<1>1. CASE k = 0
  <2>1. PriceOf(k) = [mantissa |-> 0, scale |-> 0]
    BY Zenon, <1>1 DEF PriceOf
  <2>2. /\ FracPart(PriceOf(k)) = RoundToFloat((0 % 2^0) * 100) \div 2^0
        /\ IntPart(PriceOf(k)) = 0 \div 2^0
    BY SMT, <2>1 DEF FracPart, IntPart
  <2>3. (0 % 2^0) * 100 = 0 /\ 0 \div 2^0 = 0
    BY SMT
  <2>4. FracPart(PriceOf(k)) = 0 /\ IntPart(PriceOf(k)) = 0
    BY Zenon, <2>2, <2>3, FloatZero
  <2> QED BY SMT, <1>1, <2>4
<1>2. CASE 0 < k
  <2>1. k < ExactBook
    BY SMT DEF LegibleBook, ExactBook
  <2>2. PICK s \in Nat, p \in Nat \ {0}, m \in Nat :
          /\ p = 2^s /\ PriceOf(k) = [mantissa |-> m, scale |-> s]
          /\ m * 10 - k * p \in {-4, -2, 0, 2, 4}
          /\ m <= 2^Precision
          /\ p >= 128
    BY Zenon, <1>2, <2>1, PriceMantissa
  <2>3. PICK j \in Nat, t \in 0 .. 9 : k = 10 * j + t
    <3>1. k = 10 * (k \div 10) + (k % 10) /\ k \div 10 \in Nat /\ k % 10 \in 0 .. 9
      BY SMT
    <3> QED BY Zenon, <3>1
  <2>4. Splits(m, j, t, p)
    <3>1. IsPrice(m, j, t, p) /\ p \in Nat
      BY Zenon, <2>2, <2>3 DEF IsPrice
    <3> QED BY Zenon, <3>1, TenthsOfPrice
  <2>5. p \in Nat /\ p >= 128
    BY SMT, <2>2
  <2>6. PICK r \in 0 .. m : /\ r = m % p /\ m \div p = j
                            /\ r * 100 - 10 * (t * p) \in -40 .. 40
                            /\ t = 0 => r = 0
    BY Zenon, <2>4 DEF Splits
  <2>7. r * 100 \in Nat
    BY SMT, <2>6
  <2>8. OfSevenBitsMore(r * 100)
    BY SMT, <2>2, <2>6 DEF OfSevenBitsMore, Precision
  <2>9. PICK f \in Int : f = RoundToFloat(r * 100) /\ r * 100 - f \in -64 .. 64
    BY Zenon, <2>7, <2>8, FloatNear
  <2>10. t = 0 => f = 0
    <3>1. 0 * 100 = 0
      BY SMT
    <3> QED BY Zenon, <2>6, <2>9, <3>1, FloatZero
  <2>11. f - 10 * (t * p) \in -104 .. 104
    <3>1. PICK v \in Nat : v = t * p
      BY SMT
    <3> QED BY SMT, <2>6, <2>9, <3>1
  <2>12. f \div p \in 0 .. 99 /\ 10 * t - f \div p \in {0, 1}
    BY Zenon, <2>5, <2>10, <2>11, HundredthsOfRest
  <2>13. FracPart(PriceOf(k)) = f \div p /\ IntPart(PriceOf(k)) = j
    <3>1. PriceOf(k).mantissa = m /\ PriceOf(k).scale = s
      BY SMT, <2>2
    <3> QED BY Zenon, <2>2, <2>6, <2>9, <3>1 DEF FracPart, IntPart
  <2>14. PICK g \in 0 .. 99 : g = f \div p /\ 10 * t - g \in {0, 1}
    BY Zenon, <2>12
  <2>15. 10 * k - (100 * j + g) \in {0, 1}
    BY SMT, <2>3, <2>14
  <2> QED BY Zenon, <2>13, <2>14, <2>15
<1> QED BY SMT, <1>1, <1>2

-----------------------------------------------------------------------------
(* The ticks of a book. *)

InBook == tick \in Nat /\ tick <= MaxTick

LEMMA TicksOfBook ==
  ASSUME MaxTick \in Nat
  PROVE  Spec => []InBook
<1>1. Init => InBook
  BY SMT DEF Init, InBook
<1>2. InBook /\ [Next]_tick => InBook'
  BY SMT DEF Next, InBook
<1> QED BY <1>1, <1>2, PTL DEF Spec

(* In a book of less than ten times 2^20 ticks, and the code's has ten     *)
(* thousand, every tick has the level of its own number: no two share one  *)
(* and none lies outside of the book.                                      *)
THEOREM TicksHaveOwnLevels ==
  ASSUME MaxTick \in Nat, MaxTick < ExactBook
  PROVE  Spec => []TickHasOwnLevel
<1>1. InBook => TickHasOwnLevel
  <2> SUFFICES ASSUME InBook PROVE TickHasOwnLevel
    OBVIOUS
  <2>1. tick \in Nat /\ tick < ExactBook
    BY SMT DEF ExactBook, InBook
  <2> QED BY Zenon, <2>1, IndexOfTick DEF TickHasOwnLevel
<1> QED BY <1>1, TicksOfBook, PTL

(* In a book of less than ten times 2^17 ticks the text of every price in  *)
(* the log is that of the price, or a hundredth less where the truncated   *)
(* conversion loses the rounding, and its fraction has two digits.         *)
THEOREM TextsAreWithinAHundredth ==
  ASSUME MaxTick \in Nat, MaxTick < LegibleBook
  PROVE  Spec => []TextWithinAHundredth
<1>1. InBook => TextWithinAHundredth
  <2> SUFFICES ASSUME InBook PROVE TextWithinAHundredth
    OBVIOUS
  <2>1. tick \in Nat /\ tick < LegibleBook
    BY SMT DEF LegibleBook, InBook
  <2> QED BY Zenon, <2>1, TextOfTick DEF TextWithinAHundredth
<1> QED BY <1>1, TicksOfBook, PTL

=============================================================================
