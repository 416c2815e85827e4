----------------------------- MODULE PriceTicks -----------------------------
(***************************************************************************)
(* Prices in single precision: how a price becomes the index of a level    *)
(* (header/lob_struct.h, matching/matching.cpp) and a text in the log      *)
(* (header/logger.h).                                                      *)
(*                                                                         *)
(* A price of k tenths is the float nearest to it: an integer of 24 bits   *)
(* over a power of two.  Each operation on floats rounds its result to the *)
(* nearest float, and to the even one of two; a conversion to an integer   *)
(* drops the fraction.  The states of the specification are the ticks.     *)
(***************************************************************************)
EXTENDS Integers

CONSTANT MaxTick  \* the last tick of the book: max_price_tick - 1

VARIABLE tick

Precision == 24

(* n / d to the nearest integer, ties to the even one. *)
RoundHalfEven(n, d) ==
  LET q == n \div d
      twice == 2 * (n % d)
  IN IF twice < d \/ (twice = d /\ q % 2 = 0) THEN q ELSE q + 1

(* The integer n as a float. *)
RoundToFloat(n) ==
  LET dropped == CHOOSE b \in 0 .. 7 :
        n \div 2^b < 2^Precision /\ \A c \in 0 .. b - 1 : n \div 2^c >= 2^Precision
  IN RoundHalfEven(n, 2^dropped) * 2^dropped

(* The float nearest to k / 10: what the client computes in double         *)
(* precision and stores in order.price.                                    *)
PriceOf(k) ==
  IF k = 0 THEN [mantissa |-> 0, scale |-> 0]
  ELSE LET scale == CHOOSE s \in 0 .. 27 :
             10 * 2^(Precision - 1) <= k * 2^s /\ k * 2^s < 10 * 2^Precision
       IN [mantissa |-> RoundHalfEven(k * 2^scale, 10), scale |-> scale]

TimesTenInDouble(p) ==           \* mutant: price * 10.0, which is exact
  (p.mantissa * 10) \div 2^p.scale

(* static_cast<size_t>(order.price * 10) *)
PriceIndex(p) == RoundToFloat(p.mantissa * 10) \div 2^p.scale

IntPart(p) == p.mantissa \div 2^p.scale

HundredsWrapped(p) ==            \* mutant: tenths taken for hundredths
  RoundToFloat((p.mantissa % 2^p.scale) * 10) \div 2^p.scale

(* float_to_char's frac_part; the difference it starts from is exact. *)
FracPart(p) == RoundToFloat((p.mantissa % 2^p.scale) * 100) \div 2^p.scale

Init == tick = 0

Next == tick < MaxTick /\ tick' = tick + 1

Spec == Init /\ [][Next]_tick

-----------------------------------------------------------------------------
(* Properties. *)

(* Every tick of the book has its own level, the one of its number,        *)
(* although most tenths are no floats and the index is truncated: the      *)
(* rounding of the product makes up for that of the price.                 *)
TickHasOwnLevel == PriceIndex(PriceOf(tick)) = tick

(* The price in the log is that of the order or, since it is truncated and *)
(* not rounded, a hundredth less; never one of the next tick, and of two   *)
(* digits.                                                                 *)
TextWithinAHundredth ==
  LET p == PriceOf(tick) IN
  /\ FracPart(p) \in 0 .. 99
  /\ 10 * tick - (100 * IntPart(p) + FracPart(p)) \in {0, 1}

=============================================================================
