----------------------------- MODULE UsageCosts -----------------------------
(***************************************************************************)
(* What a session cost (decimal.rs, and map_usage and usage_total of       *)
(* store.rs).  The provider reports decimals as text; the service counts   *)
(* in whole millionths that must fit 64 bits, splits the cost of the proxy *)
(* over the kinds of traffic, and adds up sessions.  A decimal is the      *)
(* digits before and after the point and an exponent; the smallest unit is *)
(* a tenth to the power of Places.                                         *)
(***************************************************************************)
EXTENDS Integers, Sequences

CONSTANTS
  Digits,       \* digits that occur
  MaxDigits,    \* bound: digits before the point, and after it
  MaxExponent,  \* bound: of either sign
  Places,       \* 6 in the code
  Limit,        \* u64::MAX
  LimitDigits,  \* digits of Limit
  Counts,       \* bytes of traffic of a kind
  MaxRows,      \* bound: sessions added up
  Overflow

TenTo[n \in Nat] == IF n = 0 THEN 1 ELSE 10 * TenTo[n - 1]

CostAssumption ==
  /\ Digits \subseteq 0..9
  /\ MaxDigits \in Nat /\ MaxExponent \in Nat /\ Places \in Nat
  /\ LimitDigits \in Nat \ {0}
  /\ Limit \in TenTo[LimitDigits - 1]..(TenTo[LimitDigits] - 1)
  /\ Counts \subseteq Nat

VARIABLES
  reported,  \* the decimal at hand
  amount,    \* the proxy's cost of the session it becomes, or Overflow
  rows,      \* sessions mapped so far
  total      \* usage_total of them, or Overflow

vars == <<reported, amount, rows, total>>

DigitStrings == UNION {[1..n -> Digits] : n \in 0..MaxDigits}
Decimals == {d \in [whole : DigitStrings, fraction : DigitStrings, exponent : (-MaxExponent)..MaxExponent] :
               d.whole # <<>> \/ d.fraction # <<>>}
Number(digits) ==
  LET value[n \in 0..Len(digits)] == IF n = 0 THEN 0 ELSE 10 * value[n - 1] + digits[n]
  IN value[Len(digits)]

(* decimal_to_millionths: the digits are shifted by the exponent; what     *)
(* falls off is looked at for rounding.  Number stands for the checked     *)
(* multiplications and additions of the loop.                              *)
Significant(d) ==
  LET all == d.whole \o d.fraction
      lead == CHOOSE n \in 0..Len(all) : (\A i \in 1..n : all[i] = 0) /\ (n = Len(all) \/ all[n + 1] # 0)
  IN SubSeq(all, lead + 1, Len(all))
Shift(d) == d.exponent + Places - Len(d.fraction)

FaultyRounded(digits, kept) == IF digits[kept + 1] > 5 THEN 1 ELSE 0   \* mutant: a tie is rounded down
Rounded(digits, kept) == IF digits[kept + 1] >= 5 THEN 1 ELSE 0

Millionths(d) ==
  LET digits == Significant(d)
      kept == Len(digits) + Shift(d)
      value == IF Shift(d) >= 0 THEN Number(digits) * TenTo[Shift(d)]
               ELSE Number(SubSeq(digits, 1, kept)) + Rounded(digits, kept)
  IN IF digits = <<>> THEN 0
     ELSE IF Shift(d) >= 0 /\ kept > LimitDigits THEN Overflow
     ELSE IF Shift(d) < 0 /\ kept < 0 THEN 0
     ELSE IF value > Limit THEN Overflow ELSE value

Zero == [in |-> 0, out |-> 0, rest |-> 0, all |-> 0]

Init ==
  /\ reported \in Decimals /\ amount = Millionths(reported)
  /\ rows = <<>> /\ total = Zero

(* split_proxy_cost *)
Split(cost, bytes) ==
  LET sum == bytes.in + bytes.out + bytes.rest
      Share(n) == (cost * n) \div sum
  IN IF sum = 0 THEN [in |-> 0, out |-> 0, rest |-> cost, all |-> cost]
     ELSE [in |-> Share(bytes.in), out |-> Share(bytes.out),
           rest |-> cost - Share(bytes.in) - Share(bytes.out), all |-> cost]

(* usage_total: field by field, checked *)
Plus(sum, row) ==
  IF sum = Overflow \/ \E f \in DOMAIN row : sum[f] + row[f] > Limit THEN Overflow
  ELSE [f \in DOMAIN row |-> sum[f] + row[f]]

MapRow ==
  /\ Len(rows) < MaxRows /\ amount # Overflow
  /\ \E bytes \in [in : Counts, out : Counts, rest : Counts] :
       /\ rows' = Append(rows, Split(amount, bytes))
       /\ total' = Plus(total, Split(amount, bytes))
  /\ reported' \in Decimals /\ amount' = Millionths(reported')

Next == MapRow
Spec == Init /\ [][Next]_vars

-----------------------------------------------------------------------------

Numerator(d) == Number(d.whole \o d.fraction)
Power(n) == TenTo[IF n > 0 THEN n ELSE 0]
Nearest(d) ==
  (2 * Numerator(d) * Power(Shift(d)) + Power(-Shift(d))) \div (2 * Power(-Shift(d)))

(* The amount is the nearest number of units to the reported decimal, a    *)
(* tie rounded up, whatever its spelling: leading zeros, no digits on one  *)
(* side of the point, exponents that move every digit out; and it is       *)
(* refused exactly when that number does not fit.  (decimal.rs:29-75)      *)
NearestUnit == amount = (IF Nearest(reported) > Limit THEN Overflow ELSE Nearest(reported))

(* The parts of the cost that are shown make up the cost, for a session    *)
(* and for a sum of sessions, although each share is rounded: no cent is   *)
(* lost or charged twice, and no part is negative.                         *)
(* (store.rs:1877-1912, 1914-1953)                                         *)
PartsMakeCost ==
  /\ \A i \in DOMAIN rows :
       rows[i].rest >= 0 /\ rows[i].in + rows[i].out + rows[i].rest = rows[i].all
  /\ total # Overflow => total.in + total.out + total.rest = total.all
=============================================================================
