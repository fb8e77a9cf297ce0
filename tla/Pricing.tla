------------------------------- MODULE Pricing -------------------------------
(***************************************************************************)
(* The money arithmetic of the real-x-education program (pricing.rs and    *)
(* the settlement split of finalize_score in score.rs).  Every checked_*   *)
(* call that can fail is kept as a predicate "...Fits": a price or a       *)
(* payout that does not fit its width makes the transaction revert.        *)
(* The widths are constants, so that TLC can use small ones.               *)
(***************************************************************************)
EXTENDS Integers

CONSTANTS U64Max,   \* largest u64
          U128Max   \* largest u128

\* A u64 amount times any basis-point rate fits a u128, rounding included.
ASSUME WidthAssumption == /\ U64Max \in Nat
                          /\ U128Max \in Nat
                          /\ U64Max * 10000 + 9999 <= U128Max

Bps == 0..10000

\* The creation terms of a module: whole-unit base price and the fee split.
\* validate() bounds the sum of the four shares by 10_000.
Fees == {f \in [content_creator : Bps, regional_operator : Bps,
                protocol : Bps, dbs : Bps] :
           f.content_creator + f.regional_operator + f.protocol + f.dbs <= 10000}
Terms == [price : 1..U64Max, fees : Fees]
-----------------------------------------------------------------------------
scale_to_asset(price, decimals) == price * 10^decimals

fee_ceil_Floor(amount, bps) == (amount * bps) \div 10000       \* mutant
fee_ceil(amount, bps) == IF bps = 0 THEN 0 ELSE (amount * bps + 9999) \div 10000

FeeFits(amount, bps) == bps = 0 \/ amount * bps + 9999 <= U128Max

bps_floor_DivideFirst(amount, bps) == (amount \div 10000) * bps   \* mutant
bps_floor(amount, bps) == (amount * bps) \div 10000

fee_parts(base, fees) ==
  [content_creator   |-> fee_ceil(base, fees.content_creator),
   regional_operator |-> fee_ceil(base, fees.regional_operator),
   protocol          |-> fee_ceil(base, fees.protocol),
   dbs               |-> fee_ceil(base, fees.dbs)]

PartsFit(base, fees) == /\ FeeFits(base, fees.content_creator)
                        /\ FeeFits(base, fees.regional_operator)
                        /\ FeeFits(base, fees.protocol)
                        /\ FeeFits(base, fees.dbs)

\* What a sponsor locks for one token: the base price and the four fees.
TokenPrice_OneRounding(base, fees) ==                          \* mutant
  base + fee_ceil(base, fees.content_creator + fees.regional_operator
                          + fees.protocol + fees.dbs)
TokenPrice(base, fees) ==
  LET parts == fee_parts(base, fees)
  IN  base + parts.content_creator + parts.regional_operator
           + parts.protocol + parts.dbs

price_per_token(terms, decimals) ==
  TokenPrice(scale_to_asset(terms.price, decimals), terms.fees)

\* The checked operations of price_per_token.  The u128 sums cannot overflow
\* when their total fits a u64.
PriceFits(terms, decimals) ==
  LET base == scale_to_asset(terms.price, decimals)
  IN  /\ 10^decimals <= U128Max
      /\ base <= U128Max
      /\ PartsFit(base, terms.fees)
      /\ TokenPrice(base, terms.fees) <= U64Max
-----------------------------------------------------------------------------
\* finalize_score's split of one escrowed payment.  Each part is scaled by the
\* score; the lecturer takes the base price and the dbs fee.
Shares(base, fees, score) ==
  LET parts == fee_parts(base, fees)
  IN  [content_creator   |-> bps_floor(parts.content_creator, score),
       regional_operator |-> bps_floor(parts.regional_operator, score),
       protocol          |-> bps_floor(parts.protocol, score),
       lecturer          |-> bps_floor(base, score) + bps_floor(parts.dbs, score)]

NoShares == [content_creator |-> 0, regional_operator |-> 0,
             protocol |-> 0, lecturer |-> 0]

Others(s) == s.content_creator + s.regional_operator + s.protocol

TotalPaid(s) == s.lecturer + Others(s)

\* Below the minimum score nobody is paid.  The lecturer's part is clamped to
\* what the escrowed price leaves after the other three.
Payout_MinAsMax(base, fees, price, score, min_score) ==        \* mutant
  IF score > min_score THEN NoShares ELSE Shares(base, fees, score)
Payout(base, fees, price, score, min_score) ==
  LET s == Shares(base, fees, score)
  IN  IF score < min_score THEN NoShares
      ELSE IF TotalPaid(s) <= price THEN s
      ELSE [s EXCEPT !.lecturer = price - Others(s)]

\* The checked operations of the split: every product within u128, neither the
\* clamp nor the refund below zero.
PayoutFits(base, fees, price, score, min_score) ==
  LET parts == fee_parts(base, fees)
  IN  /\ PartsFit(base, fees)
      /\ score >= min_score =>
           /\ \A amount \in {base, parts.content_creator, parts.regional_operator,
                             parts.protocol, parts.dbs} : amount * score <= U128Max
           /\ Others(Shares(base, fees, score)) <= price
      /\ TotalPaid(Payout(base, fees, price, score, min_score)) <= price
=============================================================================
