---------------------------- MODULE PricingLemmas ----------------------------
(***************************************************************************)
(* Facts about the operators of Pricing, for every amount, rate and score. *)
(*                                                                         *)
(* Rounding is one-sided: what a sponsor locks rounds every fee up before  *)
(* the score scales it, and scaling rounds down, so no share exceeds the   *)
(* part of the price that was locked for it.                               *)
(***************************************************************************)
EXTENDS Pricing, TLAPS

\* fee_ceil and bps_floor are whole, and the products are well behaved.
LEMMA ProductNat ==
  ASSUME NEW x \in Nat, NEW s \in Nat PROVE x * s \in Nat
  OBVIOUS

LEMMA ProductMonotone ==
  ASSUME NEW x \in Nat, NEW s \in Nat, NEW t \in Nat, s <= t
  PROVE  x * s <= x * t
  <1>1. t - s \in Nat OBVIOUS
  <1>2. x * (t - s) \in Nat BY <1>1, ProductNat
  <1>3. x * t = x * s + x * (t - s) OBVIOUS
  <1> QED BY <1>2, <1>3, ProductNat

LEMMA FeeNat ==
  ASSUME NEW x \in Nat, NEW s \in Bps PROVE fee_ceil(x, s) \in Nat
  <1> DEFINE y == x * s
  <1>1. y \in Nat BY ProductNat DEF Bps
  <1>2. (y + 9999) \div 10000 \in Nat BY <1>1
  <1> QED BY <1>2 DEF fee_ceil

\* Scaling a part by a score never gives more than the part, and all of it at a
\* full score.
LEMMA FloorBounds ==
  ASSUME NEW x \in Nat, NEW s \in Bps
  PROVE  /\ bps_floor(x, s) \in Nat
         /\ bps_floor(x, s) <= x
         /\ s = 10000 => bps_floor(x, s) = x
  <1> DEFINE y == x * s
  <1>1. y \in Nat /\ y <= x * 10000
    BY ProductNat, ProductMonotone DEF Bps
  <1>2. y \div 10000 \in Nat /\ y \div 10000 <= x
    <2> HIDE DEF y
    <2> QED BY <1>1
  <1>3. (x * 10000) \div 10000 = x OBVIOUS
  <1> QED BY <1>2, <1>3 DEF bps_floor

\* A higher score never scales a part to less.
LEMMA FloorMonotone ==
  ASSUME NEW x \in Nat, NEW s \in Bps, NEW t \in Bps, s <= t
  PROVE  bps_floor(x, s) <= bps_floor(x, t)
  <1> DEFINE y == x * s  z == x * t
  <1>1. y \in Nat /\ z \in Nat /\ y <= z
    BY ProductNat, ProductMonotone DEF Bps
  <1>2. y \div 10000 <= z \div 10000
    <2> HIDE DEF y, z
    <2> QED BY <1>1
  <1> QED BY <1>2 DEF bps_floor
-----------------------------------------------------------------------------
\* What each party gets is whole and within the part of the price locked for
\* it, so the whole settlement is within the price.
LEMMA SharesBounded ==
  ASSUME NEW x \in Nat, NEW fees \in Fees, NEW s \in Bps
  PROVE  /\ Shares(x, fees, s) \in [content_creator : Nat, regional_operator : Nat,
                                     protocol : Nat, lecturer : Nat]
         /\ TokenPrice(x, fees) \in Nat
         /\ Others(Shares(x, fees, s)) <= TokenPrice(x, fees)
         /\ TotalPaid(Shares(x, fees, s)) <= TokenPrice(x, fees)
         /\ s = 10000 => TotalPaid(Shares(x, fees, s)) = TokenPrice(x, fees)
  <1> DEFINE cc == fee_ceil(x, fees.content_creator)
             ro == fee_ceil(x, fees.regional_operator)
             pr == fee_ceil(x, fees.protocol)
             db == fee_ceil(x, fees.dbs)
  <1>1. cc \in Nat /\ ro \in Nat /\ pr \in Nat /\ db \in Nat
    BY FeeNat DEF Fees
  <1>2. Shares(x, fees, s) = [content_creator   |-> bps_floor(cc, s),
                              regional_operator |-> bps_floor(ro, s),
                              protocol          |-> bps_floor(pr, s),
                              lecturer          |-> bps_floor(x, s) + bps_floor(db, s)]
    BY DEF Shares, fee_parts
  <1>3. TokenPrice(x, fees) = x + cc + ro + pr + db
    BY DEF TokenPrice, fee_parts
  <1> HIDE DEF cc, ro, pr, db
  <1>4. \A y \in {x, cc, ro, pr, db} :
          /\ bps_floor(y, s) \in Nat
          /\ bps_floor(y, s) <= y
          /\ s = 10000 => bps_floor(y, s) = y
    BY <1>1, FloorBounds
  <1> QED BY <1>1, <1>2, <1>3, <1>4 DEF Others, TotalPaid

\* Hence the clamp of finalize_score never binds.
LEMMA NeverClamped ==
  ASSUME NEW x \in Nat, NEW fees \in Fees, NEW s \in Bps, NEW min \in Bps
  PROVE  Payout(x, fees, TokenPrice(x, fees), s, min)
           = IF s < min THEN NoShares ELSE Shares(x, fees, s)
  BY SharesBounded DEF Payout

\* A price that was accepted leaves every product of the settlement in range: a
\* part is at most the price, a u64, and a score at most 10_000.
LEMMA ProductsFit ==
  ASSUME NEW y \in Nat, NEW s \in Bps, y <= U64Max
  PROVE  y * s <= U128Max
  <1>1. y * s \in Nat /\ y * s <= y * 10000
    BY ProductNat, ProductMonotone DEF Bps
  <1>2. y * 10000 <= U64Max * 10000 /\ U64Max * 10000 \in Nat
    BY WidthAssumption
  <1> QED BY <1>1, <1>2, WidthAssumption

\* Hence an accepted price can be settled at every score: finalize_score's
\* checked operations all succeed.
LEMMA AcceptedPriceSettles ==
  ASSUME NEW base \in Nat, NEW fees \in Fees, NEW score \in Bps, NEW min \in Bps,
         PartsFit(base, fees), TokenPrice(base, fees) <= U64Max
  PROVE  PayoutFits(base, fees, TokenPrice(base, fees), score, min)
  <1> DEFINE parts == fee_parts(base, fees)
             amounts == {base, parts.content_creator, parts.regional_operator,
                         parts.protocol, parts.dbs}
             price == TokenPrice(base, fees)
             shares == Shares(base, fees, score)
             paid == Payout(base, fees, price, score, min)
  <1>1. score \in Nat /\ min \in Nat
    BY DEF Bps
  <1>2. /\ parts.content_creator \in Nat /\ parts.regional_operator \in Nat
        /\ parts.protocol \in Nat /\ parts.dbs \in Nat
    BY FeeNat DEF fee_parts, Fees
  <1>3. base + parts.content_creator + parts.regional_operator
             + parts.protocol + parts.dbs <= U64Max
    BY DEF TokenPrice
  <1>4. \A y \in amounts : y \in Nat /\ y <= U64Max
    <2> HIDE DEF parts
    <2> QED BY <1>2, <1>3, WidthAssumption
  <1>5. \A y \in amounts : y * score <= U128Max
    BY <1>4, ProductsFit
  <1>6. Others(shares) <= price /\ TotalPaid(shares) <= price /\ price \in Nat
    BY SharesBounded
  <1>7. TotalPaid(NoShares) = 0
    BY DEF TotalPaid, Others, NoShares
  <1>8. paid = IF score < min THEN NoShares ELSE shares
    BY NeverClamped
  <1>9. TotalPaid(paid) <= price
    BY <1>6, <1>7, <1>8
  <1> QED BY <1>5, <1>6, <1>9 DEF PayoutFits
=============================================================================
