---------------------------- MODULE PricingProofs ----------------------------
(***************************************************************************)
(* The properties of MCPricing for every price, fee split, number of       *)
(* decimals, score and minimum score, and every width of the integers that *)
(* WidthAssumption allows.                                                 *)
(***************************************************************************)
EXTENDS MCPricing, PricingLemmas

LEMMA Typed == Spec => []TypeOK
  <1>1. Init => TypeOK
    BY BoundsAssumption DEF Init, TypeOK, Terms, Fees
  <1>2. TypeOK /\ [Next]_vars => TypeOK'
    BY DEF TypeOK, Next, Rescore, vars
  <1> QED BY <1>1, <1>2, PTL DEF Spec

\* In every state the base price is a number and the fees are a valid split.
LEMMA BaseNat ==
  ASSUME TypeOK
  PROVE  base \in Nat /\ terms.fees \in Fees /\ score \in Bps /\ MinScore \in Bps
  <1>1. terms.price \in Nat /\ 10^decimals \in Nat
    BY BoundsAssumption, WidthAssumption DEF TypeOK, Terms
  <1>2. terms.price * 10^decimals \in Nat
    BY <1>1, ProductNat
  <1> QED BY <1>2, BoundsAssumption DEF TypeOK, Terms, base, scale_to_asset

\* pay, with the clamp and the decimals out of the way.
LEMMA PayIs ==
  ASSUME TypeOK
  PROVE  /\ price = TokenPrice(base, terms.fees)
         /\ pay = IF score < MinScore THEN NoShares ELSE Shares(base, terms.fees, score)
  BY BaseNat, NeverClamped DEF price, pay, price_per_token, base

\* A sponsored price can be settled at every score: finalize_score's checked
\* arithmetic never fails and its clamp never takes from the lecturer.
THEOREM SettlementTheorem == Spec => []SettlementNeverReverts
  <1>1. TypeOK => SettlementNeverReverts
    <2> SUFFICES ASSUME TypeOK, PriceFits(terms, decimals)
                 PROVE  /\ PayoutFits(base, terms.fees, price, score, MinScore)
                        /\ score >= MinScore => pay = Shares(base, terms.fees, score)
      BY DEF SettlementNeverReverts
    <2>1. base \in Nat /\ terms.fees \in Fees /\ score \in Bps /\ MinScore \in Bps
      BY BaseNat
    <2>2. score \in Nat /\ MinScore \in Nat
      BY <2>1 DEF Bps
    <2>3. PartsFit(base, terms.fees) /\ TokenPrice(base, terms.fees) <= U64Max
      BY DEF PriceFits, base
    <2>4. PayoutFits(base, terms.fees, price, score, MinScore)
      BY <2>1, <2>3, PayIs, AcceptedPriceSettles
    <2>5. score >= MinScore => pay = Shares(base, terms.fees, score)
      BY <2>2, PayIs
    <2> QED BY <2>4, <2>5
  <1> QED BY <1>1, Typed, PTL

\* Both roundings are tight, in the direction pricing.rs gives them.
THEOREM RoundingTheorem == Spec => []RoundingDirection
  <1>1. TypeOK => RoundingDirection
    <2> SUFFICES ASSUME TypeOK, NEW amount \in {base, price}, NEW bps \in FeeRates
                 PROVE  LET c == fee_ceil(amount, bps)
                            f == bps_floor(amount, bps)
                        IN  /\ c * 10000 >= amount * bps
                            /\ c > 0 => (c - 1) * 10000 < amount * bps
                            /\ f * 10000 <= amount * bps
                            /\ (f + 1) * 10000 > amount * bps
      BY DEF RoundingDirection
    <2> DEFINE y == amount * bps
    <2>1. amount \in Nat /\ bps \in Nat
      <3>1. base \in Nat /\ terms.fees \in Fees /\ score \in Bps
        BY BaseNat
      <3>2. price \in Nat
        BY <3>1, PayIs, SharesBounded
      <3>3. bps \in Nat
        BY BoundsAssumption DEF Bps
      <3> QED BY <3>1, <3>2, <3>3
    <2>2. y \in Nat /\ (bps = 0 => y = 0)
      BY <2>1, ProductNat
    <2>3. /\ bps = 0 => fee_ceil(amount, bps) = 0
          /\ bps # 0 => fee_ceil(amount, bps) = (y + 9999) \div 10000
          /\ bps_floor(amount, bps) = y \div 10000
      BY DEF fee_ceil, bps_floor
    <2> HIDE DEF y
    <2>4. LET c == (y + 9999) \div 10000
              f == y \div 10000
          IN  /\ c * 10000 >= y /\ (c - 1) * 10000 < y
              /\ f * 10000 <= y /\ (f + 1) * 10000 > y
      BY <2>2
    <2>5. CASE bps = 0
      BY <2>2, <2>3, <2>4, <2>5 DEF y
    <2>6. CASE bps # 0
      BY <2>2, <2>3, <2>4, <2>6 DEF y
    <2> QED BY <2>5, <2>6
  <1> QED BY <1>1, Typed, PTL

\* At a full score the escrow is paid out to the last unit.
THEOREM FullScoreTheorem == Spec => []FullScorePaysAll
  <1>1. TypeOK => FullScorePaysAll
    <2> SUFFICES ASSUME TypeOK, score = 10000
                 PROVE  TotalPaid(pay) = price
      BY DEF FullScorePaysAll
    <2>1. base \in Nat /\ terms.fees \in Fees /\ score \in Bps /\ MinScore \in Bps
      BY BaseNat
    <2>2. ~(score < MinScore)
      BY <2>1 DEF Bps
    <2>3. TotalPaid(Shares(base, terms.fees, score)) = TokenPrice(base, terms.fees)
      BY <2>1, SharesBounded
    <2>4. pay = Shares(base, terms.fees, score) /\ price = TokenPrice(base, terms.fees)
      BY <2>2, PayIs
    <2> QED BY <2>3, <2>4
  <1> QED BY <1>1, Typed, PTL

\* A better score never pays any party less.
THEOREM HigherScoreTheorem == Spec => HigherScorePaysMore
  <1>1. ASSUME TypeOK, TypeOK', [Next]_vars, score' >= score
        PROVE  \A party \in DOMAIN pay : pay'[party] >= pay[party]
    <2>1. terms' = terms /\ decimals' = decimals /\ base' = base
      BY <1>1 DEF Next, Rescore, vars, base
    <2>2. /\ base \in Nat /\ terms.fees \in Fees /\ score \in Bps /\ MinScore \in Bps
          /\ score' \in Bps
      BY <1>1, BaseNat, BoundsAssumption DEF TypeOK
    <2>3. /\ pay = IF score < MinScore THEN NoShares
                                       ELSE Shares(base, terms.fees, score)
          /\ pay' = IF score' < MinScore THEN NoShares
                                         ELSE Shares(base, terms.fees, score')
      <3>1. pay' = Payout(base, terms.fees, price', score', MinScore)
        BY <2>1 DEF pay
      <3>2. price' = TokenPrice(base, terms.fees)
        BY <2>1 DEF price, price_per_token, base
      <3> QED BY <1>1, <2>2, <3>1, <3>2, PayIs, NeverClamped
    <2>4. \A t \in Bps : Shares(base, terms.fees, t) \in
            [content_creator : Nat, regional_operator : Nat, protocol : Nat, lecturer : Nat]
      BY <2>2, SharesBounded
    <2>5. \A party \in {"content_creator", "regional_operator", "protocol", "lecturer"} :
            Shares(base, terms.fees, score')[party] >= Shares(base, terms.fees, score)[party]
      <3> DEFINE parts == fee_parts(base, terms.fees)
      <3>1. /\ parts.content_creator \in Nat /\ parts.regional_operator \in Nat
            /\ parts.protocol \in Nat /\ parts.dbs \in Nat
        BY <2>2, FeeNat DEF fee_parts, Fees
      <3>2. score <= score'
        BY <1>1, <2>2 DEF Bps
      <3>3. \A y \in Nat : /\ bps_floor(y, score) \in Nat /\ bps_floor(y, score') \in Nat
                            /\ bps_floor(y, score) <= bps_floor(y, score')
        BY <2>2, <3>2, FloorBounds, FloorMonotone
      <3> HIDE DEF parts
      <3> QED BY <2>2, <3>1, <3>3 DEF Shares, parts
    <2> DEFINE low == Shares(base, terms.fees, score)
               high == Shares(base, terms.fees, score')
    <2> HIDE DEF low, high
    <2>6. CASE score' < MinScore
      <3>1. score < MinScore
        BY <1>1, <2>2, <2>6 DEF Bps
      <3> QED BY <2>3, <2>6, <3>1 DEF NoShares
    <2>7. CASE score < MinScore /\ ~(score' < MinScore)
      <3>1. pay = NoShares /\ pay' = high
        BY <2>3, <2>7 DEF high
      <3>2. high \in [content_creator : Nat, regional_operator : Nat,
                      protocol : Nat, lecturer : Nat]
        BY <2>2, <2>4 DEF high
      <3> QED BY <3>1, <3>2 DEF NoShares
    <2>8. CASE ~(score < MinScore) /\ ~(score' < MinScore)
      <3>1. pay = low /\ pay' = high
        BY <2>3, <2>8 DEF low, high
      <3>2. low \in [content_creator : Nat, regional_operator : Nat,
                     protocol : Nat, lecturer : Nat]
        BY <2>2, <2>4 DEF low
      <3> QED BY <2>5, <3>1, <3>2 DEF low, high
    <2> QED BY <2>6, <2>7, <2>8
  <1>2. TypeOK /\ TypeOK' /\ [Next]_vars
          => (score' >= score => \A party \in DOMAIN pay : pay'[party] >= pay[party])
    BY <1>1
  <1> QED BY <1>2, Typed, PTL DEF Spec, HigherScorePaysMore
=============================================================================
