----------------------------- MODULE MCPricing -----------------------------
(***************************************************************************)
(* Every small quotation and every score it can be settled at.  A state is *)
(* one payment: the module's terms, the payment asset's decimals and the   *)
(* score; Rescore settles the same payment at another score, so an action  *)
(* property compares two settlements of one payment.                       *)
(***************************************************************************)
EXTENDS Pricing

CONSTANTS Prices, FeeRates, Decimals, Scores, MinScore

\* (That a power of ten is a number is stated because the provers know nothing
\* of exponentiation.)
ASSUME BoundsAssumption == /\ Prices \subseteq 1..U64Max
                           /\ FeeRates \subseteq Bps
                           /\ Decimals \subseteq Nat
                           /\ \A d \in Decimals : 10^d \in Nat
                           /\ Scores \subseteq Bps
                           /\ MinScore \in Bps

VARIABLES terms, decimals, score

vars == <<terms, decimals, score>>

\* One payment and the score it is settled at.
TypeOK == /\ terms \in Terms
          /\ decimals \in Decimals
          /\ score \in Scores

Init == /\ \E p \in Prices, cc, ro, pr, db \in FeeRates :
             /\ cc + ro + pr + db <= 10000
             /\ terms = [price |-> p,
                         fees  |-> [content_creator |-> cc, regional_operator |-> ro,
                                    protocol |-> pr, dbs |-> db]]
        /\ decimals \in Decimals
        /\ score \in Scores

Rescore == /\ score' \in Scores
           /\ UNCHANGED <<terms, decimals>>

Next == Rescore

Spec == Init /\ [][Next]_vars
-----------------------------------------------------------------------------
base  == scale_to_asset(terms.price, decimals)
price == price_per_token(terms, decimals)
pay   == Payout(base, terms.fees, price, score, MinScore)

\* A price that was accepted when the sponsor locked it can be settled at every
\* score: the settlement overflows nowhere, its clamp never binds and it never
\* pays more than was escrowed (finalize_score reverts otherwise, and the
\* booking could then never be settled).
SettlementNeverReverts ==
  PriceFits(terms, decimals) =>
    /\ PayoutFits(base, terms.fees, price, score, MinScore)
    /\ score >= MinScore => pay = Shares(base, terms.fees, score)

\* fee_ceil is the least whole amount that covers the fee and bps_floor the
\* largest that does not exceed it, whatever the rounding (pricing.rs states
\* both roundings as the reason the sponsor is neither under- nor overcharged).
RoundingDirection ==
  \A amount \in {base, price}, bps \in FeeRates :
    LET c == fee_ceil(amount, bps)
        f == bps_floor(amount, bps)
    IN  /\ c * 10000 >= amount * bps
        /\ c > 0 => (c - 1) * 10000 < amount * bps
        /\ f * 10000 <= amount * bps
        /\ (f + 1) * 10000 > amount * bps

\* A full score pays out the whole escrow: no dust of the ceil roundings is
\* left over for the sponsor, and none is missing.
FullScorePaysAll ==
  PriceFits(terms, decimals) /\ score = 10000 => TotalPaid(pay) = price

\* A higher score never lowers what any party receives.
HigherScorePaysMore ==
  [][score' >= score =>
       \A party \in DOMAIN pay : pay'[party] >= pay[party]]_vars
=============================================================================
