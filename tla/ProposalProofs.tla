---------------------------- MODULE ProposalProofs ----------------------------
(***************************************************************************)
(* Module proposals stay well formed, their reservations whole, and the    *)
(* advance payments of sponsors where they belong, for any number of       *)
(* users, proposals, assets and parameter sets.  The vault holds the       *)
(* deposits, stakes and bonds on record and what strayed in (DepositsTheo- *)
(* rem: what a step adds to one record it adds to the vault, and the sums  *)
(* of TotalLemmas move by the same amount), and every proposal goes        *)
(* through the phases of ProposalLifecycle.  The tally of an open vote is  *)
(* the sum of the ballots on record, which the XCAV supply bounds, so that *)
(* no vote, reservation or rejected proposal is ever stuck.                *)
(***************************************************************************)
EXTENDS Proposals, TotalLemmas, PricingLemmas

LEMMA ConfigOK ==
  ASSUME TypeOK
  PROVE  /\ config.proposal_deposit \in Nat
         /\ config.module_deposit \in Nat /\ config.module_deposit > 0
         /\ config.terms \in Terms
         /\ config.voting_period \in Nat /\ config.claim_period \in Nat
         /\ config.upload_period \in Nat /\ config.pre_sponsor_amount \in Nat
         /\ config.accepted_assets \subseteq Assets
  BY InputsAssumption DEF TypeOK, ConfigParams

LEMMA InputsNat ==
  /\ \A n \in TokenCounts : n \in Nat /\ n >= 1
  /\ \A n \in Powers : n \in Nat
  BY InputsAssumption, WidthAssumption

LEMMA AfterNat ==
  ASSUME NEW start \in Nat, NEW period \in Nat PROVE After(start, period) \in Nat
  BY BoundsAssumption DEF After

LEMMA PriceNat ==
  ASSUME NEW terms \in Terms, NEW a \in Assets
  PROVE  price_per_token(terms, Decimals[a]) \in Nat
  <1>1. terms.fees \in Fees /\ terms.price \in Nat
    BY WidthAssumption DEF Terms
  <1>2. terms.price * 10^Decimals[a] \in Nat
    BY <1>1, DecimalsAssumption
  <1>3. 0 \in Bps
    BY DEF Bps
  <1> QED BY <1>1, <1>2, <1>3, SharesBounded DEF price_per_token, scale_to_asset

\* A tally stays a tally when a vote is taken out of it.
LEMMA RetractOK ==
  ASSUME NEW tally \in [Ballots -> Nat], NEW record \in VoteRecord \cup {None}
  PROVE  Retract(tally, record) \in [Ballots -> Nat]
  <1>1. CASE record = None
    BY <1>1 DEF Retract
  <1>2. CASE record \in VoteRecord /\ record # None
    <2>1. record.vote \in Ballots /\ record.power \in Nat
      BY <1>2 DEF VoteRecord
    <2>2. (IF tally[record.vote] <= record.power THEN 0
           ELSE tally[record.vote] - record.power) \in Nat
      BY <2>1
    <2> QED BY <1>2, <2>1, <2>2 DEF Retract
  <1> QED BY <1>1, <1>2

LEMMA ProposalFields ==
  ASSUME NEW p \in Proposal
  PROVE  /\ p # None
         /\ p.status \in Statuses /\ p.expiry \in Nat /\ p.deposit \in Nat
         /\ p.tally \in [Ballots -> Nat] /\ p.amount \in Nat /\ p.terms \in Terms
         /\ p.claimant \in Users \cup {None} /\ p.bond \in Nat
         /\ p.upload_deadline \in Nat /\ p.banned \subseteq Users
         /\ p.pre_sponsor_amount \in Nat /\ p.pre_sponsor_price \in Nat
         /\ p.proposer \in Users
  BY NoneAssumption DEF Proposal
-----------------------------------------------------------------------------
(* Most instructions rewrite one proposal and leave what the sponsor was
   promised alone.                                                          *)

SameOffer(x, p) ==
  /\ x.proposer = p.proposer /\ x.amount = p.amount
  /\ x.pre_sponsor_amount = p.pre_sponsor_amount
  /\ x.pre_sponsor_price = p.pre_sponsor_price
  /\ x.terms = p.terms /\ x.asset = p.asset

\* An advance payment is made at the price its proposal's own terms give.
Quoted(p) == p.pre_sponsor_amount > 0 =>
  /\ p.asset \in Assets /\ PriceFits(p.terms, Decimals[p.asset])
  /\ p.pre_sponsor_price = price_per_token(p.terms, Decimals[p.asset])

Rewrites(id) ==
  /\ proposals[id] \in Proposal
  /\ \E x \in Proposal : /\ proposals' = [proposals EXCEPT ![id] = x]
                         /\ Whole(x) /\ SameOffer(x, proposals[id])
  /\ UNCHANGED <<envVars, next_id, escrow, stray, minted>>

MoneyOK == vault' \in Nat /\ treasury' \in Nat

IInv == TypeOK /\ ReservationsWhole

LEMMA VoteRewrites ==
  ASSUME IInv, NEW u \in Users, NEW id \in ProposalIds, NEW vote \in Ballots,
         NEW amount \in Powers, VoteOnProposal(u, id, vote, amount)
  PROVE  /\ Rewrites(id) /\ MoneyOK
         /\ votes' \in [ProposalIds -> [Users -> VoteRecord \cup {None}]]
  <1> DEFINE p == proposals[id]
             old == votes[id][u]
             refund == IF old = None THEN 0 ELSE old.power
             rest == Retract(p.tally, old)
  <1>1. p \in Proposal /\ Whole(p)
    BY DEF IInv, TypeOK, ReservationsWhole, Live, VoteOnProposal
  <1>2. p.tally \in [Ballots -> Nat] /\ p.expiry \in Nat
    BY <1>1, ProposalFields
  <1>3. old \in VoteRecord \cup {None} /\ amount \in Nat
    BY InputsNat DEF IInv, TypeOK
  <1>4. rest \in [Ballots -> Nat]
    BY <1>2, <1>3, RetractOK
  <1>5. refund \in Nat
    BY <1>3 DEF VoteRecord
  <1>6. /\ proposals' = [proposals EXCEPT ![id].tally = [rest EXCEPT ![vote] = @ + amount]]
        /\ votes' = [votes EXCEPT ![id][u] =
                       [vote |-> vote, power |-> amount, expiry |-> p.expiry]]
        /\ vault >= refund /\ vault' = vault - refund + amount
        /\ UNCHANGED <<envVars, next_id, escrow, stray, minted, treasury>>
    BY DEF VoteOnProposal
  <1> HIDE DEF rest, refund
  <1>7. [rest EXCEPT ![vote] = @ + amount] \in [Ballots -> Nat]
    BY <1>3, <1>4
  <1>8. ASSUME NEW t \in [Ballots -> Nat]
        PROVE  /\ [p EXCEPT !.tally = t] \in Proposal
               /\ Whole([p EXCEPT !.tally = t]) /\ SameOffer([p EXCEPT !.tally = t], p)
    BY <1>1 DEF Proposal, Whole, SameOffer
  <1>9. proposals' = [proposals EXCEPT
          ![id] = [p EXCEPT !.tally = [rest EXCEPT ![vote] = @ + amount]]]
    BY <1>6 DEF IInv, TypeOK
  <1>10. Rewrites(id)
    BY <1>1, <1>6, <1>7, <1>8, <1>9 DEF Rewrites
  <1>11. votes' \in [ProposalIds -> [Users -> VoteRecord \cup {None}]]
    <2>1. [vote |-> vote, power |-> amount, expiry |-> p.expiry] \in VoteRecord
      BY <1>2, <1>3 DEF VoteRecord
    <2> HIDE DEF p
    <2> QED BY <1>6, <2>1 DEF IInv, TypeOK
  <1>12. MoneyOK
    BY <1>3, <1>5, <1>6 DEF IInv, TypeOK, MoneyOK
  <1> QED BY <1>10, <1>11, <1>12

LEMMA FinalizeRewrites ==
  ASSUME IInv, NEW id \in ProposalIds, FinalizeProposal(id)
  PROVE  Rewrites(id) /\ MoneyOK /\ UNCHANGED votes
  <1> DEFINE p == proposals[id]
             deadline == After(now, config.claim_period)
             passed == [p EXCEPT !.status = "Claimable", !.build_deadline = deadline]
             rejected == [p EXCEPT !.status = "Rejected"]
  <1>1. p \in Proposal /\ Whole(p) /\ p.status = "Voting"
    BY DEF IInv, TypeOK, ReservationsWhole, Live, FinalizeProposal, MayFinalize
  <1>2. p.deposit \in Nat /\ deadline \in Nat
    BY <1>1, ProposalFields, ConfigOK, AfterNat DEF IInv, TypeOK
  <1> HIDE DEF deadline
  <1>3. passed \in Proposal /\ Whole(passed) /\ SameOffer(passed, p)
    BY <1>1, <1>2 DEF Proposal, Statuses, Whole, SameOffer
  <1>4. rejected \in Proposal /\ Whole(rejected) /\ SameOffer(rejected, p)
    BY <1>1 DEF Proposal, Statuses, Whole, SameOffer
  <1>5. \/ proposals' = [proposals EXCEPT ![id] = passed] /\ UNCHANGED treasury
        \/ /\ proposals' = [proposals EXCEPT ![id] = rejected]
           /\ treasury' = treasury + p.deposit
    BY DEF FinalizeProposal, MayFinalize, IInv, TypeOK, deadline
  <1>6. vault' \in Nat /\ UNCHANGED <<envVars, next_id, votes, escrow, stray, minted>>
    BY <1>2 DEF FinalizeProposal, MayFinalize, IInv, TypeOK
  <1>7. treasury' \in Nat
    BY <1>2, <1>5 DEF IInv, TypeOK
  <1> HIDE DEF passed, rejected
  <1> QED BY <1>1, <1>3, <1>4, <1>5, <1>6, <1>7 DEF Rewrites, MoneyOK

LEMMA ClaimRewrites ==
  ASSUME IInv, NEW u \in Users, NEW id \in ProposalIds, ClaimProposal(u, id)
  PROVE  Rewrites(id) /\ MoneyOK /\ UNCHANGED votes
  <1> DEFINE p == proposals[id]
             bond == config.module_deposit
             deadline == After(now, config.upload_period)
             x == [p EXCEPT !.claimant = u, !.bond = bond, !.upload_deadline = deadline,
                            !.failures = 0, !.status = "Claimed"]
  <1>1. p \in Proposal /\ MayBuild(u, p)
    BY DEF IInv, TypeOK, ClaimProposal
  <1>2. bond \in Nat /\ bond > 0 /\ deadline \in Nat
    BY ConfigOK, AfterNat DEF IInv, TypeOK
  <1>3. u # None
    BY NoneAssumption
  <1> HIDE DEF bond, deadline
  <1>4. x \in Proposal
    BY <1>1, <1>2 DEF Proposal, Statuses
  <1>5. Whole(x) /\ SameOffer(x, p)
    BY <1>1, <1>2, <1>3 DEF Proposal, Whole, MayBuild, SameOffer
  <1>6. /\ proposals' = [proposals EXCEPT ![id] = x]
        /\ vault' = vault + bond
        /\ UNCHANGED <<envVars, next_id, votes, escrow, stray, minted, treasury>>
    BY DEF ClaimProposal, Reserved, bond, deadline
  <1>7. MoneyOK
    BY <1>2, <1>6 DEF MoneyOK, IInv, TypeOK
  <1> HIDE DEF x
  <1> QED BY <1>1, <1>4, <1>5, <1>6, <1>7 DEF Rewrites

LEMMA UploadRewrites ==
  ASSUME IInv, NEW u \in Users, NEW id \in ProposalIds, UploadProposal(u, id)
  PROVE  Rewrites(id) /\ MoneyOK /\ UNCHANGED votes
  <1> DEFINE p == proposals[id]
             x == [p EXCEPT !.upload_deadline = 0, !.status = "UnderReview"]
  <1>1. p \in Proposal /\ Whole(p) /\ p.status = "Claimed"
    BY DEF IInv, TypeOK, ReservationsWhole, Live, UploadProposal
  <1>2. x \in Proposal
    BY <1>1 DEF Proposal, Statuses
  <1>3. Whole(x) /\ SameOffer(x, p)
    BY <1>1 DEF Proposal, Whole, SameOffer
  <1>4. /\ proposals' = [proposals EXCEPT ![id] = x]
        /\ UNCHANGED <<envVars, next_id, votes, escrow, stray, minted, xcavVars>>
    BY DEF UploadProposal, IInv, TypeOK
  <1> HIDE DEF x
  <1> QED BY <1>1, <1>2, <1>3, <1>4 DEF Rewrites, MoneyOK, IInv, TypeOK, xcavVars

\* Slashing or refunding a bond takes it out of a vault that holds it.
LEMMA SlashOK ==
  ASSUME IInv, NEW p \in Proposal, vault >= p.bond, SlashBond(p) PROVE MoneyOK
  <1>1. p.bond \in Nat
    BY ProposalFields
  <1> QED BY <1>1 DEF SlashBond, MoneyOK, IInv, TypeOK

LEMMA VacatedFields ==
  ASSUME NEW p \in Proposal
  PROVE  /\ Vacated(p) \in Proposal
         /\ Vacated(p).claimant = None /\ Vacated(p).bond = 0
         /\ Vacated(p).upload_deadline = 0 /\ Vacated(p).banned = p.banned
         /\ SameOffer(Vacated(p), p)
  BY DEF Proposal, Vacated, SameOffer

LEMMA VacatedOK ==
  ASSUME NEW p \in Proposal, NEW s \in {"Claimable", "Rejected"}
  PROVE  LET x == [Vacated(p) EXCEPT !.status = s]
         IN  x \in Proposal /\ Whole(x) /\ SameOffer(x, p)
  <1> DEFINE v == Vacated(p)
             x == [v EXCEPT !.status = s]
  <1>1. v \in Proposal /\ v.claimant = None /\ v.bond = 0 /\ v.upload_deadline = 0
        /\ SameOffer(v, p)
    BY VacatedFields
  <1> HIDE DEF v
  <1>2. x \in Proposal
    BY <1>1 DEF Proposal, Statuses
  <1>3. Whole(x) /\ SameOffer(x, p)
    BY <1>1 DEF Proposal, Whole, SameOffer
  <1> QED BY <1>2, <1>3 DEF v

LEMMA ReleaseRewrites ==
  ASSUME IInv, NEW id \in ProposalIds, ReleaseClaim(id)
  PROVE  Rewrites(id) /\ MoneyOK /\ UNCHANGED votes
  <1> DEFINE p == proposals[id]
             x == [Vacated(p) EXCEPT !.status = "Claimable"]
  <1>1. p \in Proposal
    BY DEF IInv, TypeOK, ReleaseClaim, MayRelease
  <1>2. x \in Proposal /\ Whole(x) /\ SameOffer(x, p)
    BY <1>1, VacatedOK
  <1>3. /\ proposals' = [proposals EXCEPT ![id] = x] /\ SlashBond(p) /\ vault >= p.bond
        /\ UNCHANGED <<envVars, next_id, votes, escrow, stray, minted>>
    BY DEF ReleaseClaim, MayRelease
  <1> HIDE DEF x
  <1> QED BY <1>1, <1>2, <1>3, SlashOK DEF Rewrites

LEMMA ExpireRewrites ==
  ASSUME IInv, NEW id \in ProposalIds, ExpireProposal(id)
  PROVE  Rewrites(id) /\ MoneyOK /\ UNCHANGED votes
  <1> DEFINE p == proposals[id]
             x == [Vacated(p) EXCEPT !.status = "Rejected"]
  <1>1. p \in Proposal
    BY DEF IInv, TypeOK, ExpireProposal, MayExpire
  <1>2. x \in Proposal /\ Whole(x) /\ SameOffer(x, p)
    BY <1>1, VacatedOK
  <1>3. /\ proposals' = [proposals EXCEPT ![id] = x]
        /\ UNCHANGED <<envVars, next_id, votes, escrow, stray, minted>>
    BY DEF ExpireProposal, MayExpire
  <1>4. /\ vault >= p.bond
        /\ SlashBond(p) \/ (vault' = vault - p.bond /\ UNCHANGED treasury)
    BY DEF ExpireProposal, MayExpire
  <1>5. MoneyOK
    <2>1. p.bond \in Nat
      BY <1>1, ProposalFields
    <2> QED BY <1>1, <1>4, <2>1, SlashOK DEF MoneyOK, IInv, TypeOK
  <1> HIDE DEF x
  <1> QED BY <1>1, <1>2, <1>3, <1>5 DEF Rewrites

LEMMA ReviewRewrites ==
  ASSUME IInv, NEW u \in Users, NEW id \in ProposalIds, NEW passed \in BOOLEAN,
         ReviewProposal(u, id, passed)
  PROVE  Rewrites(id) /\ MoneyOK /\ UNCHANGED votes
  <1> DEFINE p == proposals[id]
             deadline == After(now, config.upload_period)
             approved == [p EXCEPT !.status = "Approved"]
             retried == [p EXCEPT !.failures = 1, !.status = "Claimed",
                                  !.upload_deadline = deadline]
             vacated == [Vacated(p) EXCEPT !.failures = 0]
             reopened == [vacated EXCEPT !.banned = @ \cup {p.claimant},
                                         !.status = "Claimable"]
             dropped == [vacated EXCEPT !.status = "Rejected"]
  <1>1. p \in Proposal /\ Whole(p) /\ p.status = "UnderReview"
    BY DEF IInv, TypeOK, ReservationsWhole, Live, ReviewProposal
  <1>2. deadline \in Nat
    BY ConfigOK, AfterNat DEF IInv, TypeOK
  <1>3. p.claimant \in Users
    BY <1>1, ProposalFields DEF ReviewProposal
  <1> HIDE DEF deadline
  <1>4. approved \in Proposal /\ Whole(approved) /\ SameOffer(approved, p)
    BY <1>1 DEF Proposal, Statuses, Whole, SameOffer
  <1>5. retried \in Proposal /\ Whole(retried) /\ SameOffer(retried, p)
    BY <1>1, <1>2 DEF Proposal, Statuses, Whole, SameOffer
  <1>6. /\ Vacated(p) \in Proposal /\ Vacated(p).claimant = None
        /\ Vacated(p).bond = 0 /\ Vacated(p).upload_deadline = 0
        /\ SameOffer(Vacated(p), p)
    BY <1>1, VacatedFields
  <1>7. /\ vacated \in Proposal /\ vacated.claimant = None /\ vacated.bond = 0
        /\ vacated.upload_deadline = 0 /\ SameOffer(vacated, p)
    BY <1>6 DEF Proposal, SameOffer
  <1> HIDE DEF vacated
  <1>8. reopened \in Proposal /\ Whole(reopened) /\ SameOffer(reopened, p)
    <2> DEFINE B == vacated.banned \cup {p.claimant}
               x == [vacated EXCEPT !.banned = B, !.status = "Claimable"]
    <2>1. B \in SUBSET Users
      BY <1>3, <1>7, ProposalFields
    <2> HIDE DEF B
    <2>2. x \in Proposal
      BY <1>7, <2>1 DEF Proposal, Statuses
    <2>3. Whole(x) /\ SameOffer(x, p)
      BY <1>7 DEF Proposal, Whole, SameOffer
    <2> QED BY <2>2, <2>3 DEF B
  <1>9. dropped \in Proposal /\ Whole(dropped) /\ SameOffer(dropped, p)
    BY <1>7 DEF Proposal, Statuses, Whole, SameOffer
  <1>10. \/ proposals' = [proposals EXCEPT ![id] = approved] /\ UNCHANGED xcavVars
         \/ proposals' = [proposals EXCEPT ![id] = retried] /\ UNCHANGED xcavVars
         \/ /\ proposals' = [proposals EXCEPT ![id] = reopened]
            /\ SlashBond(p) /\ vault >= p.bond
         \/ /\ proposals' = [proposals EXCEPT ![id] = dropped]
            /\ SlashBond(p) /\ vault >= p.bond
    BY DEF ReviewProposal, IInv, TypeOK, deadline, vacated
  <1>11. UNCHANGED <<envVars, next_id, votes, escrow, stray, minted>>
    BY DEF ReviewProposal
  <1> HIDE DEF approved, retried, reopened, dropped
  <1>12. MoneyOK
    BY <1>1, <1>10, SlashOK DEF MoneyOK, xcavVars, IInv, TypeOK
  <1> QED BY <1>1, <1>4, <1>5, <1>8, <1>9, <1>10, <1>11, <1>12 DEF Rewrites
-----------------------------------------------------------------------------
(* The other instructions open a proposal, close one, or leave all alone. *)

\* A new proposal is well formed and unreserved.
LEMMA NewOK ==
  ASSUME IInv, NEW u \in Users, NEW role \in ProposerRoles, NEW n \in TokenCounts
  PROVE  LET x == NewProposal(u, role, n)
         IN  x \in Proposal /\ Whole(x) /\ x.proposer = u /\ x.amount = n
             /\ x.pre_sponsor_amount = 0 /\ x.pre_sponsor_price = 0
             /\ x.status = "Voting" /\ x.banned = {} /\ x.deposit = config.proposal_deposit
  <1> DEFINE expiry == After(now, config.voting_period)
             deposit == config.proposal_deposit
             terms == config.terms
  <1>1. expiry \in Nat /\ deposit \in Nat /\ terms \in Terms /\ n \in Nat
    BY ConfigOK, AfterNat, InputsNat DEF IInv, TypeOK
  <1> HIDE DEF expiry, deposit, terms
  <1>2. NewProposal(u, role, n) =
          [proposer |-> u, role |-> role, status |-> "Voting",
           expiry |-> expiry, deposit |-> deposit,
           tally |-> [v \in Ballots |-> 0], amount |-> n, terms |-> terms,
           claimant |-> None, bond |-> 0, upload_deadline |-> 0, failures |-> 0,
           banned |-> {}, build_deadline |-> 0, asset |-> None,
           pre_sponsor_amount |-> 0, pre_sponsor_price |-> 0]
    BY DEF NewProposal, expiry, deposit, terms
  <1>3. NewProposal(u, role, n) \in Proposal
    BY <1>1, <1>2 DEF Proposal, Statuses
  <1> QED BY <1>2, <1>3 DEF Whole, deposit

Opens(x) ==
  /\ next_id \in ProposalIds /\ x \in Proposal /\ Whole(x)
  /\ proposals' = [proposals EXCEPT ![next_id] = x]
  /\ x.status = "Voting" /\ x.banned = {}
  /\ next_id' = next_id + 1
  /\ vault' \in Nat /\ vault' = vault + x.deposit
  /\ UNCHANGED <<envVars, votes, stray, minted, treasury>>

LEMMA CreateOpens ==
  ASSUME IInv, NEW u \in Users, NEW role \in ProposerRoles, NEW n \in TokenCounts,
         CreateModuleProposal(u, role, n)
  PROVE  \E x \in Proposal : Opens(x) /\ x.pre_sponsor_amount = 0 /\ UNCHANGED escrow
  <1> DEFINE x == NewProposal(u, role, n)
  <1>1. /\ x \in Proposal /\ Whole(x) /\ x.pre_sponsor_amount = 0
        /\ x.status = "Voting" /\ x.banned = {} /\ x.deposit = config.proposal_deposit
    BY NewOK
  <1>2. next_id \in ProposalIds
    BY BoundsAssumption DEF IInv, TypeOK, CreateModuleProposal, ProposalIds
  <1>3. vault' \in Nat /\ vault' = vault + config.proposal_deposit
    BY ConfigOK DEF IInv, TypeOK, CreateModuleProposal
  <1>4. /\ proposals' = [proposals EXCEPT ![next_id] = x] /\ next_id' = next_id + 1
        /\ UNCHANGED <<envVars, votes, escrow, stray, minted, treasury>>
    BY DEF CreateModuleProposal
  <1> HIDE DEF x
  <1> QED BY <1>1, <1>2, <1>3, <1>4 DEF Opens

LEMMA SponsorOpens ==
  ASSUME IInv, NEW u \in Users, NEW n \in TokenCounts, NEW a \in Assets,
         CreateSponsorProposal(u, n, a)
  PROVE  \E x \in Proposal :
           /\ Opens(x) /\ x.pre_sponsor_amount > 0 /\ x.pre_sponsor_amount <= x.amount
           /\ Quoted(x) /\ pre_sponsor_locked(x) \in Nat
           /\ escrow' = [escrow EXCEPT ![next_id] = pre_sponsor_locked(x)]
  <1> DEFINE price == price_per_token(config.terms, Decimals[a])
             pre == config.pre_sponsor_amount
             new == NewProposal(u, "ModuleSponsor", n)
             x == [new EXCEPT !.asset = a, !.pre_sponsor_amount = pre,
                              !.pre_sponsor_price = price]
  <1>1. price \in Nat /\ pre \in Nat
    BY ConfigOK, PriceNat DEF IInv
  <1>2. /\ pre > 0 /\ pre <= n
        /\ escrow' = [escrow EXCEPT ![next_id] = price * pre]
        /\ proposals' = [proposals EXCEPT ![next_id] = x] /\ next_id' = next_id + 1
        /\ UNCHANGED <<envVars, votes, stray, minted, treasury>>
    <2>1. pre \in 1..n /\ n \in Nat
      BY InputsNat DEF CreateSponsorProposal
    <2>2. pre > 0 /\ pre <= n
      BY <2>1
    <2> QED BY <2>2 DEF CreateSponsorProposal
  <1>3. /\ new \in Proposal /\ Whole(new) /\ new.amount = n
        /\ new.status = "Voting" /\ new.banned = {} /\ new.deposit = config.proposal_deposit
    BY NewOK DEF ProposerRoles
  <1>13. new.terms = config.terms /\ PriceFits(config.terms, Decimals[a])
    BY DEF NewProposal, CreateSponsorProposal
  <1>14. price = price_per_token(config.terms, Decimals[a])
    OBVIOUS
  <1> HIDE DEF price, pre, new
  <1>4. x \in Proposal
    BY <1>1, <1>3 DEF Proposal
  <1>5. /\ Whole(x) /\ x.amount = n /\ x.pre_sponsor_amount = pre
        /\ x.pre_sponsor_price = price
        /\ x.status = "Voting" /\ x.banned = {} /\ x.deposit = config.proposal_deposit
    BY <1>3 DEF Proposal, Whole
  <1>6. pre_sponsor_locked(x) = price * pre
    BY <1>5 DEF pre_sponsor_locked
  <1>7. price * pre \in Nat
    BY <1>1
  <1>8. next_id \in ProposalIds
    BY BoundsAssumption DEF IInv, TypeOK, CreateSponsorProposal, ProposalIds
  <1>9. vault' \in Nat /\ vault' = vault + config.proposal_deposit
    BY ConfigOK DEF IInv, TypeOK, CreateSponsorProposal
  <1>15. x.terms = config.terms /\ x.asset = a
    BY <1>3, <1>13 DEF Proposal
  <1>16. Quoted(x)
    BY <1>5, <1>13, <1>14, <1>15 DEF Quoted
  <1> HIDE DEF x
  <1>10. Opens(x)
    BY <1>2, <1>4, <1>5, <1>8, <1>9 DEF Opens
  <1>11. escrow' = [escrow EXCEPT ![next_id] = pre_sponsor_locked(x)]
    BY <1>2, <1>6
  <1>12. pre_sponsor_locked(x) \in Nat
    BY <1>6, <1>7
  <1> QED BY <1>2, <1>4, <1>5, <1>10, <1>11, <1>12, <1>16

LEMMA LockedNat ==
  ASSUME NEW p \in Proposal PROVE pre_sponsor_locked(p) \in Nat
  <1>1. p.pre_sponsor_price \in Nat /\ p.pre_sponsor_amount \in Nat
    BY ProposalFields
  <1> QED BY <1>1, ProductNat DEF pre_sponsor_locked

LEMMA MintedOK ==
  ASSUME NEW u \in Users, NEW p \in Proposal
  PROVE  MintedModule(u, p) \in Minted
  <1> DEFINE locked == pre_sponsor_locked(p)
             rest == IF p.pre_sponsor_amount <= p.amount
                     THEN p.amount - p.pre_sponsor_amount ELSE 0
             sponsor == IF p.pre_sponsor_amount = 0 THEN None ELSE p.proposer
  <1>1. /\ p.bond \in Nat /\ p.terms \in Terms /\ p.amount \in Nat
        /\ p.pre_sponsor_amount \in Nat /\ p.pre_sponsor_price \in Nat
        /\ p.proposer \in Users
    BY ProposalFields
  <1>2. locked \in Nat
    BY LockedNat
  <1>3. rest \in Nat /\ sponsor \in Users \cup {None}
    BY <1>1
  <1>4. MintedModule(u, p) =
          [creator |-> u, deposit |-> p.bond, terms |-> p.terms, total |-> p.amount,
           sponsor_allocation |-> rest, school_allocation |-> p.pre_sponsor_amount,
           sponsor |-> sponsor, price_per_token |-> p.pre_sponsor_price,
           sponsor_escrow |-> locked]
    BY DEF MintedModule, write_module
  <1> HIDE DEF locked, rest, sponsor
  <1> QED BY <1>1, <1>2, <1>3, <1>4 DEF Minted

Closes(id) ==
  LET p == proposals[id] IN
  /\ p \in Proposal
  /\ proposals' = [proposals EXCEPT ![id] = None]
  /\ \/ UNCHANGED minted
     \/ \E u \in Users : minted' = [minted EXCEPT ![id] = MintedModule(u, p)]
  /\ \/ p.pre_sponsor_amount = 0 /\ UNCHANGED escrow
     \/ p.pre_sponsor_amount > 0 /\ escrow' = [escrow EXCEPT ![id] = None]
  /\ UNCHANGED <<envVars, next_id, votes, stray, xcavVars>>

LEMMA MintCloses ==
  ASSUME IInv, NEW u \in Users, NEW id \in ProposalIds,
         MintProposedModule(u, id) \/ MintSponsoredModule(u, id)
  PROVE  Closes(id)
  <1>1. proposals[id] \in Proposal
    BY DEF IInv, TypeOK, MintProposedModule, MintSponsoredModule, Mint
  <1>2. /\ minted' = [minted EXCEPT ![id] = MintedModule(u, proposals[id])]
        /\ proposals' = [proposals EXCEPT ![id] = None]
        /\ UNCHANGED <<envVars, next_id, votes, stray, xcavVars>>
    BY DEF MintProposedModule, MintSponsoredModule, Mint
  <1>3. \/ proposals[id].pre_sponsor_amount = 0 /\ UNCHANGED escrow
        \/ /\ proposals[id].pre_sponsor_amount > 0
           /\ escrow' = [escrow EXCEPT ![id] = None]
    BY DEF MintProposedModule, MintSponsoredModule
  <1> QED BY <1>1, <1>2, <1>3 DEF Closes

LEMMA ReclaimCloses ==
  ASSUME IInv, NEW u \in Users, NEW id \in ProposalIds, ReclaimPreSponsor(u, id)
  PROVE  Closes(id)
  BY DEF IInv, TypeOK, ReclaimPreSponsor, MayReclaim, Closes

LEMMA ClearCloses ==
  ASSUME IInv, NEW id \in ProposalIds, ClearProposal(id)
  PROVE  Closes(id)
  BY DEF IInv, TypeOK, ClearProposal, MayClear, Clearable, Closes

Rests ==
  /\ UNCHANGED <<next_id, proposals, minted>>
  /\ now' \in Nat /\ config' \in Configs /\ roles' \subseteq Users \X RoleNames
  /\ votes' \in [ProposalIds -> [Users -> VoteRecord \cup {None}]]
  /\ MoneyOK
  /\ \/ UNCHANGED <<escrow, stray>>
     \/ \E id \in ProposalIds : /\ escrow[id] # None
                                 /\ escrow' = [escrow EXCEPT ![id] = @ + 1]
                                 /\ stray' = [stray EXCEPT ![id] = @ + 1]

LEMMA UnlockRests ==
  ASSUME IInv, NEW u \in Users, NEW id \in ProposalIds, UnlockProposalVote(u, id)
  PROVE  Rests
  <1>1. votes[id][u] \in VoteRecord /\ votes[id][u].power \in Nat
    BY DEF IInv, TypeOK, UnlockProposalVote, MayUnlock, VoteRecord
  <1>2. votes' \in [ProposalIds -> [Users -> VoteRecord \cup {None}]]
    BY DEF IInv, TypeOK, UnlockProposalVote, MayUnlock
  <1>3. MoneyOK
    BY <1>1 DEF IInv, TypeOK, UnlockProposalVote, MayUnlock, MoneyOK
  <1>4. UNCHANGED <<envVars, next_id, proposals, escrow, stray, minted>>
    BY DEF UnlockProposalVote, MayUnlock
  <1> QED BY <1>2, <1>3, <1>4 DEF IInv, TypeOK, Rests, envVars

LEMMA EnvironmentRests ==
  ASSUME IInv, \/ UpdateConfig \/ WithdrawTreasury \/ Tick \/ UNCHANGED vars
               \/ \E grant \in RoleChanges : ChangeRole(grant)
               \/ \E id \in ProposalIds : StrayTransfer(id)
  PROVE  Rests
  <1>1. /\ now' \in Nat /\ config' \in Configs /\ roles' \subseteq Users \X RoleNames
    BY InputsAssumption
       DEF IInv, TypeOK, UpdateConfig, WithdrawTreasury, ChangeRole, StrayTransfer, Tick,
           vars, envVars
  <1>2. UNCHANGED <<next_id, proposals, minted, votes, vault>> /\ treasury' \in Nat
    BY DEF IInv, TypeOK, UpdateConfig, WithdrawTreasury, ChangeRole, StrayTransfer, Tick,
           vars, xcavVars
  <1>3. \/ UNCHANGED <<escrow, stray>>
        \/ \E id \in ProposalIds : StrayTransfer(id)
    BY DEF UpdateConfig, WithdrawTreasury, ChangeRole, Tick, vars
  <1> QED BY <1>1, <1>2, <1>3 DEF IInv, TypeOK, MoneyOK, Rests, StrayTransfer
-----------------------------------------------------------------------------
(* So every step has one of four shapes. *)

OpensPlain(x) == Opens(x) /\ x.pre_sponsor_amount = 0 /\ UNCHANGED escrow
OpensSponsored(x) ==
  /\ Opens(x) /\ x.pre_sponsor_amount > 0 /\ x.pre_sponsor_amount <= x.amount
  /\ Quoted(x)
  /\ escrow' = [escrow EXCEPT ![next_id] = pre_sponsor_locked(x)]
RewritesWell(id) ==
  /\ Rewrites(id) /\ MoneyOK
  /\ votes' \in [ProposalIds -> [Users -> VoteRecord \cup {None}]]

LEMMA StepShape ==
  ASSUME IInv, [Next]_vars
  PROVE  \/ \E x \in Proposal : OpensPlain(x) \/ OpensSponsored(x)
         \/ \E id \in ProposalIds : RewritesWell(id) \/ Closes(id)
         \/ Rests
  <1> DEFINE Shape == \/ \E x \in Proposal : OpensPlain(x) \/ OpensSponsored(x)
                      \/ \E id \in ProposalIds : RewritesWell(id) \/ Closes(id)
                      \/ Rests
  <1>1. ASSUME NEW u \in Users, NEW n \in TokenCounts,
               \/ \E role \in ProposerRoles : CreateModuleProposal(u, role, n)
               \/ \E a \in Assets : CreateSponsorProposal(u, n, a)
        PROVE  Shape
    BY <1>1, CreateOpens, SponsorOpens DEF OpensPlain, OpensSponsored
  <1>2. UNCHANGED votes => votes' \in [ProposalIds -> [Users -> VoteRecord \cup {None}]]
    BY DEF IInv, TypeOK
  <1>3. ASSUME NEW u \in Users, NEW id \in ProposalIds,
               \/ ClaimProposal(u, id) \/ UploadProposal(u, id)
               \/ \E passed \in BOOLEAN : ReviewProposal(u, id, passed)
        PROVE  Shape
    BY <1>2, <1>3, ClaimRewrites, UploadRewrites, ReviewRewrites DEF RewritesWell
  <1>4. ASSUME NEW u \in Users, NEW id \in ProposalIds,
               \/ MintProposedModule(u, id) \/ MintSponsoredModule(u, id)
               \/ ReclaimPreSponsor(u, id)
        PROVE  Shape
    BY <1>4, MintCloses, ReclaimCloses
  <1>5. ASSUME NEW u \in Users, NEW id \in ProposalIds, UnlockProposalVote(u, id)
        PROVE  Shape
    BY <1>5, UnlockRests
  <1>6. ASSUME NEW u \in Voters, NEW id \in ProposalIds, NEW vote \in Ballots,
               NEW amount \in Powers, VoteOnProposal(u, id, vote, amount)
        PROVE  Shape
    BY <1>6, VoteRewrites, InputsAssumption DEF RewritesWell
  <1>7. ASSUME NEW id \in ProposalIds,
               \/ FinalizeProposal(id) \/ ReleaseClaim(id) \/ ExpireProposal(id)
        PROVE  Shape
    BY <1>2, <1>7, FinalizeRewrites, ReleaseRewrites, ExpireRewrites DEF RewritesWell
  <1>8. ASSUME NEW id \in ProposalIds, ClearProposal(id)
        PROVE  Shape
    BY <1>8, ClearCloses
  <1>9. ASSUME \/ UpdateConfig \/ WithdrawTreasury \/ Tick \/ UNCHANGED vars
               \/ \E grant \in RoleChanges : ChangeRole(grant)
               \/ \E id \in ProposalIds : StrayTransfer(id)
        PROVE  Shape
    BY <1>9, EnvironmentRests
  <1> HIDE DEF Shape
  <1>10. Shape
    BY <1>1, <1>3, <1>4, <1>5, <1>6, <1>7, <1>8, <1>9 DEF Next
  <1> QED BY <1>10 DEF Shape

LEMMA IInvInit == Init => IInv
  BY InputsAssumption DEF Init, IInv, TypeOK, ReservationsWhole, Live

LEMMA RestsTyped ==
  ASSUME IInv, Rests
  PROVE  IInv'
  <1>1. escrow' \in [ProposalIds -> Nat \cup {None}] /\ stray' \in [ProposalIds -> Nat]
    <2>1. CASE UNCHANGED <<escrow, stray>>
      BY <2>1 DEF IInv, TypeOK
    <2>2. ASSUME NEW id \in ProposalIds, escrow[id] # None,
                 escrow' = [escrow EXCEPT ![id] = @ + 1],
                 stray' = [stray EXCEPT ![id] = @ + 1]
          PROVE  escrow' \in [ProposalIds -> Nat \cup {None}]
                 /\ stray' \in [ProposalIds -> Nat]
      <3>1. escrow[id] \in Nat /\ stray[id] \in Nat
        BY <2>2 DEF IInv, TypeOK
      <3>2. escrow[id] + 1 \in Nat /\ stray[id] + 1 \in Nat
        BY <3>1
      <3> QED BY <2>2, <3>2 DEF IInv, TypeOK
    <2> QED BY <2>1, <2>2 DEF Rests
  <1>2. TypeOK'
    BY <1>1 DEF Rests, MoneyOK, IInv, TypeOK
  <1>3. ReservationsWhole'
    BY DEF Rests, IInv, ReservationsWhole, Live
  <1> QED BY <1>2, <1>3 DEF IInv

LEMMA IInvStep == IInv /\ [Next]_vars => IInv'
  <1> SUFFICES ASSUME IInv, [Next]_vars PROVE IInv'
    OBVIOUS
  <1>1. ASSUME NEW x \in Proposal, OpensPlain(x) \/ OpensSponsored(x) PROVE IInv'
    <2>1. Opens(x)
      BY <1>1 DEF OpensPlain, OpensSponsored
    <2>2. escrow' \in [ProposalIds -> Nat \cup {None}]
      BY <1>1, <2>1, LockedNat DEF OpensPlain, OpensSponsored, IInv, TypeOK
    <2>3. proposals' \in [ProposalIds -> Proposal \cup {None}] /\ next_id' \in Nat
      BY <2>1 DEF Opens, IInv, TypeOK
    <2>4. TypeOK'
      BY <2>1, <2>2, <2>3 DEF Opens, IInv, TypeOK, envVars
    <2>5. ReservationsWhole'
      BY <2>1 DEF Opens, IInv, TypeOK, ReservationsWhole, Live
    <2> QED BY <2>4, <2>5 DEF IInv
  <1>2. ASSUME NEW id \in ProposalIds, RewritesWell(id) PROVE IInv'
    <2>1. PICK x \in Proposal : proposals' = [proposals EXCEPT ![id] = x] /\ Whole(x)
      BY <1>2 DEF RewritesWell, Rewrites
    <2>2. TypeOK'
      BY <1>2, <2>1 DEF RewritesWell, Rewrites, MoneyOK, IInv, TypeOK, envVars
    <2>3. ReservationsWhole'
      BY <2>1 DEF IInv, TypeOK, ReservationsWhole, Live
    <2> QED BY <2>2, <2>3 DEF IInv
  <1>3. ASSUME NEW id \in ProposalIds, Closes(id) PROVE IInv'
    <2>1. minted' \in [ProposalIds -> Minted \cup {None}]
      BY <1>3, MintedOK DEF Closes, IInv, TypeOK
    <2>2. TypeOK'
      BY <1>3, <2>1 DEF Closes, IInv, TypeOK, envVars, xcavVars
    <2>3. ReservationsWhole'
      BY <1>3 DEF Closes, IInv, TypeOK, ReservationsWhole, Live
    <2> QED BY <2>2, <2>3 DEF IInv
  <1> QED BY <1>1, <1>2, <1>3, RestsTyped, StepShape

\* Every account of module proposals stays well formed and no balance, tally or
\* allocation goes below zero, for any users, proposals and parameters.
THEOREM TypeCorrect == Spec => []TypeOK
  <1>1. IInv => TypeOK
    BY DEF IInv
  <1> QED BY <1>1, IInvInit, IInvStep, PTL DEF Spec

\* Claimant, bond and deadline of a reservation come and go together, and its
\* holder may build, through every release, review and expiry.
THEOREM ReservationTheorem == Spec => []ReservationsWhole
  <1>1. IInv => ReservationsWhole
    BY DEF IInv
  <1> QED BY <1>1, IInvInit, IInvStep, PTL DEF Spec
-----------------------------------------------------------------------------
(* The advance payment of a sponsor.  An id not handed out has nothing, and an
   offer never pays for more tokens than the module has.                     *)

Fresh ==
  \A id \in ProposalIds : id >= next_id =>
    proposals[id] = None /\ escrow[id] = None /\ minted[id] = None /\ stray[id] = 0

Covered(id) == proposals[id] # None =>
  /\ proposals[id].pre_sponsor_amount <= proposals[id].amount
  /\ Quoted(proposals[id])

PInv == IInv /\ Fresh /\ PreSponsorshipKept /\ \A id \in ProposalIds : Covered(id)

LEMMA PInvInit == Init => PInv
  BY IInvInit DEF Init, PInv, Fresh, PreSponsorshipKept, Kept, Covered

\* What Kept and Covered say of an id depends on its own entries only.
LEMMA SameKept ==
  ASSUME NEW id \in ProposalIds, Kept(id), Covered(id),
         proposals'[id] = proposals[id], minted'[id] = minted[id],
         escrow'[id] = escrow[id], stray'[id] = stray[id]
  PROVE  Kept(id)' /\ Covered(id)'
  BY DEF Kept, Covered, Quoted, pre_sponsor_locked

LEMMA OpensKept ==
  ASSUME PInv, NEW x \in Proposal, OpensPlain(x) \/ OpensSponsored(x)
  PROVE  Fresh' /\ \A id \in ProposalIds : Kept(id)' /\ Covered(id)'
  <1>1. Opens(x) /\ next_id \in ProposalIds /\ next_id \in Nat /\ next_id' = next_id + 1
    BY DEF OpensPlain, OpensSponsored, Opens, PInv, IInv, TypeOK
  <1>2. /\ escrow[next_id] = None /\ minted[next_id] = None /\ stray[next_id] = 0
    BY <1>1 DEF PInv, Fresh
  <1>3. \A id \in ProposalIds : id # next_id =>
          /\ proposals'[id] = proposals[id] /\ minted'[id] = minted[id]
          /\ escrow'[id] = escrow[id] /\ stray'[id] = stray[id]
    BY <1>1 DEF OpensPlain, OpensSponsored, Opens, PInv, IInv, TypeOK
  <1>4. Fresh'
    BY <1>1, <1>3 DEF PInv, Fresh, ProposalIds
  <1>5. ASSUME NEW id \in ProposalIds PROVE Kept(id)' /\ Covered(id)'
    <2>1. CASE id # next_id
      BY <1>3, <2>1, SameKept DEF PInv, PreSponsorshipKept
    <2>2. CASE id = next_id
      <3>1. proposals'[id] = x /\ minted'[id] = None /\ stray'[id] = 0
        BY <1>1, <1>2, <2>2 DEF Opens, PInv, IInv, TypeOK
      <3>2. x # None /\ x.amount \in Nat /\ pre_sponsor_locked(x) \in Nat
        BY ProposalFields, LockedNat
      <3>3. CASE OpensPlain(x)
        <4>1. escrow'[id] = None /\ x.pre_sponsor_amount = 0
          BY <1>2, <2>2, <3>3 DEF OpensPlain
        <4> QED BY <3>1, <3>2, <4>1 DEF Kept, Covered, Quoted
      <3>4. CASE OpensSponsored(x)
        <4>1. /\ escrow'[id] = pre_sponsor_locked(x) /\ x.pre_sponsor_amount > 0
              /\ x.pre_sponsor_amount <= x.amount /\ Quoted(x)
          BY <2>2, <3>4 DEF OpensSponsored, PInv, IInv, TypeOK
        <4> QED BY <3>1, <3>2, <4>1 DEF Kept, Covered, pre_sponsor_locked
      <3> QED BY <3>3, <3>4
    <2> QED BY <2>1, <2>2
  <1> QED BY <1>4, <1>5

LEMMA RewritesKept ==
  ASSUME PInv, NEW id \in ProposalIds, RewritesWell(id)
  PROVE  Fresh' /\ \A i \in ProposalIds : Kept(i)' /\ Covered(i)'
  <1> PICK x \in Proposal : /\ proposals' = [proposals EXCEPT ![id] = x]
                           /\ SameOffer(x, proposals[id])
    BY DEF RewritesWell, Rewrites
  <1>1. /\ proposals[id] \in Proposal /\ proposals[id] # None /\ x # None
        /\ UNCHANGED <<next_id, escrow, stray, minted>>
    BY ProposalFields DEF RewritesWell, Rewrites
  <1>2. proposals'[id] = x /\ \A i \in ProposalIds : i # id => proposals'[i] = proposals[i]
    BY DEF PInv, IInv, TypeOK
  <1>3. Fresh'
    BY <1>1, <1>2 DEF PInv, Fresh
  <1>4. Kept(id)' /\ Covered(id)'
    <2>1. Kept(id) /\ Covered(id)
      BY DEF PInv, PreSponsorshipKept
    <2>2. pre_sponsor_locked(x) = pre_sponsor_locked(proposals[id])
      BY DEF SameOffer, pre_sponsor_locked
    <2>3. Kept(id)'
      BY <1>1, <1>2, <2>1, <2>2 DEF Kept, SameOffer, pre_sponsor_locked
    <2> QED BY <1>1, <1>2, <2>1, <2>3 DEF Covered, Quoted, SameOffer
  <1>5. \A i \in ProposalIds : i # id => Kept(i)' /\ Covered(i)'
    BY <1>1, <1>2, SameKept DEF PInv, PreSponsorshipKept
  <1> QED BY <1>3, <1>4, <1>5

LEMMA ClosesKept ==
  ASSUME PInv, NEW id \in ProposalIds, Closes(id)
  PROVE  Fresh' /\ \A i \in ProposalIds : Kept(i)' /\ Covered(i)'
  <1> DEFINE p == proposals[id]
  <1>1. /\ p \in Proposal /\ p # None /\ p.amount \in Nat
        /\ p.pre_sponsor_amount \in Nat /\ p.proposer \in Users
        /\ p.proposer # None
    BY ProposalFields, NoneAssumption DEF Closes
  <1>2. /\ proposals'[id] = None
        /\ \A i \in ProposalIds : i # id =>
             /\ proposals'[i] = proposals[i] /\ minted'[i] = minted[i]
             /\ escrow'[i] = escrow[i]
        /\ UNCHANGED <<next_id, stray>>
    BY DEF Closes, PInv, IInv, TypeOK
  <1>3. Kept(id) /\ Covered(id)
    BY DEF PInv, PreSponsorshipKept
  <1>4. next_id \in Nat /\ id \in Nat /\ id < next_id
    BY <1>1 DEF PInv, IInv, TypeOK, Fresh, ProposalIds
  <1>5. Fresh'
    BY <1>2, <1>4 DEF PInv, Fresh, ProposalIds
  <1>6. escrow'[id] = None
    <2>1. CASE p.pre_sponsor_amount = 0
      BY <1>1, <1>3, <2>1 DEF Closes, Kept
    <2>2. CASE p.pre_sponsor_amount > 0
      BY <1>1, <2>2 DEF Closes, PInv, IInv, TypeOK
    <2> QED BY <1>1, <2>1, <2>2
  <1>7. minted[id] = None
    BY <1>1, <1>3 DEF Kept
  <1>8. ASSUME NEW u \in Users, minted'[id] = MintedModule(u, p) PROVE Kept(id)'
    <2>1. /\ minted'[id].sponsor_escrow = minted'[id].price_per_token
                                             * minted'[id].school_allocation
          /\ minted'[id].sponsor = None <=> minted'[id].school_allocation = 0
      BY <1>1, <1>8 DEF MintedModule, write_module, pre_sponsor_locked
    <2>2. minted'[id].sponsor_allocation + minted'[id].school_allocation
            = minted'[id].total
      BY <1>1, <1>3, <1>8 DEF MintedModule, write_module, Covered
    <2> QED BY <1>2, <1>6, <2>1, <2>2 DEF Kept
  <1>9. minted'[id] = None \/ \E u \in Users : minted'[id] = MintedModule(u, p)
    BY <1>7 DEF Closes, PInv, IInv, TypeOK
  <1>10. Kept(id)' /\ Covered(id)'
    BY <1>2, <1>6, <1>8, <1>9 DEF Kept, Covered
  <1>11. \A i \in ProposalIds : i # id => Kept(i)' /\ Covered(i)'
    BY <1>2, SameKept DEF PInv, PreSponsorshipKept
  <1> QED BY <1>5, <1>10, <1>11

LEMMA RestsKept ==
  ASSUME PInv, Rests
  PROVE  Fresh' /\ \A i \in ProposalIds : Kept(i)' /\ Covered(i)'
  <1>1. UNCHANGED <<next_id, proposals, minted>>
    BY DEF Rests
  <1>2. CASE UNCHANGED <<escrow, stray>>
    BY <1>1, <1>2, SameKept DEF PInv, Fresh, PreSponsorshipKept
  <1>3. ASSUME NEW id \in ProposalIds, escrow[id] # None,
               escrow' = [escrow EXCEPT ![id] = @ + 1],
               stray' = [stray EXCEPT ![id] = @ + 1]
        PROVE  Fresh' /\ \A i \in ProposalIds : Kept(i)' /\ Covered(i)'
    <2>1. /\ escrow'[id] = escrow[id] + 1 /\ stray'[id] = stray[id] + 1
          /\ \A i \in ProposalIds : i # id =>
               escrow'[i] = escrow[i] /\ stray'[i] = stray[i]
      BY <1>3 DEF PInv, IInv, TypeOK
    <2>2. /\ proposals[id] \in Proposal /\ proposals[id].pre_sponsor_amount > 0
          /\ escrow[id] = pre_sponsor_locked(proposals[id]) + stray[id]
          /\ minted[id] = None
      BY <1>3 DEF PInv, IInv, TypeOK, PreSponsorshipKept, Kept
    <2>3. pre_sponsor_locked(proposals[id]) \in Nat /\ stray[id] \in Nat
      BY <2>2, LockedNat DEF PInv, IInv, TypeOK
    <2>4. Fresh'
      BY <1>1, <1>3, <2>1 DEF PInv, Fresh
    <2>5. escrow'[id] = pre_sponsor_locked(proposals[id]) + stray'[id]
      BY <2>1, <2>2, <2>3
    <2>6. Kept(id)'
      <3>1. proposals'[id] = proposals[id] /\ minted'[id] = None
        BY <1>1, <2>2
      <3>2. proposals[id] # None
        BY <2>2, ProposalFields
      <3> QED BY <2>2, <2>5, <3>1, <3>2 DEF Kept
    <2>7. Covered(id)'
      BY <1>1 DEF PInv, Covered, Quoted
    <2>8. \A i \in ProposalIds : i # id => Kept(i)' /\ Covered(i)'
      BY <1>1, <2>1, SameKept DEF PInv, PreSponsorshipKept
    <2> QED BY <2>4, <2>6, <2>7, <2>8
  <1> QED BY <1>2, <1>3 DEF Rests

LEMMA RestsWell == PInv /\ Rests => PInv'
  <1> SUFFICES ASSUME PInv, Rests PROVE PInv'
    OBVIOUS
  <1>1. IInv'
    BY RestsTyped DEF PInv
  <1> QED BY <1>1, RestsKept DEF PInv, PreSponsorshipKept

LEMMA PInvStep == PInv /\ [Next]_vars => PInv'
  <1> SUFFICES ASSUME PInv, [Next]_vars PROVE PInv'
    OBVIOUS
  <1>1. IInv /\ IInv'
    BY IInvStep DEF PInv
  <1>2. Fresh' /\ \A id \in ProposalIds : Kept(id)' /\ Covered(id)'
    BY <1>1, StepShape, OpensKept, RewritesKept, ClosesKept, RestsKept
  <1> QED BY <1>1, <1>2 DEF PInv, PreSponsorshipKept

\* A sponsor's advance payment is in its proposal's escrow to the unit until it
\* is paid back or becomes, in full and once, a sponsorship of the module minted.
THEOREM PreSponsorshipTheorem == Spec => []PreSponsorshipKept
  <1>1. PInv => PreSponsorshipKept
    BY DEF PInv
  <1> QED BY <1>1, PInvInit, PInvStep, PTL DEF Spec
-----------------------------------------------------------------------------
(* The deadline of an awaited upload. *)

\* An instruction on another proposal, or on none, leaves a reservation alone.
LEMMA HonouredApart ==
  ASSUME IInv, NEW id \in Live, proposals'[id] = proposals[id]
  PROVE  Honoured(id)
  BY DEF Honoured, Live

LEMMA HonouredStep ==
  ASSUME PInv, [Next]_vars, NEW id \in Live
  PROVE  Honoured(id)
  <1> SUFFICES ASSUME proposals[id].status = "Claimed",
                      now < proposals[id].upload_deadline
               PROVE  Honoured(id)
    BY DEF Honoured
  <1>1. /\ id \in ProposalIds /\ proposals[id] \in Proposal /\ proposals[id] # None
        /\ proposals[id].upload_deadline \in Nat /\ now \in Nat
        /\ proposals \in [ProposalIds -> Proposal \cup {None}]
    BY ProposalFields DEF PInv, IInv, TypeOK, Live
  <1>2. ASSUME NEW i \in ProposalIds, NEW x, proposals' = [proposals EXCEPT ![i] = x],
               i # id
        PROVE  Honoured(id)
    BY <1>1, <1>2, HonouredApart DEF PInv
  <1>3. ASSUME NEW x \in Proposal, OpensPlain(x) \/ OpensSponsored(x)
        PROVE  Honoured(id)
    <2>1. proposals' = [proposals EXCEPT ![next_id] = x] /\ next_id \in ProposalIds
      BY <1>3 DEF OpensPlain, OpensSponsored, Opens
    <2>2. next_id # id
      BY <1>1, <2>1 DEF PInv, IInv, TypeOK, Fresh, ProposalIds
    <2> QED BY <1>2, <2>1, <2>2
  <1>4. CASE Rests
    BY <1>1, <1>4, HonouredApart DEF Rests, PInv
  <1>5. ASSUME NEW u \in Users, UploadProposal(u, id) PROVE Honoured(id)
    <2> DEFINE x == [proposals[id] EXCEPT !.upload_deadline = 0, !.status = "UnderReview"]
    <2>1. proposals'[id] = x
      BY <1>1, <1>5 DEF UploadProposal
    <2>2. x \in Proposal /\ x.claimant = proposals[id].claimant
          /\ x.bond = proposals[id].bond
      BY <1>1 DEF Proposal, Statuses
    <2> QED BY <2>1, <2>2, ProposalFields DEF Honoured
  <1>6. ASSUME NEW u \in Users, NEW i \in ProposalIds,
               \/ ClaimProposal(u, i) \/ UploadProposal(u, i)
               \/ \E passed \in BOOLEAN : ReviewProposal(u, i, passed)
               \/ MintProposedModule(u, i) \/ MintSponsoredModule(u, i)
               \/ ReclaimPreSponsor(u, i)
        PROVE  Honoured(id)
    <2>1. CASE i # id
      <3>1. Rewrites(i) \/ Closes(i)
        BY <1>6, ClaimRewrites, UploadRewrites, ReviewRewrites, MintCloses, ReclaimCloses
           DEF PInv
      <3> QED BY <1>2, <2>1, <3>1 DEF Rewrites, Closes
    <2>2. CASE i = id
      <3>1. UploadProposal(u, id)
        BY <1>6, <2>2 DEF ClaimProposal, ReviewProposal, MintProposedModule,
                          MintSponsoredModule, Mint, ReclaimPreSponsor, MayReclaim
      <3> QED BY <1>5, <3>1
    <2> QED BY <2>1, <2>2
  <1>7. ASSUME NEW u \in Voters, NEW i \in ProposalIds, NEW vote \in Ballots,
               NEW amount \in Powers, VoteOnProposal(u, i, vote, amount)
        PROVE  Honoured(id)
    <2>1. i # id
      BY <1>7 DEF VoteOnProposal
    <2>2. Rewrites(i)
      BY <1>7, VoteRewrites, InputsAssumption DEF PInv
    <2> QED BY <1>2, <2>1, <2>2 DEF Rewrites
  <1>8. ASSUME NEW i \in ProposalIds,
               \/ FinalizeProposal(i) \/ ReleaseClaim(i) \/ ExpireProposal(i)
               \/ ClearProposal(i)
        PROVE  Honoured(id)
    <2>1. now < ExpiresAt(proposals[id])
      <3>1. proposals[id].build_deadline \in Nat
        BY <1>1 DEF Proposal
      <3> QED BY <1>1, <3>1 DEF ExpiresAt
    <2>2. ExpiresAt(proposals[id]) \in Nat
      BY <1>1 DEF ExpiresAt, Proposal
    <2>3. i # id
      BY <1>1, <1>8, <2>1, <2>2
         DEF FinalizeProposal, MayFinalize, ReleaseClaim, MayRelease, ExpireProposal,
             MayExpire, ClearProposal, MayClear, Clearable
    <2>4. Rewrites(i) \/ Closes(i)
      BY <1>8, FinalizeRewrites, ReleaseRewrites, ExpireRewrites, ClearCloses DEF PInv
    <2> QED BY <1>2, <2>3, <2>4 DEF Rewrites, Closes
  <1>9. ASSUME \/ UpdateConfig \/ WithdrawTreasury \/ Tick \/ UNCHANGED vars
               \/ \E grant \in RoleChanges : ChangeRole(grant)
               \/ \E i \in ProposalIds : StrayTransfer(i)
        PROVE  Honoured(id)
    BY <1>4, <1>9, EnvironmentRests DEF PInv
  <1>10. ASSUME NEW u \in Users, NEW i \in ProposalIds, UnlockProposalVote(u, i)
         PROVE  Honoured(id)
    BY <1>4, <1>10, UnlockRests DEF PInv
  <1>11. ASSUME NEW u \in Users, NEW n \in TokenCounts,
                \/ \E role \in ProposerRoles : CreateModuleProposal(u, role, n)
                \/ \E a \in Assets : CreateSponsorProposal(u, n, a)
         PROVE  Honoured(id)
    BY <1>3, <1>11, CreateOpens, SponsorOpens DEF OpensPlain, OpensSponsored, PInv
  <1> QED BY <1>6, <1>7, <1>8, <1>9, <1>10, <1>11 DEF Next

\* Nobody who still has time to upload loses the reservation or the bond, in any
\* interleaving of expiries, releases, reviews and parameter updates.
THEOREM UploadDeadlineTheorem == Spec => UploadDeadlineHonoured
  <1>1. PInv /\ [Next]_vars => [\A id \in Live : Honoured(id)]_vars
    BY HonouredStep
  <1> QED BY <1>1, PInvInit, PInvStep, PTL DEF Spec, UploadDeadlineHonoured
-----------------------------------------------------------------------------
(* What each instruction does to the claim of the proposal it rewrites and to *)
(* the vault: what the sums and the lifecycle below are argued from.          *)

SameClaim(x, p) ==
  /\ x.claimant = p.claimant /\ x.bond = p.bond
  /\ x.failures = p.failures /\ x.banned = p.banned
Free(x) == x.claimant = None /\ x.bond = 0

Rewritten(id) ==
  /\ proposals[id] \in Proposal /\ proposals[id] # None /\ Whole(proposals[id])
  /\ proposals'[id] \in Proposal /\ proposals'[id] # None /\ Whole(proposals'[id])
  /\ \A i \in ProposalIds \ {id} : proposals'[i] = proposals[i]
  /\ UNCHANGED <<next_id, escrow, stray, minted>>

LEMMA RewritesAre ==
  ASSUME IInv, NEW id \in ProposalIds, Rewrites(id) PROVE Rewritten(id)
  <1>1. PICK x \in Proposal : proposals' = [proposals EXCEPT ![id] = x] /\ Whole(x)
    BY DEF Rewrites
  <1>2. /\ proposals'[id] = x /\ proposals[id] \in Proposal
        /\ \A i \in ProposalIds \ {id} : proposals'[i] = proposals[i]
    BY <1>1 DEF Rewrites, IInv, TypeOK
  <1>3. proposals[id] # None /\ x # None
    BY <1>2, ProposalFields
  <1>4. Whole(proposals[id])
    BY <1>3 DEF IInv, ReservationsWhole, Live
  <1> QED BY <1>1, <1>2, <1>3, <1>4 DEF Rewrites, Rewritten

LEMMA VoteEffect ==
  ASSUME IInv, NEW u \in Users, NEW id \in ProposalIds, NEW vote \in Ballots,
         NEW amount \in Powers, VoteOnProposal(u, id, vote, amount)
  PROVE  /\ Rewritten(id) /\ SameClaim(proposals'[id], proposals[id])
         /\ proposals'[id].status = proposals[id].status
         /\ proposals'[id].deposit = proposals[id].deposit
  <1>1. Rewritten(id)
    BY VoteRewrites, RewritesAre
  <1>2. PICK t : proposals' = [proposals EXCEPT ![id].tally = t]
    BY DEF VoteOnProposal
  <1>3. proposals'[id] = [proposals[id] EXCEPT !.tally = t]
    BY <1>2 DEF IInv, TypeOK
  <1> QED BY <1>1, <1>3 DEF Rewritten, Proposal, SameClaim

LEMMA FinalizeEffect ==
  ASSUME IInv, NEW id \in ProposalIds, FinalizeProposal(id)
  PROVE  /\ Rewritten(id) /\ SameClaim(proposals'[id], proposals[id])
         /\ proposals[id].status = "Voting"
         /\ proposals'[id].status \in {"Claimable", "Rejected"}
         /\ vault' = vault - proposals[id].deposit
  <1>1. Rewritten(id)
    BY FinalizeRewrites, RewritesAre
  <1>2. \/ \E d : proposals'[id] = [proposals[id] EXCEPT !.status = "Claimable",
                                                        !.build_deadline = d]
        \/ proposals'[id] = [proposals[id] EXCEPT !.status = "Rejected"]
    BY DEF FinalizeProposal, MayFinalize, IInv, TypeOK
  <1>3. proposals[id].status = "Voting" /\ vault' = vault - proposals[id].deposit
    BY DEF FinalizeProposal, MayFinalize
  <1> QED BY <1>1, <1>2, <1>3 DEF Rewritten, Proposal, SameClaim

LEMMA ClaimEffect ==
  ASSUME IInv, NEW u \in Users, NEW id \in ProposalIds, ClaimProposal(u, id)
  PROVE  /\ Rewritten(id)
         /\ proposals[id].status = "Claimable" /\ proposals'[id].status = "Claimed"
         /\ proposals'[id].claimant = u /\ u \notin proposals[id].banned
         /\ proposals'[id].bond > 0 /\ proposals'[id].failures = 0
         /\ proposals'[id].banned = proposals[id].banned
         /\ vault' = vault + proposals'[id].bond
  <1>1. Rewritten(id)
    BY ClaimRewrites, RewritesAre
  <1>2. proposals'[id] = Reserved(proposals[id], u)
    BY DEF ClaimProposal, IInv, TypeOK
  <1>3. config.module_deposit > 0
    BY ConfigOK DEF IInv
  <1>4. /\ proposals'[id].status = "Claimed" /\ proposals'[id].claimant = u
        /\ proposals'[id].bond = config.module_deposit /\ proposals'[id].failures = 0
        /\ proposals'[id].banned = proposals[id].banned
    BY <1>1, <1>2 DEF Reserved, Rewritten, Proposal
  <1>5. /\ proposals[id].status = "Claimable" /\ u \notin proposals[id].banned
        /\ vault' = vault + config.module_deposit
    BY DEF ClaimProposal, MayBuild
  <1> QED BY <1>1, <1>3, <1>4, <1>5

LEMMA UploadEffect ==
  ASSUME IInv, NEW u \in Users, NEW id \in ProposalIds, UploadProposal(u, id)
  PROVE  /\ Rewritten(id) /\ SameClaim(proposals'[id], proposals[id])
         /\ proposals[id].status = "Claimed" /\ proposals'[id].status = "UnderReview"
         /\ UNCHANGED vault
  <1>1. Rewritten(id)
    BY UploadRewrites, RewritesAre
  <1>2. proposals'[id] = [proposals[id] EXCEPT !.upload_deadline = 0, !.status = "UnderReview"]
    BY DEF UploadProposal, IInv, TypeOK
  <1>3. proposals[id].status = "Claimed" /\ UNCHANGED vault
    BY DEF UploadProposal, xcavVars
  <1> QED BY <1>1, <1>2, <1>3 DEF Rewritten, Proposal, SameClaim

LEMMA VacatedEffect ==
  ASSUME NEW p \in Proposal, NEW s \in {"Claimable", "Rejected"}
  PROVE  LET x == [Vacated(p) EXCEPT !.status = s]
         IN  Free(x) /\ x.banned = p.banned /\ x.status = s
  BY DEF Proposal, Vacated, Free

LEMMA ReleaseEffect ==
  ASSUME IInv, NEW id \in ProposalIds, ReleaseClaim(id)
  PROVE  /\ Rewritten(id) /\ Free(proposals'[id])
         /\ proposals[id].status = "Claimed" /\ proposals'[id].status = "Claimable"
         /\ proposals'[id].banned = proposals[id].banned
         /\ vault' = vault - proposals[id].bond
  <1>1. Rewritten(id)
    BY ReleaseRewrites, RewritesAre
  <1>2. proposals'[id] = [Vacated(proposals[id]) EXCEPT !.status = "Claimable"]
    BY DEF ReleaseClaim, MayRelease, IInv, TypeOK
  <1>4. /\ Free(proposals'[id]) /\ proposals'[id].banned = proposals[id].banned
        /\ proposals'[id].status = "Claimable"
    <2>1. PICK p \in Proposal : p = proposals[id]
      BY <1>1 DEF Rewritten
    <2>2. proposals'[id] = [Vacated(p) EXCEPT !.status = "Claimable"]
      BY <1>2, <2>1
    <2> QED BY <2>1, <2>2, VacatedEffect
  <1>3. proposals[id].status = "Claimed" /\ vault' = vault - proposals[id].bond
    BY DEF ReleaseClaim, MayRelease, SlashBond
  <1> QED BY <1>1, <1>3, <1>4

LEMMA ExpireEffect ==
  ASSUME IInv, NEW id \in ProposalIds, ExpireProposal(id)
  PROVE  /\ Rewritten(id) /\ Free(proposals'[id])
         /\ proposals[id].status \in {"Claimable", "Claimed", "UnderReview", "Approved"}
         /\ proposals'[id].status = "Rejected"
         /\ proposals'[id].banned = proposals[id].banned
         /\ vault' = vault - proposals[id].bond
  <1>1. Rewritten(id)
    BY ExpireRewrites, RewritesAre
  <1>2. proposals'[id] = [Vacated(proposals[id]) EXCEPT !.status = "Rejected"]
    BY DEF ExpireProposal, MayExpire, IInv, TypeOK
  <1>4. /\ Free(proposals'[id]) /\ proposals'[id].banned = proposals[id].banned
        /\ proposals'[id].status = "Rejected"
    <2>1. PICK p \in Proposal : p = proposals[id]
      BY <1>1 DEF Rewritten
    <2>2. proposals'[id] = [Vacated(p) EXCEPT !.status = "Rejected"]
      BY <1>2, <2>1
    <2> QED BY <2>1, <2>2, VacatedEffect
  <1>3. /\ proposals[id].status \in {"Claimable", "Claimed", "UnderReview", "Approved"}
        /\ vault' = vault - proposals[id].bond
    BY DEF ExpireProposal, MayExpire, SlashBond
  <1> QED BY <1>1, <1>3, <1>4

\* The four outcomes of a review.
Approves(x, p) == SameClaim(x, p) /\ x.status = "Approved" /\ UNCHANGED vault
Retries(x, p) ==
  /\ p.failures = 0 /\ x.failures = 1 /\ x.status = "Claimed"
  /\ x.claimant = p.claimant /\ x.bond = p.bond /\ x.banned = p.banned
  /\ UNCHANGED vault
Bans(x, p) ==
  /\ p.failures = 1 /\ Free(x) /\ x.status = "Claimable"
  /\ x.banned = p.banned \cup {p.claimant} /\ vault' = vault - p.bond
Drops(x, p) ==
  /\ p.failures = 1 /\ Free(x) /\ x.status = "Rejected"
  /\ x.banned = p.banned /\ vault' = vault - p.bond

LEMMA ReviewEffect ==
  ASSUME IInv, NEW u \in Users, NEW id \in ProposalIds, NEW passed \in BOOLEAN,
         ReviewProposal(u, id, passed)
  PROVE  /\ Rewritten(id) /\ proposals[id].status = "UnderReview"
         /\ LET p == proposals[id]
                x == proposals'[id]
            IN  Approves(x, p) \/ Retries(x, p) \/ Bans(x, p) \/ Drops(x, p)
  <1>1. Rewritten(id)
    BY ReviewRewrites, RewritesAre
  <1>2. PICK p \in Proposal : p = proposals[id]
    BY <1>1 DEF Rewritten
  <1>3. PICK x \in Proposal : x = proposals'[id]
    BY <1>1 DEF Rewritten
  <1>4. \A y : proposals' = [proposals EXCEPT ![id] = y] => x = y
    BY <1>3 DEF IInv, TypeOK
  <1>5. p.status = "UnderReview"
    BY <1>2 DEF ReviewProposal
  <1>6. \/ x = [p EXCEPT !.status = "Approved"] /\ UNCHANGED vault
        \/ /\ p.failures = 0 /\ UNCHANGED vault
           /\ \E d : x = [p EXCEPT !.failures = 1, !.status = "Claimed", !.upload_deadline = d]
        \/ /\ p.failures # 0 /\ vault' = vault - p.bond
           /\ \/ x = [[Vacated(p) EXCEPT !.failures = 0]
                       EXCEPT !.banned = @ \cup {p.claimant}, !.status = "Claimable"]
              \/ x = [[Vacated(p) EXCEPT !.failures = 0] EXCEPT !.status = "Rejected"]
    <2>1. CASE passed
      <3>1. proposals' = [proposals EXCEPT ![id] = [p EXCEPT !.status = "Approved"]]
            /\ UNCHANGED vault
        BY <1>2, <2>1 DEF ReviewProposal, xcavVars, IInv, TypeOK
      <3> QED BY <1>4, <3>1
    <2>2. CASE ~passed /\ p.failures = 0
      <3>1. /\ proposals' = [proposals EXCEPT ![id] =
                 [p EXCEPT !.failures = 1, !.status = "Claimed",
                           !.upload_deadline = After(now, config.upload_period)]]
            /\ UNCHANGED vault
        BY <1>2, <2>2 DEF ReviewProposal, xcavVars
      <3> QED BY <1>4, <2>2, <3>1
    <2>3. CASE ~passed /\ p.failures # 0
      <3>1. /\ proposals' = [proposals EXCEPT ![id] =
                 IF Cardinality(p.banned) < MaxBanned
                 THEN [[Vacated(p) EXCEPT !.failures = 0]
                        EXCEPT !.banned = @ \cup {p.claimant}, !.status = "Claimable"]
                 ELSE [[Vacated(p) EXCEPT !.failures = 0] EXCEPT !.status = "Rejected"]]
            /\ vault' = vault - p.bond
        BY <1>2, <2>3 DEF ReviewProposal, SlashBond
      <3> QED BY <1>4, <2>3, <3>1
    <2> QED BY <2>1, <2>2, <2>3
  <1>7. p.failures \in {0, 1}
    BY DEF Proposal
  <1>8. Approves(x, p) \/ Retries(x, p) \/ Bans(x, p) \/ Drops(x, p)
    BY <1>6, <1>7 DEF Approves, Retries, Bans, Drops, SameClaim, Free, Vacated, Proposal
  <1> QED BY <1>1, <1>2, <1>3, <1>5, <1>8

\* Minting passes the claim on to the module; the other ends leave nothing.
LEMMA CloseEffect ==
  ASSUME PInv, NEW id \in ProposalIds, Closes(id)
  PROVE  /\ proposals[id] \in Proposal /\ proposals[id] # None /\ Whole(proposals[id])
         /\ proposals'[id] = None /\ minted[id] = None /\ escrow'[id] = None
         /\ \A i \in ProposalIds \ {id} :
              /\ proposals'[i] = proposals[i] /\ minted'[i] = minted[i]
              /\ escrow'[i] = escrow[i]
         /\ UNCHANGED <<next_id, stray, votes, vault>>
  <1>1. proposals[id] \in Proposal /\ proposals[id] # None
    BY ProposalFields DEF Closes
  <1>2. Whole(proposals[id])
    BY <1>1 DEF PInv, IInv, ReservationsWhole, Live
  <1>3. /\ proposals'[id] = None
        /\ \A i \in ProposalIds \ {id} :
             /\ proposals'[i] = proposals[i] /\ minted'[i] = minted[i]
             /\ escrow'[i] = escrow[i]
        /\ UNCHANGED <<next_id, stray, votes, vault>>
    BY DEF Closes, PInv, IInv, TypeOK, xcavVars
  <1>4. Kept(id)
    BY DEF PInv, PreSponsorshipKept
  <1>5. escrow'[id] = None
    <2>1. CASE proposals[id].pre_sponsor_amount = 0
      BY <1>1, <1>4, <2>1 DEF Closes, Kept
    <2>2. CASE proposals[id].pre_sponsor_amount > 0
      BY <1>1, <2>2 DEF Closes, PInv, IInv, TypeOK
    <2> QED BY <2>1, <2>2 DEF Closes
  <1>6. minted[id] = None
    BY <1>1, <1>4 DEF Kept
  <1> QED BY <1>1, <1>2, <1>3, <1>5, <1>6

LEMMA MintEffect ==
  ASSUME PInv, NEW u \in Users, NEW id \in ProposalIds,
         MintProposedModule(u, id) \/ MintSponsoredModule(u, id)
  PROVE  /\ proposals[id].status = "Approved" /\ proposals[id].claimant = u
         /\ minted'[id] = MintedModule(u, proposals[id]) /\ minted'[id] # None
         /\ minted'[id].creator = u /\ minted'[id].deposit = proposals[id].bond
         /\ minted'[id].sponsor_escrow = pre_sponsor_locked(proposals[id])
  <1>1. proposals[id] \in Proposal
    BY DEF PInv, IInv, TypeOK, MintProposedModule, MintSponsoredModule, Mint
  <1>2. minted'[id] = MintedModule(u, proposals[id])
    BY DEF MintProposedModule, MintSponsoredModule, Mint, PInv, IInv, TypeOK
  <1>3. minted'[id] # None
    BY <1>1, <1>2, MintedOK, NoneAssumption
  <1>4. proposals[id].status = "Approved" /\ proposals[id].claimant = u
    BY DEF MintProposedModule, MintSponsoredModule, Mint
  <1> QED BY <1>2, <1>3, <1>4 DEF MintedModule, write_module
-----------------------------------------------------------------------------
(* The vault.  An instruction moves what one proposal keeps there, or the     *)
(* power of one voter; both sums follow (TotalChange).                        *)

VoteLocks == [id \in ProposalIds |-> SumFunction(VotesOn(id))]
Backed == vault = SumFunction(Deposits) + SumFunction(VoteLocks)

\* What the vault holds beyond that, which no instruction on a proposal changes.
Spare == vault - SumFunction(Deposits) - SumFunction(VoteLocks)
SpareKept == Spare' = Spare

Sums ==
  /\ Deposits \in [ProposalIds -> Nat] /\ SumFunction(Deposits) \in Nat
  /\ \A id \in ProposalIds : VotesOn(id) \in [Users -> Nat]
  /\ VoteLocks \in [ProposalIds -> Nat] /\ SumFunction(VoteLocks) \in Nat
  /\ vault \in Nat

LEMMA BackedMeans == Backed <=> DepositsBacked
  BY DEF Backed, DepositsBacked, VoteLocks

LEMMA ProposalIdsFinite == IsFiniteSet(ProposalIds)
  BY BoundsAssumption, FS_Interval DEF ProposalIds

LEMMA PartsNat ==
  ASSUME TypeOK, NEW id \in ProposalIds
  PROVE  Staked(id) \in Nat /\ Bonded(id) \in Nat /\ Deposited(id) \in Nat
  <1>1. proposals[id] # None => proposals[id].deposit \in Nat /\ proposals[id].bond \in Nat
    BY ProposalFields DEF TypeOK
  <1>2. minted[id] # None => minted[id].deposit \in Nat
    BY DEF TypeOK, Minted
  <1> QED BY <1>1, <1>2 DEF Staked, Bonded, Deposited

TypedParts(id) == Staked(id) \in Nat /\ Bonded(id) \in Nat /\ Deposited(id) \in Nat

LEMMA PartsTyped ==
  ASSUME NEW id \in ProposalIds PROVE TypeOK => TypedParts(id)
  BY PartsNat DEF TypedParts

LEMMA SumsTyped == TypeOK => Sums
  <1> SUFFICES ASSUME TypeOK PROVE Sums
    OBVIOUS
  <1>1. Deposits \in [ProposalIds -> Nat]
    <2>1. \A id \in ProposalIds : Staked(id) + Bonded(id) + Deposited(id) \in Nat
      BY PartsNat
    <2> QED BY <2>1 DEF Deposits
  <1>2. ASSUME NEW id \in ProposalIds PROVE VotesOn(id) \in [Users -> Nat]
    <2>1. ASSUME NEW u \in Users PROVE votes[id][u] # None => votes[id][u].power \in Nat
      BY DEF TypeOK, VoteRecord
    <2> QED BY <2>1 DEF VotesOn
  <1>3. VoteLocks \in [ProposalIds -> Nat]
    BY <1>2, UsersAssumption, TotalNat DEF VoteLocks
  <1> QED BY <1>1, <1>2, <1>3, ProposalIdsFinite, TotalNat DEF Sums, TypeOK

LEMMA VoteLocksKept ==
  ASSUME UNCHANGED votes PROVE SumFunction(VoteLocks)' = SumFunction(VoteLocks)
  <1>1. VoteLocks' = VoteLocks
    BY DEF VoteLocks, VotesOn
  <1> QED BY <1>1

LEMMA DepositsKept ==
  ASSUME \A id \in ProposalIds : Deposits'[id] = Deposits[id]
  PROVE  SumFunction(Deposits)' = SumFunction(Deposits)
  <1>1. Deposits' = Deposits
    BY DEF Deposits
  <1> QED BY <1>1

\* One proposal's share of the vault moves with the vault.
LEMMA OneProposalPays ==
  ASSUME TypeOK, TypeOK', NEW id \in ProposalIds,
         \A i \in ProposalIds \ {id} :
           proposals'[i] = proposals[i] /\ minted'[i] = minted[i],
         UNCHANGED votes, vault' = vault - Deposits[id] + Deposits'[id]
  PROVE  SpareKept
  <1>1. Sums /\ Sums'
    BY SumsTyped, PTL
  <1>2. ASSUME NEW i \in ProposalIds \ {id} PROVE Deposits'[i] = Deposits[i]
    <2>1. /\ Staked(i)' = Staked(i) /\ Bonded(i)' = Bonded(i)
          /\ Deposited(i)' = Deposited(i)
      BY DEF Staked, Bonded, Deposited
    <2> QED BY <2>1 DEF Deposits
  <1>3. /\ SumFunction(Deposits)' = SumFunction(Deposits) - Deposits[id] + Deposits'[id]
        /\ Deposits[id] \in Nat /\ Deposits'[id] \in Nat
    <2>1. Deposits \in [ProposalIds -> Nat] /\ Deposits' \in [ProposalIds -> Nat]
      BY <1>1 DEF Sums
    <2> QED BY <1>2, <2>1, ProposalIdsFinite, TotalChange
  <1>4. SumFunction(VoteLocks)' = SumFunction(VoteLocks)
    BY VoteLocksKept
  <1> QED BY <1>1, <1>3, <1>4 DEF SpareKept, Spare, Sums

\* What a proposal's record alone keeps in the vault.
Due(p) == (IF p.status = "Voting" THEN p.deposit ELSE 0) + p.bond

LEMMA RewritePays ==
  ASSUME TypeOK, TypeOK', NEW id \in ProposalIds, Rewritten(id), UNCHANGED votes,
         vault' = vault - Due(proposals[id]) + Due(proposals'[id])
  PROVE  SpareKept
  <1>1. /\ Deposits[id] = Staked(id) + Bonded(id) + Deposited(id)
        /\ Deposits'[id] = Staked(id)' + Bonded(id)' + Deposited(id)'
    BY DEF Deposits
  <1>2. /\ Staked(id) + Bonded(id) = Due(proposals[id])
        /\ Staked(id)' + Bonded(id)' = Due(proposals'[id])
        /\ Deposited(id)' = Deposited(id)
    BY DEF Rewritten, Staked, Bonded, Deposited, Due
  <1>3. TypedParts(id) /\ TypedParts(id)'
    BY PartsTyped, PTL
  <1>4. vault' = vault - Deposits[id] + Deposits'[id]
    BY <1>1, <1>2, <1>3 DEF TypedParts, TypeOK
  <1> QED BY <1>4, OneProposalPays DEF Rewritten

\* A proposal nobody holds has no bond; one that is not voted on has no stake.
LEMMA DueOf ==
  ASSUME NEW p \in Proposal, Whole(p)
  PROVE  /\ p.bond \in Nat /\ p.deposit \in Nat
         /\ p.status = "Voting" => Due(p) = p.deposit
         /\ p.status # "Voting" => Due(p) = p.bond
         /\ p.status \in {"Voting", "Claimable", "Rejected"} => p.bond = 0 /\ p.claimant = None
         /\ p.status \in {"Claimed", "UnderReview", "Approved"} =>
              p.bond > 0 /\ p.claimant # None
  <1>1. p.bond \in Nat /\ p.deposit \in Nat
    BY ProposalFields
  <1> QED BY <1>1 DEF Whole, Due

LEMMA OpensPays ==
  ASSUME PInv, TypeOK', NEW x \in Proposal, Opens(x)
  PROVE  SpareKept
  <1>0. TypeOK
    BY DEF PInv, IInv
  <1>1. PICK id \in ProposalIds : id = next_id
    BY DEF Opens
  <1>2. /\ proposals'[id] = x /\ UNCHANGED <<minted, votes>>
        /\ \A i \in ProposalIds \ {id} : proposals'[i] = proposals[i]
        /\ x # None /\ x.status = "Voting" /\ Whole(x)
        /\ vault' = vault + x.deposit
    BY <1>0, <1>1, ProposalFields DEF Opens, TypeOK
  <1>3. x.bond = 0 /\ x.deposit \in Nat
    BY <1>2, DueOf
  <1>4. proposals[id] = None
    BY <1>1 DEF PInv, Fresh, IInv, TypeOK
  <1>5. /\ Staked(id) = 0 /\ Bonded(id) = 0 /\ Staked(id)' = x.deposit
        /\ Bonded(id)' = 0 /\ Deposited(id)' = Deposited(id)
    BY <1>2, <1>3, <1>4 DEF Staked, Bonded, Deposited
  <1>6. /\ Deposits[id] = Staked(id) + Bonded(id) + Deposited(id)
        /\ Deposits'[id] = Staked(id)' + Bonded(id)' + Deposited(id)'
    BY DEF Deposits
  <1>7. Deposited(id) \in Nat
    BY <1>0, PartsNat
  <1>8. vault' = vault - Deposits[id] + Deposits'[id]
    BY <1>0, <1>2, <1>3, <1>5, <1>6, <1>7 DEF TypeOK
  <1> QED BY <1>0, <1>2, <1>8, OneProposalPays

LEMMA ClaimPays ==
  ASSUME IInv, TypeOK', NEW u \in Users, NEW id \in ProposalIds,
         ClaimProposal(u, id) \/ UploadProposal(u, id)
  PROVE  SpareKept
  <1>0. TypeOK /\ vault \in Nat
    BY DEF IInv, TypeOK
  <1>1. UNCHANGED votes
    BY DEF ClaimProposal, UploadProposal
  <1>2. CASE ClaimProposal(u, id)
    <2>1. /\ Rewritten(id) /\ proposals[id].status = "Claimable"
          /\ proposals'[id].status = "Claimed" /\ vault' = vault + proposals'[id].bond
      BY <1>2, ClaimEffect
    <2>2. Due(proposals[id]) = 0
      BY <2>1, DueOf DEF Rewritten
    <2>3. Due(proposals'[id]) = proposals'[id].bond /\ proposals'[id].bond \in Nat
      BY <2>1, DueOf DEF Rewritten
    <2>4. vault' = vault - Due(proposals[id]) + Due(proposals'[id])
      BY <1>0, <2>1, <2>2, <2>3
    <2> QED BY <1>0, <1>1, <2>1, <2>4, RewritePays
  <1>3. CASE UploadProposal(u, id)
    <2>1. /\ Rewritten(id) /\ proposals'[id].bond = proposals[id].bond
          /\ proposals[id].status = "Claimed" /\ proposals'[id].status = "UnderReview"
          /\ vault' = vault
      BY <1>3, UploadEffect DEF SameClaim
    <2>2. Due(proposals[id]) = proposals[id].bond /\ proposals[id].bond \in Nat
      BY <2>1, DueOf DEF Rewritten
    <2>3. Due(proposals'[id]) = proposals[id].bond
      BY <2>1, DueOf DEF Rewritten
    <2>4. vault' = vault - Due(proposals[id]) + Due(proposals'[id])
      BY <1>0, <2>1, <2>2, <2>3
    <2> QED BY <1>0, <1>1, <2>1, <2>4, RewritePays
  <1> QED BY <1>2, <1>3

\* Releases, expiries and second failures settle the bond, once.
LEMMA SettlePays ==
  ASSUME IInv, TypeOK', NEW id \in ProposalIds, Rewritten(id), UNCHANGED votes,
         proposals[id].status # "Voting", Free(proposals'[id]),
         proposals'[id].status # "Voting", vault' = vault - proposals[id].bond
  PROVE  SpareKept
  <1>0. TypeOK /\ vault \in Nat
    BY DEF IInv, TypeOK
  <1>1. Due(proposals[id]) = proposals[id].bond /\ proposals[id].bond \in Nat
    BY DueOf DEF Rewritten
  <1>2. Due(proposals'[id]) = 0
    BY DueOf DEF Rewritten, Free
  <1>3. vault' = vault - Due(proposals[id]) + Due(proposals'[id])
    BY <1>0, <1>1, <1>2
  <1> QED BY <1>0, <1>3, RewritePays

LEMMA ReviewPays ==
  ASSUME IInv, TypeOK', NEW u \in Users, NEW id \in ProposalIds,
         NEW passed \in BOOLEAN, ReviewProposal(u, id, passed)
  PROVE  SpareKept
  <1>0. TypeOK /\ vault \in Nat
    BY DEF IInv, TypeOK
  <1>1. Rewritten(id) /\ proposals[id].status = "UnderReview" /\ UNCHANGED votes
    BY ReviewEffect DEF ReviewProposal
  <1>2. CASE Approves(proposals'[id], proposals[id]) \/ Retries(proposals'[id], proposals[id])
    <2>1. /\ proposals'[id].bond = proposals[id].bond /\ vault' = vault
          /\ proposals'[id].status # "Voting"
      BY <1>2 DEF Approves, Retries, SameClaim
    <2>2. Due(proposals[id]) = proposals[id].bond /\ proposals[id].bond \in Nat
      BY <1>1, DueOf DEF Rewritten
    <2>3. Due(proposals'[id]) = proposals[id].bond
      BY <1>1, <2>1, DueOf DEF Rewritten
    <2>4. vault' = vault - Due(proposals[id]) + Due(proposals'[id])
      BY <1>0, <2>1, <2>2, <2>3
    <2> QED BY <1>0, <1>1, <2>4, RewritePays
  <1>3. CASE Bans(proposals'[id], proposals[id]) \/ Drops(proposals'[id], proposals[id])
    <2>1. /\ Free(proposals'[id]) /\ proposals'[id].status # "Voting"
          /\ vault' = vault - proposals[id].bond
      BY <1>3 DEF Bans, Drops
    <2> QED BY <1>1, <2>1, SettlePays
  <1> QED BY <1>2, <1>3, ReviewEffect

LEMMA CrankPays ==
  ASSUME IInv, TypeOK', NEW id \in ProposalIds,
         FinalizeProposal(id) \/ ReleaseClaim(id) \/ ExpireProposal(id)
  PROVE  SpareKept
  <1>0. TypeOK /\ vault \in Nat /\ UNCHANGED votes
    BY DEF IInv, TypeOK, FinalizeProposal, MayFinalize, ReleaseClaim, MayRelease,
           ExpireProposal, MayExpire
  <1>1. CASE FinalizeProposal(id)
    <2>1. /\ Rewritten(id) /\ proposals'[id].bond = proposals[id].bond
          /\ proposals[id].status = "Voting"
          /\ proposals'[id].status \in {"Claimable", "Rejected"}
          /\ vault' = vault - proposals[id].deposit
      BY <1>1, FinalizeEffect DEF SameClaim
    <2>2. Due(proposals[id]) = proposals[id].deposit /\ proposals[id].deposit \in Nat
      BY <2>1, DueOf DEF Rewritten
    <2>3. Due(proposals'[id]) = 0
      BY <2>1, DueOf DEF Rewritten
    <2>4. vault' = vault - Due(proposals[id]) + Due(proposals'[id])
      BY <1>0, <2>1, <2>2, <2>3
    <2> QED BY <1>0, <2>1, <2>4, RewritePays
  <1>2. CASE ReleaseClaim(id) \/ ExpireProposal(id)
    <2>1. /\ Rewritten(id) /\ Free(proposals'[id]) /\ proposals[id].status # "Voting"
          /\ proposals'[id].status # "Voting" /\ vault' = vault - proposals[id].bond
      BY <1>2, ReleaseEffect, ExpireEffect
    <2> QED BY <1>0, <2>1, SettlePays
  <1> QED BY <1>1, <1>2

\* Minting turns the bond into the module's deposit; a rejected proposal has
\* neither stake nor bond left when it is closed.
LEMMA ClosePays ==
  ASSUME PInv, TypeOK', NEW id \in ProposalIds, Closes(id),
         \/ UNCHANGED minted /\ proposals[id].status = "Rejected"
         \/ \E u \in Users : MintProposedModule(u, id) \/ MintSponsoredModule(u, id)
  PROVE  SpareKept
  <1>0. TypeOK /\ vault \in Nat
    BY DEF PInv, IInv, TypeOK
  <1>1. /\ proposals[id] \in Proposal /\ proposals[id] # None /\ Whole(proposals[id])
        /\ proposals'[id] = None /\ minted[id] = None
        /\ \A i \in ProposalIds \ {id} :
             proposals'[i] = proposals[i] /\ minted'[i] = minted[i]
        /\ UNCHANGED votes /\ vault' = vault
    BY CloseEffect
  <1>2. /\ Deposits[id] = Staked(id) + Bonded(id) + Deposited(id)
        /\ Deposits'[id] = Staked(id)' + Bonded(id)' + Deposited(id)'
    BY DEF Deposits
  <1>3. Staked(id)' = 0 /\ Bonded(id)' = 0 /\ Deposited(id) = 0
        /\ Bonded(id) = proposals[id].bond
    BY <1>1 DEF Staked, Bonded, Deposited
  <1>4. Staked(id) = 0 /\ Deposited(id)' = proposals[id].bond
    <2>1. CASE UNCHANGED minted /\ proposals[id].status = "Rejected"
      BY <1>1, <2>1, DueOf DEF Staked, Deposited
    <2>2. ASSUME NEW u \in Users, MintProposedModule(u, id) \/ MintSponsoredModule(u, id)
          PROVE  Staked(id) = 0 /\ Deposited(id)' = proposals[id].bond
      <3>1. /\ proposals[id].status = "Approved" /\ minted'[id] # None
            /\ minted'[id].deposit = proposals[id].bond
        BY <2>2, MintEffect
      <3> QED BY <3>1 DEF Staked, Deposited
    <2> QED BY <2>1, <2>2
  <1>5. proposals[id].bond \in Nat
    BY <1>1, DueOf
  <1>6. vault' = vault - Deposits[id] + Deposits'[id]
    BY <1>0, <1>1, <1>2, <1>3, <1>4, <1>5
  <1> QED BY <1>0, <1>1, <1>6, OneProposalPays

\* A voter's power moves with the vault, and no proposal's share does.
LEMMA OneVoter ==
  ASSUME TypeOK, TypeOK', NEW id \in ProposalIds, NEW u \in Users, NEW record,
         votes' = [votes EXCEPT ![id][u] = record],
         vault' = vault - VotesOn(id)[u] + VotesOn(id)'[u],
         \A i \in ProposalIds : Deposits'[i] = Deposits[i]
  PROVE  SpareKept
  <1>1. Sums /\ Sums'
    BY SumsTyped, PTL
  <1>2. /\ \A i \in ProposalIds \ {id} : votes'[i] = votes[i]
        /\ \A v \in Users \ {u} : votes'[id][v] = votes[id][v]
    BY DEF TypeOK
  <1>3. /\ SumFunction(VotesOn(id))' = SumFunction(VotesOn(id)) - VotesOn(id)[u] + VotesOn(id)'[u]
        /\ SumFunction(VotesOn(id)) \in Nat
        /\ VotesOn(id)[u] \in Nat /\ VotesOn(id)'[u] \in Nat
    <2>1. VotesOn(id) \in [Users -> Nat] /\ VotesOn(id)' \in [Users -> Nat]
      BY <1>1 DEF Sums
    <2>2. \A v \in Users \ {u} : VotesOn(id)'[v] = VotesOn(id)[v]
      BY <1>2 DEF VotesOn
    <2> QED BY <2>1, <2>2, UsersAssumption, TotalChange
  <1>4. VoteLocks[id] = SumFunction(VotesOn(id)) /\ VoteLocks'[id] = SumFunction(VotesOn(id))'
    BY DEF VoteLocks
  <1>5. ASSUME NEW i \in ProposalIds, i # id PROVE VoteLocks'[i] = VoteLocks[i]
    <2>1. VotesOn(i)' = VotesOn(i)
      BY <1>2, <1>5 DEF VotesOn
    <2> QED BY <2>1 DEF VoteLocks
  <1>6. SumFunction(VoteLocks)' = SumFunction(VoteLocks) - VoteLocks[id] + VoteLocks'[id]
    <2>1. VoteLocks \in [ProposalIds -> Nat] /\ VoteLocks' \in [ProposalIds -> Nat]
      BY <1>1 DEF Sums
    <2> QED BY <1>5, <2>1, ProposalIdsFinite, TotalChange
  <1>7. SumFunction(Deposits)' = SumFunction(Deposits)
    BY DepositsKept
  <1> QED BY <1>1, <1>3, <1>4, <1>6, <1>7 DEF SpareKept, Spare, Sums

LEMMA VotePays ==
  ASSUME IInv, TypeOK', NEW u \in Users, NEW id \in ProposalIds,
         NEW vote \in Ballots, NEW amount \in Powers, VoteOnProposal(u, id, vote, amount)
  PROVE  SpareKept
  <1>0. TypeOK
    BY DEF IInv
  <1>1. /\ Rewritten(id) /\ SameClaim(proposals'[id], proposals[id])
        /\ proposals'[id].status = proposals[id].status
        /\ proposals'[id].deposit = proposals[id].deposit
    BY VoteEffect
  <1> DEFINE record == [vote |-> vote, power |-> amount, expiry |-> proposals[id].expiry]
  <1>2. /\ votes' = [votes EXCEPT ![id][u] = record]
        /\ vault' = vault - (IF votes[id][u] = None THEN 0 ELSE votes[id][u].power) + amount
    BY DEF VoteOnProposal
  <1>3. votes'[id][u] = record /\ record.power = amount
    BY <1>0, <1>2 DEF TypeOK
  <1>4. votes'[id][u] # None
    <2>1. record \in VoteRecord
      BY <1>1, ProposalFields, InputsNat DEF Rewritten, VoteRecord
    <2> HIDE DEF record
    <2> QED BY <1>3, <2>1, NoneAssumption
  <1> HIDE DEF record
  <1>5. /\ VotesOn(id)[u] = IF votes[id][u] = None THEN 0 ELSE votes[id][u].power
        /\ VotesOn(id)'[u] = amount
    BY <1>3, <1>4 DEF VotesOn
  <1>6. ASSUME NEW i \in ProposalIds PROVE Deposits'[i] = Deposits[i]
    <2>1. /\ Staked(i)' = Staked(i) /\ Bonded(i)' = Bonded(i)
          /\ Deposited(i)' = Deposited(i)
      BY <1>1 DEF Rewritten, SameClaim, Staked, Bonded, Deposited
    <2> QED BY <2>1 DEF Deposits
  <1> QED BY <1>0, <1>2, <1>5, <1>6, OneVoter

LEMMA UnlockPays ==
  ASSUME IInv, TypeOK', NEW u \in Users, NEW id \in ProposalIds,
         UnlockProposalVote(u, id)
  PROVE  SpareKept
  <1>0. TypeOK
    BY DEF IInv
  <1>1. /\ votes[id][u] # None /\ UNCHANGED <<proposals, minted>>
        /\ votes' = [votes EXCEPT ![id][u] = None] /\ vault' = vault - votes[id][u].power
    BY DEF UnlockProposalVote, MayUnlock
  <1>2. votes'[id][u] = None /\ votes[id][u].power \in Nat
    BY <1>0, <1>1 DEF TypeOK, VoteRecord
  <1>3. VotesOn(id)[u] = votes[id][u].power /\ VotesOn(id)'[u] = 0
    BY <1>1, <1>2 DEF VotesOn
  <1>4. vault' = vault - VotesOn(id)[u] + VotesOn(id)'[u]
    BY <1>0, <1>1, <1>2, <1>3 DEF TypeOK
  <1>5. \A i \in ProposalIds : Deposits'[i] = Deposits[i]
    BY <1>1 DEF Deposits, Staked, Bonded, Deposited
  <1> QED BY <1>0, <1>1, <1>4, <1>5, OneVoter

LEMMA SpareStep == PInv /\ [Next]_vars => SpareKept
  <1> SUFFICES ASSUME PInv, [Next]_vars PROVE SpareKept
    OBVIOUS
  <1>0. IInv /\ TypeOK'
    BY IInvStep DEF PInv, IInv
  <1>1. ASSUME NEW u \in Users, NEW n \in TokenCounts,
               \/ \E role \in ProposerRoles : CreateModuleProposal(u, role, n)
               \/ \E a \in Assets : CreateSponsorProposal(u, n, a)
        PROVE  SpareKept
    BY <1>0, <1>1, CreateOpens, SponsorOpens, OpensPays
  <1>2. ASSUME NEW u \in Users, NEW id \in ProposalIds,
               ClaimProposal(u, id) \/ UploadProposal(u, id)
        PROVE  SpareKept
    BY <1>0, <1>2, ClaimPays
  <1>3. ASSUME NEW u \in Users, NEW id \in ProposalIds, NEW passed \in BOOLEAN,
               ReviewProposal(u, id, passed)
        PROVE  SpareKept
    BY <1>0, <1>3, ReviewPays
  <1>4. ASSUME NEW u \in Users, NEW id \in ProposalIds,
               MintProposedModule(u, id) \/ MintSponsoredModule(u, id)
        PROVE  SpareKept
    BY <1>0, <1>4, MintCloses, ClosePays
  <1>5. ASSUME NEW id \in ProposalIds,
               (\E u \in Users : ReclaimPreSponsor(u, id)) \/ ClearProposal(id)
        PROVE  SpareKept
    <2>1. Closes(id)
      BY <1>0, <1>5, ReclaimCloses, ClearCloses
    <2>2. UNCHANGED minted /\ proposals[id].status = "Rejected"
      BY <1>5 DEF ReclaimPreSponsor, MayReclaim, ClearProposal, MayClear, Clearable
    <2> QED BY <1>0, <2>1, <2>2, ClosePays
  <1>6. ASSUME NEW u \in Users, NEW id \in ProposalIds, UnlockProposalVote(u, id)
        PROVE  SpareKept
    BY <1>0, <1>6, UnlockPays
  <1>7. ASSUME NEW u \in Voters, NEW id \in ProposalIds, NEW vote \in Ballots,
               NEW amount \in Powers, VoteOnProposal(u, id, vote, amount)
        PROVE  SpareKept
    BY <1>0, <1>7, InputsAssumption, VotePays
  <1>8. ASSUME NEW id \in ProposalIds,
               FinalizeProposal(id) \/ ReleaseClaim(id) \/ ExpireProposal(id)
        PROVE  SpareKept
    BY <1>0, <1>8, CrankPays
  <1>9. ASSUME \/ UpdateConfig \/ WithdrawTreasury \/ Tick \/ UNCHANGED vars
               \/ \E grant \in RoleChanges : ChangeRole(grant)
               \/ \E id \in ProposalIds : StrayTransfer(id)
        PROVE  SpareKept
    <2>1. UNCHANGED <<proposals, minted, votes, vault>>
      BY <1>9 DEF UpdateConfig, WithdrawTreasury, Tick, ChangeRole, StrayTransfer, vars, xcavVars
    <2>2. \A i \in ProposalIds : Deposits'[i] = Deposits[i]
      BY <2>1 DEF Deposits, Staked, Bonded, Deposited
    <2> QED BY <2>1, <2>2, DepositsKept, VoteLocksKept DEF SpareKept, Spare
  <1> QED BY <1>1, <1>2, <1>3, <1>4, <1>5, <1>6, <1>7, <1>8, <1>9 DEF Next

LEMMA BackedStep == PInv /\ Backed /\ [Next]_vars => Backed'
  <1> SUFFICES ASSUME PInv, Backed, [Next]_vars PROVE Backed'
    OBVIOUS
  <1>1. SpareKept
    BY SpareStep
  <1>2. TypeOK /\ TypeOK'
    BY IInvStep DEF PInv, IInv
  <1>3. Sums /\ Sums'
    BY <1>2, SumsTyped, PTL
  <1>4. /\ vault \in Nat /\ SumFunction(Deposits) \in Nat /\ SumFunction(VoteLocks) \in Nat
        /\ vault' \in Nat /\ SumFunction(Deposits)' \in Nat /\ SumFunction(VoteLocks)' \in Nat
    BY <1>3 DEF Sums
  <1>5. vault = SumFunction(Deposits) + SumFunction(VoteLocks)
    BY DEF Backed
  <1>6. vault' - SumFunction(Deposits)' - SumFunction(VoteLocks)'
          = vault - SumFunction(Deposits) - SumFunction(VoteLocks)
    BY <1>1 DEF SpareKept, Spare
  <1>7. vault' = SumFunction(Deposits)' + SumFunction(VoteLocks)'
    BY <1>4, <1>5, <1>6
  <1> QED BY <1>7 DEF Backed

LEMMA BackedInit == Init => Backed
  <1> SUFFICES ASSUME Init PROVE Backed
    OBVIOUS
  <1>1. /\ TypeOK /\ vault = 0
        /\ \A id \in ProposalIds : proposals[id] = None /\ minted[id] = None
        /\ \A id \in ProposalIds, u \in Users : votes[id][u] = None
    BY IInvInit DEF Init, IInv
  <1>2. Sums
    BY <1>1, SumsTyped
  <1>3. \A id \in ProposalIds : Deposits[id] = 0
    BY <1>1 DEF Deposits, Staked, Bonded, Deposited
  <1>4. SumFunction(Deposits) = 0
    BY <1>2, <1>3, ProposalIdsFinite, TotalZero DEF Sums
  <1>5. ASSUME NEW id \in ProposalIds PROVE VoteLocks[id] = 0
    <2>1. \A u \in Users : VotesOn(id)[u] = 0
      BY <1>1 DEF VotesOn
    <2>2. VotesOn(id) \in [Users -> Nat]
      BY <1>2 DEF Sums
    <2> QED BY <2>1, <2>2, UsersAssumption, TotalZero DEF VoteLocks
  <1>6. SumFunction(VoteLocks) = 0
    BY <1>2, <1>5, ProposalIdsFinite, TotalZero DEF Sums
  <1> QED BY <1>1, <1>4, <1>6 DEF Backed

\* The vault holds exactly the open stakes, the bonds of the builds, the deposits
\* of the minted modules and the power still locked, for any number of users and
\* proposals: each stake and bond leaves it once, and only its own amount.
THEOREM DepositsTheorem == Spec => []DepositsBacked
  BY PInvInit, PInvStep, BackedInit, BackedStep, BackedMeans, PTL DEF Spec
-----------------------------------------------------------------------------
(* Proposals follow ProposalLifecycle: every step of the program is a step of *)
(* it on one proposal, or shows nothing of any.                               *)

Shown(i) ==
  /\ Phase(i)' = Phase(i) /\ Builder(i)' = Builder(i) /\ Tries(i)' = Tries(i)
  /\ OfProposal(i, "banned", {})' = OfProposal(i, "banned", {})
  /\ AtStake(i)' = AtStake(i) /\ Advanced(i)' = Advanced(i)

LEMMA ShownKept ==
  ASSUME NEW i \in ProposalIds, proposals'[i] = proposals[i], minted'[i] = minted[i],
         Advanced(i)' = Advanced(i), i >= next_id' <=> i >= next_id
  PROVE  Shown(i)
  <1>1. Phase(i)' = Phase(i)
    BY DEF Phase
  <1>2. /\ Builder(i)' = Builder(i) /\ Tries(i)' = Tries(i)
        /\ OfProposal(i, "banned", {})' = OfProposal(i, "banned", {})
    BY DEF Builder, Tries, OfProposal
  <1>3. AtStake(i)' = AtStake(i)
    BY DEF AtStake, Bonded
  <1> QED BY <1>1, <1>2, <1>3 DEF Shown

LEMMA AdvancedKept ==
  ASSUME NEW i \in ProposalIds, minted'[i] = minted[i], escrow'[i] = escrow[i],
         stray'[i] = stray[i]
  PROVE  Advanced(i)' = Advanced(i)
  BY DEF Advanced

\* The columns of the lifecycle when one proposal moves, and when none does.
LEMMA OneShown ==
  ASSUME NEW id \in ProposalIds, \A i \in ProposalIds \ {id} : Shown(i)
  PROVE  /\ Phases' = [Phases EXCEPT ![id] = Phase(id)']
         /\ Builders' = [Builders EXCEPT ![id] = Builder(id)']
         /\ TriesOf' = [TriesOf EXCEPT ![id] = Tries(id)']
         /\ BannedOf' = [BannedOf EXCEPT ![id] = OfProposal(id, "banned", {})']
         /\ Stakes' = [Stakes EXCEPT ![id] = AtStake(id)']
         /\ Advances' = [Advances EXCEPT ![id] = Advanced(id)']
         /\ Builder(id)' = Builder(id) => UNCHANGED Builders
         /\ Tries(id)' = Tries(id) => UNCHANGED TriesOf
         /\ OfProposal(id, "banned", {})' = OfProposal(id, "banned", {}) => UNCHANGED BannedOf
         /\ AtStake(id)' = AtStake(id) => UNCHANGED Stakes
         /\ Advanced(id)' = Advanced(id) => UNCHANGED Advances
  <1>1. /\ Phases' = [Phases EXCEPT ![id] = Phase(id)']
        /\ Builders' = [Builders EXCEPT ![id] = Builder(id)']
    BY DEF Shown, Phases, Builders
  <1>2. /\ TriesOf' = [TriesOf EXCEPT ![id] = Tries(id)']
        /\ BannedOf' = [BannedOf EXCEPT ![id] = OfProposal(id, "banned", {})']
    BY DEF Shown, TriesOf, BannedOf
  <1>3. /\ Stakes' = [Stakes EXCEPT ![id] = AtStake(id)']
        /\ Advances' = [Advances EXCEPT ![id] = Advanced(id)']
    BY DEF Shown, Stakes, Advances
  <1>4. /\ Builder(id)' = Builder(id) => UNCHANGED Builders
        /\ Tries(id)' = Tries(id) => UNCHANGED TriesOf
    BY DEF Shown, Builders, TriesOf
  <1>5. OfProposal(id, "banned", {})' = OfProposal(id, "banned", {}) => UNCHANGED BannedOf
    BY DEF Shown, BannedOf
  <1>6. /\ AtStake(id)' = AtStake(id) => UNCHANGED Stakes
        /\ Advanced(id)' = Advanced(id) => UNCHANGED Advances
    BY DEF Shown, Stakes, Advances
  <1> QED BY <1>1, <1>2, <1>3, <1>4, <1>5, <1>6

LEMMA AllShown ==
  ASSUME \A i \in ProposalIds : Shown(i) PROVE UNCHANGED Lifecycle!vars
  <1>1. UNCHANGED <<Phases, Builders, TriesOf>>
    BY DEF Shown, Phases, Builders, TriesOf
  <1>2. UNCHANGED <<BannedOf, Stakes, Advances>>
    BY DEF Shown, BannedOf, Stakes, Advances
  <1> QED BY <1>1, <1>2 DEF Lifecycle!vars

\* What is shown of a proposal before and after an instruction rewrites it.
View(id) ==
  /\ Phase(id) = proposals[id].status /\ Builder(id) = proposals[id].claimant
  /\ Tries(id) = IF proposals[id].claimant = None THEN 0 ELSE proposals[id].failures
  /\ OfProposal(id, "banned", {}) = proposals[id].banned
  /\ AtStake(id) = proposals[id].bond
ViewAfter(id) ==
  /\ Phase(id)' = proposals'[id].status /\ Builder(id)' = proposals'[id].claimant
  /\ Tries(id)' = IF proposals'[id].claimant = None THEN 0 ELSE proposals'[id].failures
  /\ OfProposal(id, "banned", {})' = proposals'[id].banned
  /\ AtStake(id)' = proposals'[id].bond

LEMMA LiveView ==
  ASSUME PInv, NEW id \in ProposalIds, proposals[id] # None
  PROVE  View(id) /\ ~(id >= next_id) /\ minted[id] = None
  <1>1. ~(id >= next_id)
    BY DEF PInv, Fresh
  <1>2. minted[id] = None
    BY DEF PInv, PreSponsorshipKept, Kept
  <1> QED BY <1>1, <1>2 DEF View, Phase, Builder, Tries, OfProposal, AtStake, Bonded

LEMMA RewritesView ==
  ASSUME PInv, NEW id \in ProposalIds, Rewritten(id)
  PROVE  /\ View(id) /\ ViewAfter(id) /\ Advanced(id)' = Advanced(id)
         /\ \A i \in ProposalIds \ {id} : Shown(i)
  <1>1. View(id) /\ ~(id >= next_id) /\ minted[id] = None
    BY LiveView DEF Rewritten
  <1>2. minted'[id] = None /\ ~(id >= next_id') /\ proposals'[id] # None
    BY <1>1 DEF Rewritten
  <1>3. ViewAfter(id)
    BY <1>2 DEF ViewAfter, Phase, Builder, Tries, OfProposal, AtStake, Bonded
  <1>4. \A i \in ProposalIds : Advanced(i)' = Advanced(i)
    BY AdvancedKept DEF Rewritten
  <1>5. \A i \in ProposalIds \ {id} : Shown(i)
    BY <1>4, ShownKept DEF Rewritten
  <1> QED BY <1>1, <1>3, <1>4, <1>5

\* An instruction that changes nothing of the claim moves the phase only.
LEMMA SameClaimShown ==
  ASSUME PInv, NEW id \in ProposalIds, Rewritten(id),
         SameClaim(proposals'[id], proposals[id])
  PROVE  /\ Phases[id] = proposals[id].status
         /\ Phases' = [Phases EXCEPT ![id] = proposals'[id].status]
         /\ UNCHANGED <<Builders, TriesOf, BannedOf, Stakes, Advances>>
  <1>1. /\ View(id) /\ ViewAfter(id) /\ Advanced(id)' = Advanced(id)
        /\ \A i \in ProposalIds \ {id} : Shown(i)
    BY RewritesView
  <1>2. /\ Phase(id) = proposals[id].status /\ Phase(id)' = proposals'[id].status
        /\ Builder(id)' = Builder(id) /\ Tries(id)' = Tries(id)
        /\ OfProposal(id, "banned", {})' = OfProposal(id, "banned", {})
        /\ AtStake(id)' = AtStake(id)
    BY <1>1 DEF View, ViewAfter, SameClaim
  <1>3. Phases[id] = Phase(id)
    BY DEF Phases
  <1> QED BY <1>1, <1>2, <1>3, OneShown

LEMMA VoteLifecycle ==
  ASSUME PInv, NEW u \in Users, NEW id \in ProposalIds, NEW vote \in Ballots,
         NEW amount \in Powers, VoteOnProposal(u, id, vote, amount)
  PROVE  UNCHANGED Lifecycle!vars
  <1>1. /\ Rewritten(id) /\ SameClaim(proposals'[id], proposals[id])
        /\ proposals'[id].status = proposals[id].status
    BY VoteEffect DEF PInv
  <1>2. /\ Phases[id] = proposals[id].status
        /\ Phases' = [Phases EXCEPT ![id] = proposals'[id].status]
        /\ UNCHANGED <<Builders, TriesOf, BannedOf, Stakes, Advances>>
    BY <1>1, SameClaimShown
  <1>3. Phases' = Phases
    BY <1>1, <1>2 DEF Phases
  <1> QED BY <1>2, <1>3 DEF Lifecycle!vars

LEMMA FinalizeLifecycle ==
  ASSUME PInv, NEW id \in ProposalIds, FinalizeProposal(id)
  PROVE  Lifecycle!Decide(id)
  <1>1. /\ Rewritten(id) /\ SameClaim(proposals'[id], proposals[id])
        /\ proposals[id].status = "Voting"
        /\ proposals'[id].status \in {"Claimable", "Rejected"}
    BY FinalizeEffect DEF PInv
  <1>2. /\ Phases[id] = proposals[id].status
        /\ Phases' = [Phases EXCEPT ![id] = proposals'[id].status]
        /\ UNCHANGED <<Builders, TriesOf, BannedOf, Stakes, Advances>>
    BY <1>1, SameClaimShown
  <1> QED BY <1>1, <1>2 DEF Lifecycle!Decide, Lifecycle!Move

LEMMA UploadLifecycle ==
  ASSUME PInv, NEW u \in Users, NEW id \in ProposalIds, UploadProposal(u, id)
  PROVE  Lifecycle!Upload(id)
  <1>1. /\ Rewritten(id) /\ SameClaim(proposals'[id], proposals[id])
        /\ proposals[id].status = "Claimed" /\ proposals'[id].status = "UnderReview"
    BY UploadEffect DEF PInv
  <1>2. /\ Phases[id] = proposals[id].status
        /\ Phases' = [Phases EXCEPT ![id] = proposals'[id].status]
        /\ UNCHANGED <<Builders, TriesOf, BannedOf, Stakes, Advances>>
    BY <1>1, SameClaimShown
  <1> QED BY <1>1, <1>2 DEF Lifecycle!Upload, Lifecycle!Move

LEMMA ClaimLifecycle ==
  ASSUME PInv, NEW u \in Users, NEW id \in ProposalIds, ClaimProposal(u, id)
  PROVE  Lifecycle!Claim(id)
  <1>1. /\ Rewritten(id)
        /\ proposals[id].status = "Claimable" /\ proposals'[id].status = "Claimed"
        /\ proposals'[id].claimant = u /\ u \notin proposals[id].banned
        /\ proposals'[id].bond > 0 /\ proposals'[id].failures = 0
        /\ proposals'[id].banned = proposals[id].banned
    BY ClaimEffect DEF PInv
  <1>2. /\ View(id) /\ ViewAfter(id) /\ Advanced(id)' = Advanced(id)
        /\ \A i \in ProposalIds \ {id} : Shown(i)
    BY <1>1, RewritesView
  <1>3. proposals[id].claimant = None
    BY <1>1, DueOf DEF Rewritten
  <1>4. proposals'[id].bond \in Nat
    BY <1>1, ProposalFields DEF Rewritten
  <1>5. /\ Phase(id) = "Claimable" /\ Phase(id)' = "Claimed"
        /\ Builder(id)' = u /\ Tries(id)' = Tries(id)
        /\ OfProposal(id, "banned", {})' = OfProposal(id, "banned", {})
        /\ u \notin OfProposal(id, "banned", {})
        /\ AtStake(id)' \in Nat \ {0}
    BY <1>1, <1>2, <1>3, <1>4 DEF View, ViewAfter
  <1>6. /\ Phases[id] = "Claimable" /\ BannedOf[id] = OfProposal(id, "banned", {})
        /\ Stakes'[id] = AtStake(id)'
    BY <1>5 DEF Phases, BannedOf, Stakes
  <1>7. /\ Phases' = [Phases EXCEPT ![id] = "Claimed"]
        /\ Builders' = [Builders EXCEPT ![id] = u]
        /\ Stakes' = [Stakes EXCEPT ![id] = Stakes'[id]]
        /\ UNCHANGED <<TriesOf, BannedOf, Advances>>
    BY <1>2, <1>5, <1>6, OneShown
  <1> QED BY <1>5, <1>6, <1>7 DEF Lifecycle!Claim, Lifecycle!Move

\* A claim settled: nobody holds the build.
LEMMA VacateShown ==
  ASSUME PInv, NEW id \in ProposalIds, Rewritten(id), Free(proposals'[id])
  PROVE  /\ Phases[id] = proposals[id].status
         /\ Phases' = [Phases EXCEPT ![id] = proposals'[id].status]
         /\ Builders[id] = proposals[id].claimant
         /\ TriesOf[id] = IF proposals[id].claimant = None THEN 0 ELSE proposals[id].failures
         /\ BannedOf[id] = proposals[id].banned
         /\ BannedOf' = [BannedOf EXCEPT ![id] = proposals'[id].banned]
         /\ proposals'[id].banned = proposals[id].banned => UNCHANGED BannedOf
         /\ Lifecycle!Vacate(id) /\ UNCHANGED Advances
  <1>1. /\ View(id) /\ ViewAfter(id) /\ Advanced(id)' = Advanced(id)
        /\ \A i \in ProposalIds \ {id} : Shown(i)
    BY RewritesView
  <1>2. /\ Builder(id)' = None /\ Tries(id)' = 0 /\ AtStake(id)' = 0
        /\ Phase(id)' = proposals'[id].status
        /\ OfProposal(id, "banned", {})' = proposals'[id].banned
        /\ OfProposal(id, "banned", {}) = proposals[id].banned
    BY <1>1 DEF View, ViewAfter, Free
  <1>3. Lifecycle!Vacate(id) /\ UNCHANGED Advances
    BY <1>1, <1>2, OneShown DEF Lifecycle!Vacate
  <1>4. /\ Phases[id] = proposals[id].status /\ Builders[id] = proposals[id].claimant
        /\ TriesOf[id] = IF proposals[id].claimant = None THEN 0 ELSE proposals[id].failures
        /\ BannedOf[id] = proposals[id].banned
    BY <1>1 DEF View, Phases, Builders, TriesOf, BannedOf
  <1>5. /\ Phases' = [Phases EXCEPT ![id] = proposals'[id].status]
        /\ BannedOf' = [BannedOf EXCEPT ![id] = proposals'[id].banned]
        /\ proposals'[id].banned = proposals[id].banned => UNCHANGED BannedOf
    BY <1>1, <1>2, OneShown
  <1> QED BY <1>3, <1>4, <1>5

LEMMA ReleaseLifecycle ==
  ASSUME PInv, NEW id \in ProposalIds, ReleaseClaim(id)
  PROVE  Lifecycle!Release(id)
  <1>1. /\ Rewritten(id) /\ Free(proposals'[id])
        /\ proposals[id].status = "Claimed" /\ proposals'[id].status = "Claimable"
        /\ proposals'[id].banned = proposals[id].banned
    BY ReleaseEffect DEF PInv
  <1>2. /\ Phases[id] = proposals[id].status
        /\ Phases' = [Phases EXCEPT ![id] = proposals'[id].status]
        /\ UNCHANGED BannedOf /\ Lifecycle!Vacate(id) /\ UNCHANGED Advances
    BY <1>1, VacateShown
  <1> QED BY <1>1, <1>2 DEF Lifecycle!Release, Lifecycle!Move

LEMMA ExpireLifecycle ==
  ASSUME PInv, NEW id \in ProposalIds, ExpireProposal(id)
  PROVE  Lifecycle!Expire(id)
  <1>1. /\ Rewritten(id) /\ Free(proposals'[id])
        /\ proposals[id].status \in {"Claimable", "Claimed", "UnderReview", "Approved"}
        /\ proposals'[id].status = "Rejected"
        /\ proposals'[id].banned = proposals[id].banned
    BY ExpireEffect DEF PInv
  <1>2. /\ Phases[id] = proposals[id].status
        /\ Phases' = [Phases EXCEPT ![id] = proposals'[id].status]
        /\ UNCHANGED BannedOf /\ Lifecycle!Vacate(id) /\ UNCHANGED Advances
    BY <1>1, VacateShown
  <1> QED BY <1>1, <1>2 DEF Lifecycle!Expire, Lifecycle!Move

LEMMA ReviewLifecycle ==
  ASSUME PInv, NEW u \in Users, NEW id \in ProposalIds, NEW passed \in BOOLEAN,
         ReviewProposal(u, id, passed)
  PROVE  Lifecycle!Approve(id) \/ Lifecycle!Retry(id) \/ Lifecycle!Fail(id)
  <1>1. Rewritten(id) /\ proposals[id].status = "UnderReview"
    BY ReviewEffect DEF PInv
  <1>2. proposals[id].claimant # None
    BY <1>1, DueOf DEF Rewritten
  <1>3. CASE Approves(proposals'[id], proposals[id])
    <2>1. SameClaim(proposals'[id], proposals[id]) /\ proposals'[id].status = "Approved"
      BY <1>3 DEF Approves
    <2>2. /\ Phases[id] = proposals[id].status
          /\ Phases' = [Phases EXCEPT ![id] = proposals'[id].status]
          /\ UNCHANGED <<Builders, TriesOf, BannedOf, Stakes, Advances>>
      BY <1>1, <2>1, SameClaimShown
    <2> QED BY <1>1, <2>1, <2>2 DEF Lifecycle!Approve, Lifecycle!Move
  <1>4. CASE Retries(proposals'[id], proposals[id])
    <2>1. /\ View(id) /\ ViewAfter(id) /\ Advanced(id)' = Advanced(id)
          /\ \A i \in ProposalIds \ {id} : Shown(i)
      BY <1>1, RewritesView
    <2>2. /\ Phase(id) = "UnderReview" /\ Phase(id)' = "Claimed"
          /\ Builder(id)' = Builder(id) /\ Tries(id) = 0 /\ Tries(id)' = 1
          /\ OfProposal(id, "banned", {})' = OfProposal(id, "banned", {})
          /\ AtStake(id)' = AtStake(id)
      BY <1>1, <1>2, <1>4, <2>1 DEF Retries, View, ViewAfter
    <2>3. Phases[id] = "UnderReview" /\ TriesOf[id] = 0
      BY <2>2 DEF Phases, TriesOf
    <2>4. /\ Phases' = [Phases EXCEPT ![id] = "Claimed"]
          /\ TriesOf' = [TriesOf EXCEPT ![id] = 1]
          /\ UNCHANGED <<Builders, BannedOf, Stakes, Advances>>
      BY <2>1, <2>2, OneShown
    <2> QED BY <2>3, <2>4 DEF Lifecycle!Retry, Lifecycle!Move
  <1>5. CASE Bans(proposals'[id], proposals[id]) \/ Drops(proposals'[id], proposals[id])
    <2>1. Free(proposals'[id]) /\ proposals[id].failures = 1
      BY <1>5 DEF Bans, Drops
    <2>2. /\ Phases[id] = proposals[id].status
          /\ Phases' = [Phases EXCEPT ![id] = proposals'[id].status]
          /\ Builders[id] = proposals[id].claimant /\ TriesOf[id] = 1
          /\ BannedOf[id] = proposals[id].banned
          /\ BannedOf' = [BannedOf EXCEPT ![id] = proposals'[id].banned]
          /\ proposals'[id].banned = proposals[id].banned => UNCHANGED BannedOf
          /\ Lifecycle!Vacate(id) /\ UNCHANGED Advances
      BY <1>1, <1>2, <2>1, VacateShown
    <2>3. CASE Bans(proposals'[id], proposals[id])
      <3>1. /\ proposals'[id].status = "Claimable"
            /\ proposals'[id].banned = BannedOf[id] \cup {Builders[id]}
        BY <2>2, <2>3 DEF Bans
      <3> QED BY <1>1, <2>2, <3>1 DEF Lifecycle!Fail, Lifecycle!Move
    <2>4. CASE Drops(proposals'[id], proposals[id])
      <3>1. proposals'[id].status = "Rejected" /\ UNCHANGED BannedOf
        BY <2>2, <2>4 DEF Drops
      <3> QED BY <1>1, <2>2, <3>1 DEF Lifecycle!Fail, Lifecycle!Move
    <2> QED BY <1>5, <2>3, <2>4
  <1> QED BY <1>3, <1>4, <1>5, ReviewEffect DEF PInv

\* The proposal's account is closed: what was shown of it, and what is left.
LEMMA ClosesView ==
  ASSUME PInv, NEW id \in ProposalIds, Closes(id)
  PROVE  /\ View(id) /\ ~(id >= next_id') /\ proposals'[id] = None
         /\ escrow'[id] = None /\ minted[id] = None
         /\ OfProposal(id, "banned", {})' = {} /\ Tries(id)' = 0
         /\ \A i \in ProposalIds \ {id} : Shown(i)
  <1>1. /\ proposals[id] # None /\ proposals'[id] = None /\ minted[id] = None
        /\ escrow'[id] = None
        /\ \A i \in ProposalIds \ {id} :
             /\ proposals'[i] = proposals[i] /\ minted'[i] = minted[i]
             /\ escrow'[i] = escrow[i]
        /\ UNCHANGED <<next_id, stray>>
    BY CloseEffect
  <1>2. View(id) /\ ~(id >= next_id)
    BY <1>1, LiveView
  <1>3. OfProposal(id, "banned", {})' = {} /\ Tries(id)' = 0
    BY <1>1 DEF OfProposal, Tries
  <1>4. \A i \in ProposalIds \ {id} : Shown(i)
    <2>1. \A i \in ProposalIds \ {id} : Advanced(i)' = Advanced(i)
      BY <1>1, AdvancedKept
    <2> QED BY <1>1, <2>1, ShownKept
  <1> QED BY <1>1, <1>2, <1>3, <1>4

\* The advance held for a live proposal is the locked amount its escrow covers.
LEMMA AdvanceHeld ==
  ASSUME PInv, NEW id \in ProposalIds, proposals[id] # None
  PROVE  Advanced(id) = pre_sponsor_locked(proposals[id])
  <1>1. Kept(id) /\ minted[id] = None
    BY LiveView DEF PInv, PreSponsorshipKept
  <1>2. proposals[id] \in Proposal /\ stray[id] \in Nat
    BY DEF PInv, IInv, TypeOK
  <1>3. /\ proposals[id].pre_sponsor_amount \in Nat /\ proposals[id].pre_sponsor_price \in Nat
        /\ pre_sponsor_locked(proposals[id]) \in Nat
    BY <1>2, ProposalFields, LockedNat
  <1>4. CASE proposals[id].pre_sponsor_amount > 0
    <2>1. escrow[id] = pre_sponsor_locked(proposals[id]) + stray[id]
      BY <1>1, <1>4 DEF Kept
    <2>2. escrow[id] \in Nat /\ escrow[id] - stray[id] = pre_sponsor_locked(proposals[id])
      BY <1>2, <1>3, <2>1
    <2>3. escrow[id] # None
      BY <2>2, NoneAssumption
    <2> QED BY <1>1, <2>2, <2>3 DEF Advanced
  <1>5. CASE proposals[id].pre_sponsor_amount = 0
    <2>1. escrow[id] = None
      BY <1>1, <1>5 DEF Kept
    <2>2. pre_sponsor_locked(proposals[id]) = 0
      BY <1>3, <1>5 DEF pre_sponsor_locked
    <2> QED BY <1>1, <2>1, <2>2 DEF Advanced
  <1> QED BY <1>3, <1>4, <1>5

LEMMA MintLifecycle ==
  ASSUME PInv, NEW u \in Users, NEW id \in ProposalIds,
         MintProposedModule(u, id) \/ MintSponsoredModule(u, id)
  PROVE  Lifecycle!Build(id)
  <1>1. Closes(id)
    BY MintCloses DEF PInv
  <1>2. /\ View(id) /\ ~(id >= next_id') /\ OfProposal(id, "banned", {})' = {}
        /\ Tries(id)' = 0 /\ \A i \in ProposalIds \ {id} : Shown(i)
    BY <1>1, ClosesView
  <1>3. /\ proposals[id].status = "Approved" /\ proposals[id].claimant = u
        /\ minted'[id] # None /\ minted'[id].creator = u
        /\ minted'[id].deposit = proposals[id].bond
        /\ minted'[id].sponsor_escrow = pre_sponsor_locked(proposals[id])
    BY MintEffect
  <1>4. Phase(id) = "Approved" /\ Phase(id)' = "Built"
    BY <1>2, <1>3 DEF View, Phase
  <1>5. Builder(id)' = Builder(id) /\ AtStake(id)' = AtStake(id)
    BY <1>2, <1>3 DEF View, Builder, AtStake
  <1>6. Advanced(id)' = Advanced(id)
    <2>1. Advanced(id)' = pre_sponsor_locked(proposals[id])
      BY <1>3 DEF Advanced
    <2>2. proposals[id] # None
      BY <1>1, CloseEffect
    <2> QED BY <2>1, <2>2, AdvanceHeld
  <1>7. Phases[id] = "Approved"
    BY <1>4 DEF Phases
  <1> QED BY <1>2, <1>4, <1>5, <1>6, <1>7, OneShown DEF Lifecycle!Build, Lifecycle!Move

LEMMA CloseLifecycle ==
  ASSUME PInv, NEW id \in ProposalIds, Closes(id), UNCHANGED minted,
         proposals[id].status = "Rejected"
  PROVE  Lifecycle!Close(id)
  <1>1. /\ View(id) /\ ~(id >= next_id') /\ proposals'[id] = None
        /\ escrow'[id] = None /\ minted[id] = None
        /\ OfProposal(id, "banned", {})' = {} /\ Tries(id)' = 0
        /\ \A i \in ProposalIds \ {id} : Shown(i)
    BY ClosesView
  <1>2. proposals[id].claimant = None /\ proposals[id].bond = 0
    <2>1. proposals[id] \in Proposal /\ Whole(proposals[id])
      BY CloseEffect
    <2> QED BY <2>1, DueOf
  <1>3. Phase(id) = "Rejected" /\ Phase(id)' = "Closed"
    BY <1>1 DEF View, Phase
  <1>4. /\ Builder(id)' = Builder(id) /\ Tries(id)' = Tries(id)
        /\ AtStake(id)' = AtStake(id)
    BY <1>1, <1>2 DEF View, Builder, AtStake, Bonded, OfProposal
  <1>5. Advanced(id)' = 0
    BY <1>1 DEF Advanced
  <1>6. Phases[id] = "Rejected"
    BY <1>3 DEF Phases
  <1> QED BY <1>1, <1>3, <1>4, <1>5, <1>6, OneShown DEF Lifecycle!Close, Lifecycle!Move

LEMMA OpenLifecycle ==
  ASSUME PInv, NEW x \in Proposal, OpensPlain(x) \/ OpensSponsored(x)
  PROVE  \E id \in ProposalIds : Lifecycle!Open(id)
  <1>0. Opens(x) /\ TypeOK
    BY DEF OpensPlain, OpensSponsored, PInv, IInv
  <1>1. PICK id \in ProposalIds : id = next_id
    BY <1>0 DEF Opens
  <1>2. /\ proposals'[id] = x /\ UNCHANGED <<minted, stray>> /\ next_id' = next_id + 1
        /\ \A i \in ProposalIds \ {id} :
             proposals'[i] = proposals[i] /\ escrow'[i] = escrow[i]
        /\ x.status = "Voting" /\ x.banned = {} /\ Whole(x)
    BY <1>0, <1>1 DEF Opens, OpensPlain, OpensSponsored, TypeOK
  <1>3. x # None /\ x.claimant = None /\ x.bond = 0
    BY <1>2, DueOf, ProposalFields
  <1>4. /\ proposals[id] = None /\ escrow[id] = None /\ minted[id] = None /\ stray[id] = 0
        /\ id >= next_id /\ ~(id >= next_id')
    BY <1>0, <1>1, <1>2 DEF PInv, Fresh, TypeOK
  <1>5. \A i \in ProposalIds \ {id} : Shown(i)
    <2>1. \A i \in ProposalIds \ {id} : i >= next_id' <=> i >= next_id
      BY <1>0, <1>1, <1>2 DEF TypeOK, ProposalIds
    <2>2. \A i \in ProposalIds \ {id} : Advanced(i)' = Advanced(i)
      BY <1>2, AdvancedKept
    <2> QED BY <1>2, <2>1, <2>2, ShownKept
  <1>6. /\ Phase(id) = "None" /\ Builder(id) = None /\ Tries(id) = 0
        /\ OfProposal(id, "banned", {}) = {} /\ AtStake(id) = 0
    BY <1>4 DEF Phase, Builder, Tries, OfProposal, AtStake, Bonded
  <1>7. /\ Phase(id)' = "Voting" /\ Builder(id)' = None /\ Tries(id)' = 0
        /\ OfProposal(id, "banned", {})' = {} /\ AtStake(id)' = 0
    BY <1>2, <1>3, <1>4 DEF Phase, Builder, Tries, OfProposal, AtStake, Bonded
  <1>8. Advanced(id)' \in Nat
    <2>1. CASE OpensPlain(x)
      BY <1>2, <1>4, <2>1 DEF OpensPlain, Advanced
    <2>2. CASE OpensSponsored(x)
      <3>1. escrow'[id] = pre_sponsor_locked(x) /\ pre_sponsor_locked(x) \in Nat
        BY <1>0, <1>1, <2>2, LockedNat DEF OpensSponsored, TypeOK
      <3>2. escrow'[id] # None
        BY <3>1, NoneAssumption
      <3> QED BY <1>2, <1>4, <3>1, <3>2 DEF Advanced
    <2> QED BY <2>1, <2>2
  <1>9. Phases[id] = "None" /\ Advances'[id] = Advanced(id)'
    BY <1>6 DEF Phases, Advances
  <1>10. Lifecycle!Open(id)
    BY <1>5, <1>6, <1>7, <1>8, <1>9, OneShown DEF Lifecycle!Open, Lifecycle!Move
  <1> QED BY <1>10

\* Unsolicited transfers are not the sponsor's, and the rest shows nothing.
LEMMA RestsLifecycle ==
  ASSUME PInv, Rests
  PROVE  UNCHANGED Lifecycle!vars
  <1>1. UNCHANGED <<next_id, proposals, minted>> /\ TypeOK
    BY DEF Rests, PInv, IInv
  <1>2. ASSUME NEW i \in ProposalIds PROVE Advanced(i)' = Advanced(i)
    <2>1. CASE UNCHANGED <<escrow, stray>>
      BY <1>1, <2>1 DEF Advanced
    <2>2. ASSUME NEW id \in ProposalIds, escrow[id] # None,
                 escrow' = [escrow EXCEPT ![id] = @ + 1],
                 stray' = [stray EXCEPT ![id] = @ + 1]
          PROVE  Advanced(i)' = Advanced(i)
      <3>1. CASE i = id
        <4>1. /\ escrow'[i] = escrow[i] + 1 /\ stray'[i] = stray[i] + 1
              /\ escrow[i] \in Nat /\ stray[i] \in Nat
          BY <1>1, <2>2, <3>1 DEF TypeOK
        <4>2. escrow'[i] \in Nat /\ escrow'[i] - stray'[i] = escrow[i] - stray[i]
          BY <4>1
        <4>3. escrow'[i] # None /\ escrow[i] # None
          BY <4>1, <4>2, NoneAssumption
        <4> QED BY <1>1, <4>2, <4>3 DEF Advanced
      <3>2. CASE i # id
        BY <1>1, <2>2, <3>2 DEF TypeOK, Advanced
      <3> QED BY <3>1, <3>2
    <2> QED BY <2>1, <2>2 DEF Rests
  <1>3. \A i \in ProposalIds : Shown(i)
    BY <1>1, <1>2, ShownKept
  <1> QED BY <1>3, AllShown

LEMMA LifecycleInit == Init => Lifecycle!Init
  <1> SUFFICES ASSUME Init PROVE Lifecycle!Init
    OBVIOUS
  <1>1. ASSUME NEW id \in ProposalIds
        PROVE  /\ Phase(id) = "None" /\ Builder(id) = None /\ Tries(id) = 0
               /\ OfProposal(id, "banned", {}) = {} /\ AtStake(id) = 0 /\ Advanced(id) = 0
    <2>1. /\ proposals[id] = None /\ minted[id] = None /\ escrow[id] = None
          /\ id >= next_id
      BY DEF Init, ProposalIds
    <2> QED BY <2>1 DEF Phase, Builder, Tries, OfProposal, AtStake, Bonded, Advanced
  <1> QED BY <1>1 DEF Lifecycle!Init, Phases, Builders, TriesOf, BannedOf, Stakes, Advances

LEMMA LifecycleStep == PInv /\ [Next]_vars => [Lifecycle!Next]_(Lifecycle!vars)
  <1> SUFFICES ASSUME PInv, [Next]_vars PROVE [Lifecycle!Next]_(Lifecycle!vars)
    OBVIOUS
  <1>0. IInv
    BY DEF PInv
  <1> DEFINE Step == [Lifecycle!Next]_(Lifecycle!vars)
  <1>1. ASSUME NEW id \in ProposalIds,
               \/ Lifecycle!Open(id) \/ Lifecycle!Decide(id) \/ Lifecycle!Claim(id)
               \/ Lifecycle!Upload(id) \/ Lifecycle!Release(id) \/ Lifecycle!Approve(id)
               \/ Lifecycle!Retry(id) \/ Lifecycle!Fail(id) \/ Lifecycle!Build(id)
               \/ Lifecycle!Expire(id) \/ Lifecycle!Close(id)
        PROVE  Step
    BY <1>1 DEF Lifecycle!Next
  <1>2. ASSUME UNCHANGED Lifecycle!vars PROVE Step
    BY <1>2
  <1> HIDE DEF Step
  <1>3. ASSUME NEW u \in Users, NEW n \in TokenCounts,
               \/ \E role \in ProposerRoles : CreateModuleProposal(u, role, n)
               \/ \E a \in Assets : CreateSponsorProposal(u, n, a)
        PROVE  Step
    <2>1. \E x \in Proposal : OpensPlain(x) \/ OpensSponsored(x)
      BY <1>0, <1>3, CreateOpens, SponsorOpens DEF OpensPlain, OpensSponsored
    <2> QED BY <1>1, <2>1, OpenLifecycle
  <1>4. ASSUME NEW u \in Users, NEW id \in ProposalIds,
               ClaimProposal(u, id) \/ UploadProposal(u, id)
        PROVE  Step
    BY <1>1, <1>4, ClaimLifecycle, UploadLifecycle
  <1>5. ASSUME NEW u \in Users, NEW id \in ProposalIds, NEW passed \in BOOLEAN,
               ReviewProposal(u, id, passed)
        PROVE  Step
    BY <1>1, <1>5, ReviewLifecycle
  <1>6. ASSUME NEW u \in Users, NEW id \in ProposalIds,
               MintProposedModule(u, id) \/ MintSponsoredModule(u, id)
        PROVE  Step
    BY <1>1, <1>6, MintLifecycle
  <1>7. ASSUME NEW id \in ProposalIds,
               (\E u \in Users : ReclaimPreSponsor(u, id)) \/ ClearProposal(id)
        PROVE  Step
    <2>1. Closes(id)
      BY <1>0, <1>7, ReclaimCloses, ClearCloses
    <2>2. UNCHANGED minted /\ proposals[id].status = "Rejected"
      BY <1>7 DEF ReclaimPreSponsor, MayReclaim, ClearProposal, MayClear, Clearable
    <2> QED BY <1>1, <2>1, <2>2, CloseLifecycle
  <1>8. ASSUME NEW u \in Voters, NEW id \in ProposalIds, NEW vote \in Ballots,
               NEW amount \in Powers, VoteOnProposal(u, id, vote, amount)
        PROVE  Step
    BY <1>2, <1>8, InputsAssumption, VoteLifecycle
  <1>9. ASSUME NEW id \in ProposalIds,
               FinalizeProposal(id) \/ ReleaseClaim(id) \/ ExpireProposal(id)
        PROVE  Step
    BY <1>1, <1>9, FinalizeLifecycle, ReleaseLifecycle, ExpireLifecycle
  <1>10. ASSUME \/ UpdateConfig \/ WithdrawTreasury \/ Tick \/ UNCHANGED vars
                \/ \E grant \in RoleChanges : ChangeRole(grant)
                \/ \E id \in ProposalIds : StrayTransfer(id)
                \/ \E u \in Users, id \in ProposalIds : UnlockProposalVote(u, id)
         PROVE  Step
    BY <1>0, <1>2, <1>10, EnvironmentRests, UnlockRests, RestsLifecycle
  <1>11. Step
    BY <1>3, <1>4, <1>5, <1>6, <1>7, <1>8, <1>9, <1>10 DEF Next
  <1> QED BY <1>11 DEF Step

\* Whatever releases, failed reviews, expiries and parameter updates happen,
\* every proposal goes through the phases of ProposalLifecycle: one bonded
\* builder at a time who is judged twice at most, and the bond and the advance
\* carried whole into the module or settled.
THEOREM ProposalLifecycleTheorem == Spec => ImplementsProposalLifecycle
  BY PInvInit, PInvStep, LifecycleInit, LifecycleStep, PTL
     DEF Spec, ImplementsProposalLifecycle, Lifecycle!Spec
-----------------------------------------------------------------------------
(* Tallies.  While a vote is open the tally of a ballot is the sum of the     *)
(* votes on record for it, and all of them lie in the vault; once it is over  *)
(* votes may be unlocked and the tally stays what it was.                     *)

Total(tally) == tally["Yes"] + tally["No"] + tally["Abstain"]

Tallied(id) ==
  LET p == proposals[id] IN
  p # None /\ p.status = "Voting" =>
    /\ \A u \in Users : votes[id][u] # None => votes[id][u].expiry = p.expiry
    /\ Total(p.tally) <= XcavSupply
    /\ now < p.expiry =>
         /\ Total(p.tally) = SumFunction(VotesOn(id))
         /\ \A v \in Ballots : p.tally[v] = SumFunction(CastFor(id, v))

Unvoted == \A id \in ProposalIds : id >= next_id => \A u \in Users : votes[id][u] = None
Supplied == vault + treasury <= XcavSupply

\* The vault can pay every stake, every bond and every vote.  (The deposits of the
\* modules minted are not counted: the market returns them.)
Pledges == [id \in ProposalIds |-> Staked(id) + Bonded(id)]
Funded  == vault >= SumFunction(Pledges) + SumFunction(VoteLocks)

TInv == PInv /\ Funded /\ Supplied /\ Unvoted /\ \A id \in ProposalIds : Tallied(id)

PledgesTyped == Pledges \in [ProposalIds -> Nat] /\ SumFunction(Pledges) \in Nat

LEMMA PledgesNat == TypeOK => PledgesTyped
  <1> SUFFICES ASSUME TypeOK PROVE PledgesTyped
    OBVIOUS
  <1>1. Pledges \in [ProposalIds -> Nat]
    BY PartsNat DEF Pledges
  <1> QED BY <1>1, ProposalIdsFinite, TotalNat DEF PledgesTyped

\* On its own, Proposals keeps in the vault what it owes and the deposits.
LEMMA BackedFunded == TypeOK /\ Backed => Funded
  <1> SUFFICES ASSUME TypeOK, Backed PROVE Funded
    OBVIOUS
  <1>1. Sums /\ PledgesTyped
    BY SumsTyped, PledgesNat
  <1>2. \A id \in ProposalIds : Pledges[id] <= Deposits[id]
    BY PartsNat DEF Pledges, Deposits
  <1>3. SumFunction(Pledges) <= SumFunction(Deposits)
    BY <1>1, <1>2, ProposalIdsFinite, TotalAtMost DEF Sums, PledgesTyped
  <1> QED BY <1>1, <1>3 DEF Backed, Funded, Sums, PledgesTyped

CastsTyped == \A id \in ProposalIds, v \in Ballots : CastFor(id, v) \in [Users -> Nat]

LEMMA CastsNat == TypeOK => CastsTyped
  <1> SUFFICES ASSUME TypeOK, NEW id \in ProposalIds, NEW v \in Ballots
               PROVE  CastFor(id, v) \in [Users -> Nat]
    BY DEF CastsTyped
  <1>1. ASSUME NEW u \in Users PROVE votes[id][u] # None => votes[id][u].power \in Nat
    BY DEF TypeOK, VoteRecord
  <1> QED BY <1>1 DEF CastFor

\* The votes for one ballot follow the vote of one voter.
LEMMA CastFollows ==
  ASSUME TypeOK, TypeOK', NEW id \in ProposalIds, NEW u \in Users, NEW v \in Ballots,
         NEW record \in VoteRecord, votes' = [votes EXCEPT ![id][u] = record]
  PROVE  /\ SumFunction(CastFor(id, v))'
              = SumFunction(CastFor(id, v)) - CastFor(id, v)[u] + CastFor(id, v)'[u]
         /\ SumFunction(CastFor(id, v)) >= CastFor(id, v)[u]
         /\ CastFor(id, v)[u] \in Nat /\ CastFor(id, v)'[u] \in Nat
         /\ CastFor(id, v)[u] = IF votes[id][u] # None /\ votes[id][u].vote = v
                                THEN votes[id][u].power ELSE 0
         /\ CastFor(id, v)'[u] = IF record.vote = v THEN record.power ELSE 0
  <1>1. CastsTyped /\ CastsTyped'
    BY CastsNat, PTL
  <1>2. CastFor(id, v) \in [Users -> Nat] /\ CastFor(id, v)' \in [Users -> Nat]
    BY <1>1 DEF CastsTyped
  <1>3. votes'[id][u] = record /\ \A w \in Users \ {u} : votes'[id][w] = votes[id][w]
    BY DEF TypeOK
  <1>4. record # None
    BY NoneAssumption
  <1>5. \A w \in Users \ {u} : CastFor(id, v)'[w] = CastFor(id, v)[w]
    BY <1>3 DEF CastFor
  <1>6. CastFor(id, v)'[u] = IF record.vote = v THEN record.power ELSE 0
    BY <1>3, <1>4 DEF CastFor
  <1>7. CastFor(id, v)[u] = IF votes[id][u] # None /\ votes[id][u].vote = v
                            THEN votes[id][u].power ELSE 0
    BY DEF CastFor
  <1>8. CastFor(id, v)[u] \in Nat /\ CastFor(id, v)'[u] \in Nat
    BY <1>2
  <1>9. /\ SumFunction(CastFor(id, v))'
             = SumFunction(CastFor(id, v)) - CastFor(id, v)[u] + CastFor(id, v)'[u]
        /\ SumFunction(CastFor(id, v)) >= CastFor(id, v)[u]
    BY <1>2, <1>5, UsersAssumption, TotalChange
  <1> QED BY <1>6, <1>7, <1>8, <1>9

\* The power behind a voter's record is behind one of its ballots.
LEMMA OneBallot ==
  ASSUME NEW record \in VoteRecord
  PROVE  LET For(v) == IF record.vote = v THEN record.power ELSE 0
         IN  For("Yes") + For("No") + For("Abstain") = record.power
  BY DEF VoteRecord, Ballots

LEMMA VoteTallied ==
  ASSUME TInv, TypeOK', Funded', Supplied', NEW u \in Users, NEW id \in ProposalIds,
         NEW vote \in Ballots, NEW amount \in Powers, VoteOnProposal(u, id, vote, amount)
  PROVE  Tallied(id)'
  <1> DEFINE p == proposals[id]
             old == votes[id][u]
             rest == Retract(p.tally, old)
             new == [rest EXCEPT ![vote] = @ + amount]
             record == [vote |-> vote, power |-> amount, expiry |-> p.expiry]
  <1>1. TypeOK /\ IInv
    BY DEF TInv, PInv, IInv
  <1>2. /\ p # None /\ p.status = "Voting" /\ now < p.expiry
        /\ proposals' = [proposals EXCEPT ![id].tally = new]
        /\ votes' = [votes EXCEPT ![id][u] = record] /\ now' = now
    BY DEF VoteOnProposal, envVars
  <1>3. /\ p \in Proposal /\ p.tally \in [Ballots -> Nat] /\ p.expiry \in Nat
        /\ old \in VoteRecord \cup {None} /\ amount \in Nat
    BY <1>1, <1>2, ProposalFields, InputsNat DEF TypeOK
  <1>4. record \in VoteRecord
    BY <1>3 DEF VoteRecord
  <1>5. /\ \A w \in Users : votes[id][w] # None => votes[id][w].expiry = p.expiry
        /\ Total(p.tally) = SumFunction(VotesOn(id))
        /\ \A v \in Ballots : p.tally[v] = SumFunction(CastFor(id, v))
    BY <1>2 DEF TInv, Tallied
  <1>6. rest \in [Ballots -> Nat]
    BY <1>3, RetractOK
  <1>7. /\ proposals'[id] # None /\ proposals'[id].tally = new
        /\ proposals'[id].status = "Voting" /\ proposals'[id].expiry = p.expiry
    <2>1. proposals'[id] = [p EXCEPT !.tally = new]
      BY <1>1, <1>2 DEF TypeOK
    <2>2. proposals'[id] # None
      BY VoteEffect, <1>1 DEF Rewritten
    <2> HIDE DEF new
    <2> QED BY <1>2, <1>3, <2>1, <2>2 DEF Proposal
  <1>8. record.vote = vote /\ record.power = amount /\ record.expiry = p.expiry
    OBVIOUS
  <1> HIDE DEF record
  <1>9. ASSUME NEW v \in Ballots
        PROVE  /\ new[v] = p.tally[v] - CastFor(id, v)[u] + CastFor(id, v)'[u]
               /\ new[v] = SumFunction(CastFor(id, v))'
               /\ CastFor(id, v)[u] \in Nat /\ CastFor(id, v)'[u] \in Nat
    <2>1. /\ SumFunction(CastFor(id, v))'
               = SumFunction(CastFor(id, v)) - CastFor(id, v)[u] + CastFor(id, v)'[u]
          /\ SumFunction(CastFor(id, v)) >= CastFor(id, v)[u]
          /\ CastFor(id, v)[u] \in Nat /\ CastFor(id, v)'[u] \in Nat
          /\ CastFor(id, v)[u] = IF old # None /\ old.vote = v THEN old.power ELSE 0
          /\ CastFor(id, v)'[u] = IF vote = v THEN amount ELSE 0
      <3>1. votes' = [votes EXCEPT ![id][u] = record] /\ TypeOK
        BY <1>1, <1>2
      <3> HIDE DEF old
      <3>2. /\ SumFunction(CastFor(id, v))'
                 = SumFunction(CastFor(id, v)) - CastFor(id, v)[u] + CastFor(id, v)'[u]
            /\ SumFunction(CastFor(id, v)) >= CastFor(id, v)[u]
            /\ CastFor(id, v)[u] \in Nat /\ CastFor(id, v)'[u] \in Nat
            /\ CastFor(id, v)'[u] = IF record.vote = v THEN record.power ELSE 0
        BY <1>4, <3>1, CastFollows
      <3>3. CastFor(id, v)[u] = IF old # None /\ old.vote = v THEN old.power ELSE 0
        BY DEF CastFor, old
      <3> QED BY <1>8, <3>2, <3>3
    <2>2. p.tally[v] = SumFunction(CastFor(id, v)) /\ p.tally[v] \in Nat
      BY <1>3, <1>5
    <2>3. rest[v] = p.tally[v] - CastFor(id, v)[u]
      <3>1. CASE old = None
        BY <2>1, <2>2, <3>1 DEF Retract
      <3>2. CASE old # None
        <4>1. old.vote \in Ballots /\ old.power \in Nat
          BY <1>3, <3>2 DEF VoteRecord
        <4>2. rest = [p.tally EXCEPT ![old.vote] =
                        IF @ <= old.power THEN 0 ELSE @ - old.power]
          BY <3>2 DEF Retract
        <4>3. CASE old.vote = v
          <5>1. rest[v] = IF p.tally[v] <= old.power THEN 0 ELSE p.tally[v] - old.power
            BY <1>3, <4>2, <4>3
          <5>2. p.tally[v] >= old.power /\ CastFor(id, v)[u] = old.power
            BY <2>1, <2>2, <3>2, <4>3
          <5> HIDE DEF rest
          <5> QED BY <2>2, <4>1, <5>1, <5>2
        <4>4. CASE old.vote # v
          BY <1>3, <2>1, <2>2, <4>2, <4>4
        <4> QED BY <4>3, <4>4
      <3> QED BY <3>1, <3>2
    <2>4. new[v] = rest[v] + (IF vote = v THEN amount ELSE 0)
      BY <1>3, <1>6
    <2> HIDE DEF rest, new
    <2> QED BY <2>1, <2>2, <2>3, <2>4
  <1> HIDE DEF rest, new
  <1>10. "Yes" \in Ballots /\ "No" \in Ballots /\ "Abstain" \in Ballots
    BY DEF Ballots
  <1>11. /\ SumFunction(VotesOn(id))'
              = SumFunction(VotesOn(id)) - VotesOn(id)[u] + VotesOn(id)'[u]
         /\ VotesOn(id)[u] = (IF old = None THEN 0 ELSE old.power)
         /\ VotesOn(id)'[u] = amount
    <2>1. Sums /\ Sums'
      BY <1>1, SumsTyped, PTL
    <2>2. VotesOn(id) \in [Users -> Nat] /\ VotesOn(id)' \in [Users -> Nat]
      BY <2>1 DEF Sums
    <2>3. votes'[id][u] = record /\ \A w \in Users \ {u} : votes'[id][w] = votes[id][w]
      BY <1>1, <1>2 DEF TypeOK
    <2>4. record # None
      BY <1>4, NoneAssumption
    <2>5. \A w \in Users \ {u} : VotesOn(id)'[w] = VotesOn(id)[w]
      BY <2>3 DEF VotesOn
    <2>6. VotesOn(id)'[u] = amount /\ VotesOn(id)[u] = (IF old = None THEN 0 ELSE old.power)
      BY <1>8, <2>3, <2>4 DEF VotesOn
    <2>7. SumFunction(VotesOn(id))'
            = SumFunction(VotesOn(id)) - VotesOn(id)[u] + VotesOn(id)'[u]
      BY <2>2, <2>5, UsersAssumption, TotalChange
    <2> QED BY <2>6, <2>7
  <1>12. CastFor(id, "Yes")[u] + CastFor(id, "No")[u] + CastFor(id, "Abstain")[u]
           = VotesOn(id)[u]
    <2>1. \A v \in Ballots :
            CastFor(id, v)[u] = IF old # None /\ old.vote = v THEN old.power ELSE 0
      BY DEF CastFor
    <2>2. CASE old = None
      BY <1>10, <1>11, <2>1, <2>2
    <2>3. CASE old # None
      <3>1. old \in VoteRecord
        BY <1>3, <2>3
      <3> QED BY <1>10, <1>11, <2>1, <2>3, <3>1, OneBallot
    <2> QED BY <2>2, <2>3
  <1>13. CastFor(id, "Yes")'[u] + CastFor(id, "No")'[u] + CastFor(id, "Abstain")'[u] = amount
    <2>1. \A v \in Ballots : CastFor(id, v)'[u] = IF record.vote = v THEN record.power ELSE 0
      BY <1>1, <1>2, <1>4, CastFollows
    <2> QED BY <1>4, <1>8, <1>10, <2>1, OneBallot
  <1>14. Total(new) = SumFunction(VotesOn(id))'
    <2>1. /\ p.tally["Yes"] \in Nat /\ p.tally["No"] \in Nat /\ p.tally["Abstain"] \in Nat
      BY <1>3, <1>10
    <2>2. /\ new["Yes"] = p.tally["Yes"] - CastFor(id, "Yes")[u] + CastFor(id, "Yes")'[u]
          /\ CastFor(id, "Yes")[u] \in Nat /\ CastFor(id, "Yes")'[u] \in Nat
      BY <1>9, <1>10
    <2>3. /\ new["No"] = p.tally["No"] - CastFor(id, "No")[u] + CastFor(id, "No")'[u]
          /\ CastFor(id, "No")[u] \in Nat /\ CastFor(id, "No")'[u] \in Nat
      BY <1>9, <1>10
    <2>4. /\ new["Abstain"]
               = p.tally["Abstain"] - CastFor(id, "Abstain")[u] + CastFor(id, "Abstain")'[u]
          /\ CastFor(id, "Abstain")[u] \in Nat /\ CastFor(id, "Abstain")'[u] \in Nat
      BY <1>9, <1>10
    <2>5. Total(new) = Total(p.tally) - VotesOn(id)[u] + amount
      BY <1>12, <1>13, <2>1, <2>2, <2>3, <2>4 DEF Total
    <2> QED BY <1>5, <1>11, <2>5
  <1>15. SumFunction(VotesOn(id))' <= XcavSupply
    <2>1. Sums' /\ PledgesTyped'
      BY <1>1, SumsTyped, PledgesNat, PTL
    <2>2. VoteLocks' \in [ProposalIds -> Nat] /\ VoteLocks'[id] = SumFunction(VotesOn(id))'
      BY <2>1 DEF Sums, VoteLocks
    <2>3. SumFunction(VoteLocks)' >= VoteLocks'[id] /\ VoteLocks'[id] \in Nat
      BY <2>2, ProposalIdsFinite, TotalChange
    <2>4. vault' >= SumFunction(VoteLocks)'
      BY <2>1 DEF Funded, Sums, PledgesTyped
    <2>5. vault' <= XcavSupply
      BY BoundsAssumption DEF Supplied, TypeOK
    <2>6. vault' \in Nat /\ SumFunction(VoteLocks)' \in Nat /\ XcavSupply \in Nat
      BY <2>1, BoundsAssumption DEF Sums
    <2> QED BY <2>2, <2>3, <2>4, <2>5, <2>6
  <1>16. \A w \in Users : votes'[id][w] # None => votes'[id][w].expiry = p.expiry
    <2>1. votes'[id][u] = record /\ \A w \in Users \ {u} : votes'[id][w] = votes[id][w]
      BY <1>1, <1>2 DEF TypeOK
    <2> QED BY <1>5, <1>8, <2>1
  <1> QED BY <1>7, <1>9, <1>14, <1>15, <1>16 DEF Tallied

\* An id whose votes stay put is tallied as before, or no longer voted on.
LEMMA TalliedKept ==
  ASSUME TypeOK, TypeOK', NEW id \in ProposalIds, Tallied(id), now' >= now,
         votes'[id] = votes[id],
         \/ proposals'[id] = proposals[id]
         \/ proposals'[id] = None \/ proposals'[id].status # "Voting"
  PROVE  Tallied(id)'
  <1> SUFFICES ASSUME proposals'[id] = proposals[id], proposals[id] # None,
                      proposals[id].status = "Voting"
               PROVE  Tallied(id)'
    BY DEF Tallied
  <1>1. proposals[id].expiry \in Nat /\ now \in Nat /\ now' \in Nat
    BY ProposalFields DEF TypeOK
  <1>2. now' < proposals[id].expiry => now < proposals[id].expiry
    BY <1>1
  <1>3. VotesOn(id)' = VotesOn(id) /\ \A v \in Ballots : CastFor(id, v)' = CastFor(id, v)
    BY DEF VotesOn, CastFor
  <1> QED BY <1>2, <1>3 DEF Tallied

\* Votes are unlocked only when the vote they were cast in is over.
LEMMA UnlockTallied ==
  ASSUME TInv, TypeOK', NEW u \in Users, NEW id \in ProposalIds, NEW i \in ProposalIds,
         UnlockProposalVote(u, id)
  PROVE  Tallied(i)'
  <1>0. TypeOK
    BY DEF TInv, PInv, IInv
  <1>1. /\ votes[id][u] # None /\ now >= votes[id][u].expiry
        /\ votes' = [votes EXCEPT ![id][u] = None]
        /\ now' = now /\ proposals' = proposals
    BY DEF UnlockProposalVote, MayUnlock, envVars
  <1>2. CASE i # id
    <2>1. votes'[i] = votes[i] /\ now' >= now
      BY <1>0, <1>1, <1>2 DEF TypeOK
    <2> QED BY <1>0, <1>1, <2>1, TalliedKept DEF TInv
  <1>3. CASE i = id
    <2> SUFFICES ASSUME proposals[id] # None, proposals[id].status = "Voting"
                 PROVE  Tallied(id)'
      BY <1>1, <1>3 DEF Tallied
    <2>1. proposals[id].expiry = votes[id][u].expiry /\ Total(proposals[id].tally) <= XcavSupply
          /\ \A w \in Users : votes[id][w] # None => votes[id][w].expiry = proposals[id].expiry
      BY <1>1 DEF TInv, Tallied
    <2>2. \A w \in Users : votes'[id][w] # None => votes'[id][w] = votes[id][w]
      BY <1>0, <1>1 DEF TypeOK
    <2>3. ~(now' < proposals'[id].expiry)
      <3>1. now \in Nat /\ votes[id][u].expiry \in Nat
        BY <1>0, <1>1 DEF TypeOK, VoteRecord
      <3> QED BY <1>1, <2>1, <3>1
    <2> QED BY <1>1, <2>1, <2>2, <2>3 DEF Tallied
  <1> QED BY <1>2, <1>3

\* A new proposal has no votes.
LEMMA OpenTallied ==
  ASSUME TInv, TypeOK', NEW x \in Proposal, Opens(x), x.tally = [v \in Ballots |-> 0],
         NEW i \in ProposalIds
  PROVE  Tallied(i)'
  <1>0. TypeOK
    BY DEF TInv, PInv, IInv
  <1>1. /\ next_id \in ProposalIds /\ proposals' = [proposals EXCEPT ![next_id] = x]
        /\ UNCHANGED votes /\ now' = now
    BY DEF Opens, envVars
  <1>2. CASE i # next_id
    <2>1. proposals'[i] = proposals[i] /\ votes'[i] = votes[i] /\ now' >= now
      BY <1>0, <1>1, <1>2 DEF TypeOK
    <2> QED BY <1>0, <2>1, TalliedKept DEF TInv
  <1>3. CASE i = next_id
    <2>1. proposals'[i] = x
      BY <1>0, <1>1, <1>3 DEF TypeOK
    <2>2. \A u \in Users : votes'[i][u] = None
      <3>1. i >= next_id
        BY <1>0, <1>3 DEF TypeOK
      <3> QED BY <1>1, <3>1 DEF TInv, Unvoted
    <2>3. SumFunction(VotesOn(i))' = 0
      <3>1. Sums'
        BY SumsTyped, PTL
      <3>2. VotesOn(i)' \in [Users -> Nat] /\ \A u \in Users : VotesOn(i)'[u] = 0
        BY <2>2, <3>1 DEF Sums, VotesOn
      <3> QED BY <3>2, UsersAssumption, TotalZero
    <2>4. ASSUME NEW v \in Ballots PROVE SumFunction(CastFor(i, v))' = 0
      <3>1. CastsTyped'
        BY CastsNat, PTL
      <3>2. CastFor(i, v)' \in [Users -> Nat] /\ \A u \in Users : CastFor(i, v)'[u] = 0
        BY <2>2, <3>1 DEF CastsTyped, CastFor
      <3> QED BY <3>2, UsersAssumption, TotalZero
    <2>5. Total(x.tally) = 0 /\ \A v \in Ballots : x.tally[v] = 0
      BY DEF Total, Ballots
    <2> QED BY <2>1, <2>2, <2>3, <2>4, <2>5, BoundsAssumption DEF Tallied
  <1> QED BY <1>2, <1>3

LEMMA CreateZero ==
  ASSUME TypeOK, TypeOK', NEW x \in Proposal, Opens(x), NEW u \in Users, NEW n \in TokenCounts,
         \/ \E role \in ProposerRoles : CreateModuleProposal(u, role, n)
         \/ \E a \in Assets : CreateSponsorProposal(u, n, a)
  PROVE  x.tally = [v \in Ballots |-> 0]
  <1>1. proposals'[next_id] = x
    BY DEF Opens, TypeOK
  <1>2. next_id \in ProposalIds
    BY DEF Opens
  <1>3. CASE \E role \in ProposerRoles : CreateModuleProposal(u, role, n)
    <2> PICK role \in ProposerRoles : CreateModuleProposal(u, role, n)
      BY <1>3
    <2>1. proposals'[next_id] = NewProposal(u, role, n)
      BY <1>2 DEF CreateModuleProposal, TypeOK
    <2> QED BY <1>1, <2>1 DEF NewProposal
  <1>4. CASE \E a \in Assets : CreateSponsorProposal(u, n, a)
    <2> PICK a \in Assets : CreateSponsorProposal(u, n, a)
      BY <1>4
    <2>1. PICK pre, price : proposals'[next_id] =
            [NewProposal(u, "ModuleSponsor", n) EXCEPT
               !.asset = a, !.pre_sponsor_amount = pre, !.pre_sponsor_price = price]
      BY <1>2 DEF CreateSponsorProposal, TypeOK
    <2> QED BY <1>1, <2>1 DEF NewProposal
  <1> QED BY <1>3, <1>4

LEMMA RewriteTallied ==
  ASSUME TInv, TypeOK', NEW id \in ProposalIds, NEW i \in ProposalIds, Rewritten(id),
         proposals'[id].status # "Voting", now' = now, UNCHANGED votes
  PROVE  Tallied(i)'
  <1>1. TypeOK /\ Tallied(i) /\ now' >= now
    BY DEF TInv, PInv, IInv, TypeOK
  <1>2. i # id => proposals'[i] = proposals[i]
    BY DEF Rewritten
  <1> QED BY <1>1, <1>2, TalliedKept

LEMMA TalliesStep ==
  ASSUME TInv, TypeOK', Funded', Supplied', [Next]_vars, NEW i \in ProposalIds
  PROVE  Tallied(i)'
  <1>0. TypeOK /\ IInv /\ PInv /\ Tallied(i) /\ \A u \in Voters : u \in Users
    BY InputsAssumption DEF TInv, PInv, IInv
  <1>1. ASSUME NEW u \in Users, NEW n \in TokenCounts,
               \/ \E role \in ProposerRoles : CreateModuleProposal(u, role, n)
               \/ \E a \in Assets : CreateSponsorProposal(u, n, a)
        PROVE  Tallied(i)'
    <2>1. PICK x \in Proposal : Opens(x)
      BY <1>0, <1>1, CreateOpens, SponsorOpens
    <2> QED BY <1>0, <1>1, <2>1, CreateZero, OpenTallied
  <1>2. ASSUME NEW u \in Users, NEW id \in ProposalIds,
               \/ ClaimProposal(u, id) \/ UploadProposal(u, id)
               \/ \E passed \in BOOLEAN : ReviewProposal(u, id, passed)
        PROVE  Tallied(i)'
    <2>1. Rewritten(id) /\ proposals'[id].status # "Voting"
      BY <1>0, <1>2, ClaimEffect, UploadEffect, ReviewEffect
         DEF Approves, Retries, Bans, Drops
    <2>2. now' = now /\ UNCHANGED votes
      BY <1>2 DEF ClaimProposal, UploadProposal, ReviewProposal, envVars
    <2> QED BY <2>1, <2>2, RewriteTallied
  <1>3. ASSUME NEW id \in ProposalIds,
               FinalizeProposal(id) \/ ReleaseClaim(id) \/ ExpireProposal(id)
        PROVE  Tallied(i)'
    <2>1. Rewritten(id) /\ proposals'[id].status # "Voting"
      BY <1>0, <1>3, FinalizeEffect, ReleaseEffect, ExpireEffect
    <2>2. now' = now /\ UNCHANGED votes
      BY <1>3 DEF FinalizeProposal, ReleaseClaim, ExpireProposal, envVars
    <2> QED BY <2>1, <2>2, RewriteTallied
  <1>4. ASSUME NEW id \in ProposalIds,
               \/ \E u \in Users : \/ MintProposedModule(u, id) \/ MintSponsoredModule(u, id)
                                   \/ ReclaimPreSponsor(u, id)
               \/ ClearProposal(id)
        PROVE  Tallied(i)'
    <2>1. Closes(id)
      BY <1>0, <1>4, MintCloses, ReclaimCloses, ClearCloses
    <2>2. /\ proposals'[i] = None \/ proposals'[i] = proposals[i]
          /\ votes'[i] = votes[i] /\ now' >= now
      BY <1>0, <2>1 DEF Closes, envVars, TypeOK
    <2> QED BY <1>0, <2>2, TalliedKept
  <1>5. ASSUME NEW u \in Users, NEW id \in ProposalIds, UnlockProposalVote(u, id)
        PROVE  Tallied(i)'
    BY <1>5, UnlockTallied
  <1>6. ASSUME NEW u \in Voters, NEW id \in ProposalIds, NEW vote \in Ballots,
               NEW amount \in Powers, VoteOnProposal(u, id, vote, amount)
        PROVE  Tallied(i)'
    <2>1. Tallied(id)'
      BY <1>0, <1>6, VoteTallied
    <2>2. ASSUME i # id PROVE Tallied(i)'
      <3>1. proposals'[i] = proposals[i]
        BY <1>0, <1>6, <2>2, VoteEffect DEF Rewritten
      <3>2. votes'[i] = votes[i] /\ now' >= now
        BY <1>0, <1>6, <2>2 DEF VoteOnProposal, envVars, TypeOK
      <3> QED BY <1>0, <3>1, <3>2, TalliedKept
    <2> QED BY <2>1, <2>2
  <1>7. ASSUME \/ UpdateConfig \/ WithdrawTreasury \/ Tick \/ UNCHANGED vars
               \/ \E grant \in RoleChanges : ChangeRole(grant)
               \/ \E id \in ProposalIds : StrayTransfer(id)
        PROVE  Tallied(i)'
    <2>1. UNCHANGED <<proposals, votes>> /\ now' >= now
      BY <1>0, <1>7 DEF UpdateConfig, WithdrawTreasury, Tick, ChangeRole, StrayTransfer,
                        vars, envVars, TypeOK
    <2> QED BY <1>0, <2>1, TalliedKept
  <1> QED BY <1>1, <1>2, <1>3, <1>4, <1>5, <1>6, <1>7 DEF Next

\* Only voting and unlocking touch a vote record.
LEMMA VotersAct ==
  [Next]_vars =>
    \/ \E w \in Voters, j \in ProposalIds, vote \in Ballots, amount \in Powers :
          VoteOnProposal(w, j, vote, amount)
    \/ \E w \in Users, j \in ProposalIds : UnlockProposalVote(w, j)
    \/ UNCHANGED votes
  <1> SUFFICES ASSUME [Next]_vars,
                      ~ \E w \in Voters, j \in ProposalIds, vote \in Ballots, amount \in Powers :
                          VoteOnProposal(w, j, vote, amount),
                      ~ \E w \in Users, j \in ProposalIds : UnlockProposalVote(w, j)
               PROVE  UNCHANGED votes
    OBVIOUS
  <1>1. ASSUME NEW u \in Users, NEW n \in TokenCounts,
               \/ \E role \in ProposerRoles : CreateModuleProposal(u, role, n)
               \/ \E a \in Assets : CreateSponsorProposal(u, n, a)
        PROVE  UNCHANGED votes
    BY <1>1 DEF CreateModuleProposal, CreateSponsorProposal
  <1>2. ASSUME NEW u \in Users, NEW id \in ProposalIds,
               \/ ClaimProposal(u, id) \/ UploadProposal(u, id)
               \/ \E passed \in BOOLEAN : ReviewProposal(u, id, passed)
               \/ MintProposedModule(u, id) \/ MintSponsoredModule(u, id)
               \/ ReclaimPreSponsor(u, id)
        PROVE  UNCHANGED votes
    BY <1>2 DEF ClaimProposal, UploadProposal, ReviewProposal, MintProposedModule,
                MintSponsoredModule, Mint, ReclaimPreSponsor
  <1>3. ASSUME NEW id \in ProposalIds,
               \/ FinalizeProposal(id) \/ ReleaseClaim(id) \/ ExpireProposal(id)
               \/ ClearProposal(id) \/ StrayTransfer(id)
        PROVE  UNCHANGED votes
    BY <1>3 DEF FinalizeProposal, ReleaseClaim, ExpireProposal, ClearProposal, StrayTransfer
  <1>4. ASSUME \/ UpdateConfig \/ WithdrawTreasury \/ Tick
               \/ \E grant \in RoleChanges : ChangeRole(grant)
        PROVE  UNCHANGED votes
    BY <1>4 DEF UpdateConfig, WithdrawTreasury, Tick, ChangeRole
  <1>5. ASSUME UNCHANGED vars PROVE UNCHANGED votes
    BY <1>5 DEF vars
  <1> QED BY <1>1, <1>2, <1>3, <1>4, <1>5 DEF Next

LEMMA UnvotedStep == TInv /\ [Next]_vars => Unvoted'
  <1> SUFFICES ASSUME TInv, [Next]_vars, NEW id \in ProposalIds, id >= next_id',
                      NEW u \in Users
               PROVE  votes'[id][u] = None
    BY DEF Unvoted
  <1>0. TypeOK /\ IInv /\ PInv /\ next_id \in Nat /\ id \in Nat
    BY DEF TInv, PInv, IInv, TypeOK, ProposalIds
  <1>1. next_id' = next_id \/ next_id' = next_id + 1
    BY <1>0, StepShape DEF OpensPlain, OpensSponsored, Opens, RewritesWell, Rewrites, Closes, Rests
  <1>2. id >= next_id /\ votes[id][u] = None /\ proposals[id] = None
    <2>1. id >= next_id
      BY <1>0, <1>1
    <2> QED BY <1>0, <2>1 DEF TInv, PInv, Unvoted, Fresh
  <1>3. ASSUME NEW w \in Voters, NEW j \in ProposalIds, NEW vote \in Ballots,
               NEW amount \in Powers, VoteOnProposal(w, j, vote, amount)
        PROVE  votes'[id][u] = None
    <2>1. j # id
      BY <1>2, <1>3 DEF VoteOnProposal
    <2> QED BY <1>0, <1>2, <1>3, <2>1 DEF VoteOnProposal, TypeOK
  <1>4. ASSUME NEW w \in Users, NEW j \in ProposalIds, UnlockProposalVote(w, j)
        PROVE  votes'[id][u] = None
    BY <1>0, <1>2, <1>4 DEF UnlockProposalVote, TypeOK
  <1>5. ASSUME UNCHANGED votes PROVE votes'[id][u] = None
    BY <1>2, <1>5
  <1>6. \/ \E w \in Voters, j \in ProposalIds, vote \in Ballots, amount \in Powers :
              VoteOnProposal(w, j, vote, amount)
        \/ \E w \in Users, j \in ProposalIds : UnlockProposalVote(w, j)
        \/ UNCHANGED votes
    BY VotersAct
  <1> QED BY <1>3, <1>4, <1>5, <1>6

\* No instruction locks more XCAV than there is outside the vault and the treasury.
LEMMA SuppliedStep == TInv /\ TypeOK' /\ [Next]_vars => Supplied'
  <1> SUFFICES ASSUME TInv, TypeOK', [Next]_vars PROVE Supplied'
    OBVIOUS
  <1>0. /\ TypeOK /\ IInv /\ PInv /\ vault \in Nat /\ treasury \in Nat /\ XcavSupply \in Nat
        /\ vault + treasury <= XcavSupply /\ vault' \in Nat /\ treasury' \in Nat
    BY BoundsAssumption DEF TInv, PInv, IInv, TypeOK, Supplied
  <1>1. ASSUME NEW u \in Users, NEW n \in TokenCounts,
               \/ \E role \in ProposerRoles : CreateModuleProposal(u, role, n)
               \/ \E a \in Assets : CreateSponsorProposal(u, n, a)
        PROVE  Supplied'
    <2>1. /\ vault' = vault + config.proposal_deposit /\ treasury' = treasury
          /\ vault + treasury + config.proposal_deposit <= XcavSupply
      BY <1>1 DEF CreateModuleProposal, CreateSponsorProposal, Lockable
    <2> QED BY <1>0, <2>1, ConfigOK DEF Supplied
  <1>2. ASSUME NEW u \in Users, NEW id \in ProposalIds, ClaimProposal(u, id)
        PROVE  Supplied'
    <2>1. /\ vault' = vault + config.module_deposit /\ treasury' = treasury
          /\ vault + treasury + config.module_deposit <= XcavSupply
      BY <1>2 DEF ClaimProposal, Lockable
    <2> QED BY <1>0, <2>1, ConfigOK DEF Supplied
  <1>3. ASSUME NEW id \in ProposalIds,
               \/ FinalizeProposal(id) \/ ReleaseClaim(id) \/ ExpireProposal(id)
               \/ \E u \in Users, passed \in BOOLEAN : ReviewProposal(u, id, passed)
        PROVE  Supplied'
    <2>1. proposals[id] \in Proposal
      BY <1>0, <1>3, FinalizeEffect, ReleaseEffect, ExpireEffect, ReviewEffect DEF Rewritten
    <2>2. proposals[id].deposit \in Nat /\ proposals[id].bond \in Nat
      BY <2>1, ProposalFields
    <2>3. \/ UNCHANGED xcavVars
          \/ \E n \in Nat : vault' = vault - n /\ (treasury' = treasury \/ treasury' = treasury + n)
      <3>1. CASE FinalizeProposal(id)
        BY <3>1, <2>2 DEF FinalizeProposal
      <3>2. CASE ReleaseClaim(id)
        BY <3>2, <2>2 DEF ReleaseClaim, SlashBond
      <3>3. CASE ExpireProposal(id)
        BY <3>3, <2>2 DEF ExpireProposal, SlashBond
      <3>4. CASE \E u \in Users, passed \in BOOLEAN : ReviewProposal(u, id, passed)
        BY <3>4, <2>2 DEF ReviewProposal, SlashBond
      <3> QED BY <1>3, <3>1, <3>2, <3>3, <3>4
    <2>4. ASSUME NEW n \in Nat, vault' = vault - n,
                 treasury' = treasury \/ treasury' = treasury + n
          PROVE  Supplied'
      <3>1. n \in Nat /\ vault \in Nat /\ treasury \in Nat /\ XcavSupply \in Nat
            /\ vault + treasury <= XcavSupply /\ vault' = vault - n
        BY <1>0, <2>4
      <3>2. CASE treasury' = treasury
        BY <3>1, <3>2 DEF Supplied
      <3>3. CASE treasury' = treasury + n
        BY <3>1, <3>3 DEF Supplied
      <3> QED BY <2>4, <3>2, <3>3
    <2>5. ASSUME UNCHANGED xcavVars PROVE Supplied'
      BY <1>0, <2>5 DEF Supplied, xcavVars
    <2> QED BY <2>3, <2>4, <2>5
  <1>4. ASSUME NEW u \in Users, NEW id \in ProposalIds, UnlockProposalVote(u, id)
        PROVE  Supplied'
    <2>1. votes[id][u].power \in Nat
      BY <1>0, <1>4 DEF UnlockProposalVote, MayUnlock, TypeOK, VoteRecord
    <2>2. vault' = vault - votes[id][u].power /\ treasury' = treasury
      BY <1>4 DEF UnlockProposalVote
    <2> QED BY <1>0, <2>1, <2>2 DEF Supplied
  <1>5. ASSUME NEW u \in Voters, NEW id \in ProposalIds, NEW vote \in Ballots,
               NEW amount \in Powers, VoteOnProposal(u, id, vote, amount)
        PROVE  Supplied'
    <2> DEFINE refund == IF votes[id][u] = None THEN 0 ELSE votes[id][u].power
    <2>1. /\ vault' = vault - refund + amount /\ treasury' = treasury
          /\ vault - refund + treasury + amount <= XcavSupply
      BY <1>5 DEF VoteOnProposal
    <2>2. refund \in Nat /\ amount \in Nat
      BY <1>0, InputsAssumption, InputsNat DEF TypeOK, VoteRecord
    <2> HIDE DEF refund
    <2> QED BY <1>0, <2>1, <2>2 DEF Supplied
  <1>6. ASSUME UNCHANGED xcavVars PROVE Supplied'
    BY <1>0, <1>6 DEF Supplied, xcavVars
  <1>7. ASSUME WithdrawTreasury PROVE Supplied'
    BY <1>0, <1>7 DEF WithdrawTreasury, Supplied
  <1> QED
    BY <1>1, <1>2, <1>3, <1>4, <1>5, <1>6, <1>7
    DEF Next, UploadProposal, MintProposedModule, MintSponsoredModule, Mint, ReclaimPreSponsor,
        ClearProposal, StrayTransfer, UpdateConfig, ChangeRole, Tick, vars

LEMMA TInvInit == Init => TInv
  <1> SUFFICES ASSUME Init PROVE TInv
    OBVIOUS
  <1>1. \A id \in ProposalIds : Tallied(id)
    BY DEF Init, Tallied
  <1>2. Unvoted /\ Supplied
    BY BoundsAssumption DEF Init, Unvoted, Supplied
  <1>3. PInv /\ TypeOK /\ Funded
    BY PInvInit, BackedInit, BackedFunded DEF PInv, IInv
  <1> QED BY <1>1, <1>2, <1>3 DEF TInv

\* A step keeps tallies and supply if it leaves enough in the vault.
LEMMA TInvKept == TInv /\ [Next]_vars /\ Funded' => TInv'
  <1> SUFFICES ASSUME TInv, [Next]_vars, Funded' PROVE TInv'
    OBVIOUS
  <1>1. PInv'
    BY PInvStep DEF TInv
  <1>2. TypeOK'
    BY <1>1 DEF PInv, IInv
  <1>3. Supplied' /\ Unvoted'
    BY <1>2, SuppliedStep, UnvotedStep
  <1>4. \A id \in ProposalIds : Tallied(id)'
    BY <1>2, <1>3, TalliesStep
  <1> QED BY <1>1, <1>3, <1>4 DEF TInv

\* So does a step of others: time, parameters and roles, and transfers that leave
\* enough in the vault.
LEMMA TInvRests ==
  TInv /\ Rests /\ UNCHANGED votes /\ now' >= now /\ Funded' /\ Supplied' => TInv'
  <1> SUFFICES ASSUME TInv, Rests, UNCHANGED votes, now' >= now, Funded', Supplied'
               PROVE  TInv'
    OBVIOUS
  <1>1. PInv /\ PInv' /\ TypeOK /\ TypeOK'
    BY RestsWell DEF TInv, PInv, IInv
  <1>2. UNCHANGED <<next_id, proposals, votes>>
    BY DEF Rests
  <1>3. Unvoted'
    BY <1>2 DEF TInv, Unvoted
  <1>4. \A id \in ProposalIds : Tallied(id)'
    BY <1>1, <1>2, TalliedKept DEF TInv
  <1> QED BY <1>1, <1>3, <1>4 DEF TInv

LEMMA TInvStep == Backed /\ TInv /\ [Next]_vars => Backed' /\ TInv'
  <1> SUFFICES ASSUME Backed, TInv, [Next]_vars PROVE Backed' /\ TInv'
    OBVIOUS
  <1>1. PInv' /\ Backed'
    BY PInvStep, BackedStep DEF TInv
  <1>2. Funded'
    BY <1>1, BackedFunded, PTL DEF PInv, IInv
  <1> QED BY <1>1, <1>2, TInvKept

LEMMA TalliesExact == TInv => TallyExact
  BY DEF TInv, TallyExact, Tallied, Live

\* While a vote is open its tallies are the sums of the votes on record, for any
\* number of voters and however often each of them changes a vote: taking a vote
\* out never saturates, so no power is counted twice and none is lost.
THEOREM TallyTheorem == Spec => []TallyExact
  BY BackedInit, TInvInit, TInvStep, TalliesExact, PTL DEF Spec
-----------------------------------------------------------------------------
(* Nothing is stuck. *)

\* The vault can pay what any one proposal or vote keeps in it.
LEMMA Payable ==
  ASSUME TInv, NEW id \in ProposalIds
  PROVE  /\ vault >= Staked(id) /\ vault >= Bonded(id)
         /\ \A u \in Users : vault >= VotesOn(id)[u]
  <1>1. Sums /\ TypeOK /\ TypedParts(id) /\ PledgesTyped
    BY SumsTyped, PartsTyped, PledgesNat DEF TInv, PInv, IInv
  <1>2. SumFunction(Pledges) >= Pledges[id] /\ Pledges[id] \in Nat
    BY <1>1, ProposalIdsFinite, TotalChange DEF PledgesTyped
  <1>3. Pledges[id] = Staked(id) + Bonded(id)
    BY DEF Pledges
  <1>4. SumFunction(VoteLocks) >= VoteLocks[id] /\ VoteLocks[id] \in Nat
    <2>1. VoteLocks \in [ProposalIds -> Nat]
      BY <1>1 DEF Sums
    <2> QED BY <2>1, ProposalIdsFinite, TotalChange
  <1>5. ASSUME NEW u \in Users
        PROVE  VoteLocks[id] >= VotesOn(id)[u] /\ VotesOn(id)[u] \in Nat
    <2>1. VotesOn(id) \in [Users -> Nat] /\ VoteLocks[id] = SumFunction(VotesOn(id))
      BY <1>1 DEF Sums, VoteLocks
    <2> QED BY <2>1, UsersAssumption, TotalChange
  <1>6. vault >= SumFunction(Pledges) + SumFunction(VoteLocks) /\ vault \in Nat
        /\ SumFunction(Pledges) \in Nat /\ SumFunction(VoteLocks) \in Nat
    BY <1>1 DEF TInv, Funded, Sums, PledgesTyped
  <1> QED BY <1>1, <1>2, <1>3, <1>4, <1>5, <1>6 DEF TypedParts

LEMMA MovesOn == TInv => ProposalsMoveOn
  <1> SUFFICES ASSUME TInv PROVE ProposalsMoveOn
    OBVIOUS
  <1>0. TypeOK
    BY DEF TInv, PInv, IInv
  <1>1. ASSUME NEW id \in Live
        PROVE  LET p == proposals[id] IN
               /\ p # None /\ p \in Proposal /\ id \in ProposalIds
               /\ p.status = "Voting" => vault >= p.deposit
               /\ vault >= p.bond
    <2>1. id \in ProposalIds /\ proposals[id] # None /\ proposals[id] \in Proposal
      BY <1>0 DEF Live, TypeOK
    <2> QED BY <2>1, Payable DEF Staked, Bonded
  <1>2. ASSUME NEW id \in Live, proposals[id].status = "Voting", now >= proposals[id].expiry
        PROVE  MayFinalize(id)
    <2> DEFINE tally == proposals[id].tally
    <2>1. Total(tally) <= XcavSupply
      BY <1>1, <1>2 DEF TInv, Tallied
    <2>2. tally["Yes"] \in Nat /\ tally["No"] \in Nat /\ tally["Abstain"] \in Nat
      BY <1>1, ProposalFields DEF Ballots
    <2>3. tally["Yes"] + tally["No"] <= U64Max
      BY <2>1, <2>2, SupplyAssumption, BoundsAssumption, WidthAssumption DEF Total
    <2> QED BY <1>1, <1>2, <2>3 DEF MayFinalize
  <1>3. ASSUME NEW id \in Live, proposals[id].status = "Claimed",
               now >= proposals[id].upload_deadline
        PROVE  MayRelease(id)
    BY <1>1, <1>3 DEF MayRelease
  <1>4. ASSUME NEW id \in Live, proposals[id].status \notin {"Voting", "Rejected"},
               now >= ExpiresAt(proposals[id])
        PROVE  MayExpire(id)
    BY <1>1, <1>4, ProposalFields DEF MayExpire, Statuses
  <1>5. ASSUME NEW id \in Live, proposals[id].status = "Rejected",
               proposals[id].pre_sponsor_amount = 0
        PROVE  MayClear(id)
    BY <1>1, <1>5 DEF MayClear, Clearable
  <1>6. ASSUME NEW id \in Live, proposals[id].status = "Rejected",
               proposals[id].pre_sponsor_amount # 0, stray[id] = 0
        PROVE  MayReclaim(proposals[id].proposer, id)
    <2>1. proposals[id].pre_sponsor_amount > 0
      BY <1>1, <1>6, ProposalFields
    <2>2. escrow[id] = pre_sponsor_locked(proposals[id]) + stray[id]
      BY <1>1, <2>1 DEF TInv, PInv, PreSponsorshipKept, Kept
    <2>3. pre_sponsor_locked(proposals[id]) \in Nat
      BY <1>1, LockedNat
    <2>4. escrow[id] = pre_sponsor_locked(proposals[id]) /\ escrow[id] # None
      BY <1>6, <2>2, <2>3, NoneAssumption
    <2> QED BY <1>1, <1>6, <2>1, <2>4 DEF MayReclaim, EscrowCloses
  <1>7. ASSUME NEW id \in ProposalIds, NEW u \in Users, votes[id][u] # None,
               now >= votes[id][u].expiry
        PROVE  MayUnlock(u, id)
    <2>1. vault >= votes[id][u].power
      BY <1>7, Payable DEF VotesOn
    <2> QED BY <1>7, <2>1 DEF MayUnlock
  <1> QED BY <1>2, <1>3, <1>4, <1>5, <1>6, <1>7 DEF ProposalsMoveOn

\* No proposal is ever stuck, for any number of users and proposals and whatever
\* the configuration became meanwhile: the vault can pay what each step pays out,
\* the tallies add up within a u64, and a rejected pre-sponsorship is where it was
\* put.
THEOREM MoveOnTheorem == Spec => []ProposalsMoveOn
  BY BackedInit, TInvInit, TInvStep, MovesOn, PTL DEF Spec
=============================================================================
