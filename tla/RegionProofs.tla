----------------------------- MODULE RegionProofs -----------------------------
(***************************************************************************)
(* Region governance for any number of regions, users and proposals: its   *)
(* accounts stay well formed, its candidacies stay apart, its one vault    *)
(* holds what they and the votes record, and an open tally is the power    *)
(* locked for it, so that nothing in it is ever stuck.                     *)
(***************************************************************************)
EXTENDS Regions, TotalLemmas, TLAPS

LEMMA ConfigOK ==
  ASSUME TypeOK PROVE config \in ConfigParams
  BY InputsAssumption DEF TypeOK

LEMMA PeriodsNat ==
  ASSUME TypeOK
  PROVE  /\ config.voting_period \in Nat /\ config.owner_change_period \in Nat
         /\ config.notice_period \in Nat
  BY ConfigOK, BoundsAssumption DEF ConfigParams

LEMMA InputsNat ==
  /\ \A n \in Amounts : n \in Nat
  /\ \A n \in Supplies : n \in Nat
  BY InputsAssumption, BoundsAssumption

LEMMA BondNat == ASSUME TypeOK PROVE Bond \in Nat
  BY DEF TypeOK, Bond

LEMMA SeatMoneyNat ==
  ASSUME TypeOK, NEW u \in Users, NEW seat \in Region
  PROVE  Locked(u, seat) \in Nat /\ Released(u, seat) \in Nat
  <1>1. Bond \in Nat /\ seat.collateral \in Nat
    BY BondNat DEF Region
  <1> QED BY <1>1 DEF Locked, Released

\* A tally stays a tally when a vote is taken out of it.
LEMMA RetractOK ==
  ASSUME NEW tally \in [Ballots -> Nat], NEW record \in VoteRecord \cup {None}
  PROVE  Retract(tally, record) \in [Ballots -> Nat]
  <1>1. CASE record = None
    BY <1>1 DEF Retract
  <1>2. CASE record \in VoteRecord /\ record # None
    <2>1. record.vote \in Ballots /\ record.power \in Nat
      BY <1>2 DEF VoteRecord
    <2>2. (IF tally[record.vote] <= record.power THEN 0
           ELSE tally[record.vote] - record.power) \in Nat
      BY <2>1
    <2> QED BY <1>2, <2>1, <2>2 DEF Retract
  <1> QED BY <1>1, <1>2

LEMMA InitOK == Init => TypeOK
  BY InputsAssumption, InputsNat DEF Init, TypeOK
-----------------------------------------------------------------------------
LEMMA ProposeOK ==
  ASSUME TypeOK, NEW u \in Users, NEW r \in RegionCodes, ProposeNewRegion(u, r)
  PROVE  TypeOK'
  <1>1. Bond \in Nat /\ config.voting_period \in Nat /\ I64Max \in Nat
    BY BondNat, PeriodsNat, BoundsAssumption
  <1>2. next_id \in ProposalIds
    BY BoundsAssumption DEF TypeOK, ProposeNewRegion, ProposalIds
  <1>3. proposals' \in [ProposalIds -> Proposal \cup {None}]
    <2> DEFINE expiry == IF now + config.voting_period <= I64Max
                         THEN now + config.voting_period ELSE I64Max
               p == [region |-> r, proposer |-> u, expiry |-> expiry,
                     tally |-> [v \in Ballots |-> 0]]
    <2>1. expiry \in Nat
      BY <1>1 DEF TypeOK
    <2>2. proposals' = [proposals EXCEPT ![next_id] = p]
      BY DEF ProposeNewRegion
    <2> HIDE DEF expiry
    <2>3. p \in Proposal
      BY <2>1 DEF Proposal
    <2> QED BY <2>2, <2>3 DEF TypeOK
  <1>4. states' \in [RegionCodes -> RegionState \cup {None}]
    BY <1>1, <1>2 DEF ProposeNewRegion, TypeOK, RegionState, Statuses
  <1>5. next_id' \in Nat /\ vault' \in Nat
    BY <1>1 DEF ProposeNewRegion, TypeOK
  <1>6. UNCHANGED <<envVars, votes, regions>>
    BY DEF ProposeNewRegion
  <1> QED BY <1>3, <1>4, <1>5, <1>6 DEF TypeOK, envVars

LEMMA VoteOK ==
  ASSUME TypeOK, NEW u \in Users, NEW r \in RegionCodes, NEW vote \in Ballots,
         NEW amount \in Amounts, VoteOnRegionProposal(u, r, vote, amount)
  PROVE  TypeOK'
  <1> DEFINE id == states[r].proposal_id
             p == proposals[id]
             old == votes[id][u]
             refund == IF old = None THEN 0 ELSE old.power
             rest == Retract(p.tally, old)
  <1>1. id \in ProposalIds /\ states[r] \in RegionState
    BY DEF TypeOK, VoteOnRegionProposal, RegionState
  <1>2. p \in Proposal /\ p.tally \in [Ballots -> Nat] /\ p.expiry \in Nat
    BY <1>1 DEF TypeOK, VoteOnRegionProposal, Proposal
  <1>3. old \in VoteRecord \cup {None} /\ amount \in Nat
    BY <1>1, InputsNat DEF TypeOK
  <1>4. rest \in [Ballots -> Nat]
    BY <1>2, <1>3, RetractOK
  <1>5. refund \in Nat
    BY <1>3 DEF VoteRecord
  <1>6. /\ proposals' = [proposals EXCEPT ![id].tally = [rest EXCEPT ![vote] = @ + amount]]
        /\ votes' = [votes EXCEPT ![id][u] =
                       [vote |-> vote, power |-> amount, expiry |-> p.expiry]]
        /\ vault >= refund /\ vault' = vault - refund + amount
        /\ UNCHANGED <<envVars, next_id, states, regions>>
    BY DEF VoteOnRegionProposal
  <1> HIDE DEF rest, refund
  <1>7. proposals' \in [ProposalIds -> Proposal \cup {None}]
    <2>1. [rest EXCEPT ![vote] = @ + amount] \in [Ballots -> Nat]
      BY <1>3, <1>4
    <2>2. proposals' = [proposals EXCEPT
            ![id] = [p EXCEPT !.tally = [rest EXCEPT ![vote] = @ + amount]]]
      BY <1>6 DEF TypeOK
    <2>3. [p EXCEPT !.tally = [rest EXCEPT ![vote] = @ + amount]] \in Proposal
      BY <1>2, <2>1 DEF Proposal
    <2> QED BY <2>2, <2>3 DEF TypeOK
  <1>8. votes' \in [ProposalIds -> [Users -> VoteRecord \cup {None}]]
    <2>1. [vote |-> vote, power |-> amount, expiry |-> p.expiry] \in VoteRecord
      BY <1>2, <1>3 DEF VoteRecord
    <2> HIDE DEF id, p
    <2> QED BY <1>6, <2>1 DEF TypeOK
  <1>9. vault' \in Nat
    BY <1>3, <1>5, <1>6 DEF TypeOK
  <1> QED BY <1>6, <1>7, <1>8, <1>9 DEF TypeOK, envVars

LEMMA FinalizeOK ==
  ASSUME TypeOK, NEW r \in RegionCodes, FinalizeRegionProposal(r)
  PROVE  TypeOK'
  <1>1. states[r] \in RegionState /\ states[r].deposit \in Nat
    BY DEF TypeOK, FinalizeRegionProposal, MayFinalize, RegionState
  <1>2. now + config.owner_change_period \in Nat
    BY PeriodsNat DEF TypeOK
  <1>3. /\ states' \in [RegionCodes -> RegionState \cup {None}]
        /\ vault' \in Nat
    <2>1. \A d \in Nat : /\ [states[r] EXCEPT !.status = "Passed", !.claim_deadline = d]
                              \in RegionState
                         /\ [states[r] EXCEPT !.status = "Rejected"] \in RegionState
      BY <1>1 DEF RegionState, Statuses
    <2>2. \/ /\ states' = [states EXCEPT ![r] = [states[r] EXCEPT
                    !.status = "Passed",
                    !.claim_deadline = now + config.owner_change_period]]
             /\ UNCHANGED vault
          \/ /\ states' = [states EXCEPT ![r] = [states[r] EXCEPT !.status = "Rejected"]]
             /\ vault >= states[r].deposit /\ vault' = vault - states[r].deposit
      BY DEF FinalizeRegionProposal, MayFinalize, TypeOK
    <2>3. \E x \in RegionState : states' = [states EXCEPT ![r] = x]
      BY <1>2, <2>1, <2>2
    <2>4. vault' \in Nat
      BY <1>1, <2>2 DEF TypeOK
    <2> QED BY <2>3, <2>4 DEF TypeOK
  <1>4. proposals' \in [ProposalIds -> Proposal \cup {None}]
    BY DEF FinalizeRegionProposal, MayFinalize, TypeOK
  <1>5. UNCHANGED <<envVars, next_id, votes, regions>>
    BY DEF FinalizeRegionProposal, MayFinalize
  <1> QED BY <1>3, <1>4, <1>5 DEF TypeOK, envVars

LEMMA SeatOK ==
  ASSUME TypeOK, NEW u \in Users, NEW r \in RegionCodes,
         CreateRegion(u, r) \/ ClaimOpenRegion(u, r) \/ InitiateResignation(u, r)
  PROVE  TypeOK'
  <1>1. now + config.owner_change_period \in Nat /\ now + config.notice_period \in Nat
        /\ Bond \in Nat
    BY PeriodsNat, BondNat DEF TypeOK
  <1>2. CASE CreateRegion(u, r)
    <2>1. states[r].deposit \in Nat
      BY <1>2 DEF TypeOK, CreateRegion, RegionState
    <2>2. regions' \in [RegionCodes -> Region \cup {None}]
      BY <1>1, <1>2, <2>1 DEF TypeOK, CreateRegion, Region
    <2>3. states' \in [RegionCodes -> RegionState \cup {None}]
      BY <1>2 DEF TypeOK, CreateRegion
    <2>4. UNCHANGED <<envVars, next_id, proposals, votes, vault>>
      BY <1>2 DEF CreateRegion
    <2> QED BY <2>2, <2>3, <2>4 DEF TypeOK, envVars
  <1>3. CASE ClaimOpenRegion(u, r)
    <2>1. regions[r] \in Region
      BY <1>3 DEF TypeOK, ClaimOpenRegion, MayClaim
    <2>2. Locked(u, regions[r]) \in Nat /\ Released(u, regions[r]) \in Nat
      BY <2>1, SeatMoneyNat
    <2>3. vault' \in Nat
      BY <1>3, <2>2 DEF TypeOK, ClaimOpenRegion, MayClaim
    <2>4. regions' \in [RegionCodes -> Region \cup {None}]
      BY <1>1, <1>3 DEF TypeOK, ClaimOpenRegion, MayClaim, Region
    <2>5. UNCHANGED <<envVars, next_id, states, proposals, votes>>
      BY <1>3 DEF ClaimOpenRegion, MayClaim
    <2> QED BY <2>3, <2>4, <2>5 DEF TypeOK, envVars
  <1>4. CASE InitiateResignation(u, r)
    <2>1. regions[r] \in Region
      BY <1>4 DEF TypeOK, InitiateResignation
    <2>2. regions' \in [RegionCodes -> Region \cup {None}]
      BY <1>1, <1>4, <2>1 DEF TypeOK, InitiateResignation, Region
    <2>3. UNCHANGED <<envVars, next_id, states, proposals, votes, vault>>
      BY <1>4 DEF InitiateResignation
    <2> QED BY <2>2, <2>3 DEF TypeOK, envVars
  <1> QED BY <1>2, <1>3, <1>4

LEMMA CleanupOK ==
  ASSUME TypeOK,
         \/ \E u \in Users, id \in ProposalIds : UnlockVotingToken(u, id)
         \/ \E r \in RegionCodes : ClearRegionState(r)
  PROVE  TypeOK'
  <1>1. CASE \E u \in Users, id \in ProposalIds : UnlockVotingToken(u, id)
    <2> PICK u \in Users, id \in ProposalIds : UnlockVotingToken(u, id)
      BY <1>1
    <2>1. votes[id][u] \in VoteRecord /\ votes[id][u].power \in Nat
      BY DEF TypeOK, UnlockVotingToken, MayUnlock, VoteRecord
    <2>2. vault' \in Nat
      BY <2>1 DEF TypeOK, UnlockVotingToken, MayUnlock
    <2>3. votes' \in [ProposalIds -> [Users -> VoteRecord \cup {None}]]
      BY DEF TypeOK, UnlockVotingToken, MayUnlock
    <2>4. UNCHANGED <<envVars, next_id, states, proposals, regions>>
      BY DEF UnlockVotingToken, MayUnlock
    <2> QED BY <2>2, <2>3, <2>4 DEF TypeOK, envVars
  <1>2. CASE \E r \in RegionCodes : ClearRegionState(r)
    <2> PICK r \in RegionCodes : ClearRegionState(r)
      BY <1>2
    <2>1. states[r] \in RegionState /\ states[r].deposit \in Nat
      BY DEF TypeOK, ClearRegionState, MayClear, Refund, RegionState
    <2>2. vault' \in Nat
      BY <2>1 DEF TypeOK, ClearRegionState, MayClear, Refund
    <2>3. states' \in [RegionCodes -> RegionState \cup {None}]
      BY DEF TypeOK, ClearRegionState, MayClear, Refund
    <2>4. UNCHANGED <<envVars, next_id, proposals, votes, regions>>
      BY DEF ClearRegionState, MayClear, Refund
    <2> QED BY <2>2, <2>3, <2>4 DEF TypeOK, envVars
  <1> QED BY <1>1, <1>2

LEMMA EnvironmentOK ==
  ASSUME TypeOK, \/ UpdateConfig \/ ChangeSupply \/ Tick \/ UNCHANGED vars
                 \/ \E u \in Users : ChangeRole(u)
  PROVE  TypeOK'
  <1>1. /\ now' \in Nat /\ config' \in Configs /\ operators' \subseteq Users
        /\ supply' \in Nat
    BY InputsNat DEF TypeOK, UpdateConfig, ChangeSupply, Tick, ChangeRole, vars, envVars
  <1>2. UNCHANGED <<next_id, states, proposals, votes, regions, vault>>
    BY DEF UpdateConfig, ChangeSupply, Tick, ChangeRole, vars
  <1> QED BY <1>1, <1>2 DEF TypeOK

\* Every step of the program keeps every account of region governance well formed.
LEMMA StepOK == TypeOK /\ [Next]_vars => TypeOK'
  <1> SUFFICES ASSUME TypeOK, [Next]_vars PROVE TypeOK'
    OBVIOUS
  <1>1. ASSUME NEW u \in Users, NEW r \in RegionCodes, ProposeNewRegion(u, r) PROVE TypeOK'
    BY <1>1, ProposeOK
  <1>2. ASSUME NEW u \in Users, NEW r \in RegionCodes, NEW vote \in Ballots,
               NEW amount \in Amounts, VoteOnRegionProposal(u, r, vote, amount)
        PROVE  TypeOK'
    BY <1>2, VoteOK
  <1>3. ASSUME NEW u \in Users, NEW r \in RegionCodes,
               CreateRegion(u, r) \/ ClaimOpenRegion(u, r) \/ InitiateResignation(u, r)
        PROVE  TypeOK'
    BY <1>3, SeatOK
  <1>4. ASSUME NEW r \in RegionCodes, FinalizeRegionProposal(r) \/ ClearRegionState(r)
        PROVE  TypeOK'
    BY <1>4, FinalizeOK, CleanupOK
  <1> QED BY <1>1, <1>2, <1>3, <1>4, CleanupOK, EnvironmentOK DEF Next

\* Every account of region governance stays well formed, and the vault never
\* goes below zero, for any number of regions, users and proposals.
THEOREM TypeCorrect == Spec => []TypeOK
  BY InitOK, StepOK, PTL DEF Spec
-----------------------------------------------------------------------------
(* One candidacy or seat per region.  A new proposal takes an id that no other
   proposal has: ids only grow (Fresh).                                      *)

Fresh == \A id \in ProposalIds : id >= next_id => proposals[id] = None

\* What OneCandidacy says of a region, and of a proposal.
Seatless(r) == states[r] # None => regions[r] = None
Tallied(r) == states[r] # None /\ states[r].status = "Proposing" =>
  /\ proposals[states[r].proposal_id] # None
  /\ proposals[states[r].proposal_id].region = r
  /\ proposals[states[r].proposal_id].proposer = states[r].proposer
Attached(id) == proposals[id] # None =>
  /\ states[proposals[id].region] # None
  /\ states[proposals[id].region].status = "Proposing"
  /\ states[proposals[id].region].proposal_id = id

CInv ==
  /\ TypeOK /\ Fresh
  /\ \A r \in RegionCodes : Seatless(r) /\ Tallied(r)
  /\ \A id \in ProposalIds : Attached(id)

LEMMA CInvCandidacy == CInv => OneCandidacy
  BY DEF CInv, OneCandidacy, Seatless, Tallied, Attached

LEMMA CInvInit == Init => CInv
  BY InitOK DEF Init, CInv, Fresh, Seatless, Tallied, Attached

LEMMA ProposeOne ==
  ASSUME CInv, TypeOK', NEW u \in Users, NEW r \in RegionCodes, ProposeNewRegion(u, r)
  PROVE  CInv'
  <1>1. /\ regions[r] = None /\ states[r] = None
        /\ next_id' = next_id + 1 /\ UNCHANGED regions
        /\ \E e : proposals' = [proposals EXCEPT ![next_id] =
             [region |-> r, proposer |-> u, expiry |-> e, tally |-> [v \in Ballots |-> 0]]]
        /\ states' = [states EXCEPT ![r] =
             [status |-> "Proposing", proposal_id |-> next_id, proposer |-> u,
              deposit |-> Bond, claim_deadline |-> 0]]
    BY DEF ProposeNewRegion, Vacant
  <1>2. next_id \in ProposalIds /\ next_id \in Nat
    BY BoundsAssumption DEF CInv, TypeOK, ProposeNewRegion, ProposalIds
  <1>3. proposals[next_id] = None
    BY <1>2 DEF CInv, Fresh, ProposalIds
  <1>4. proposals'[next_id] # None /\ states'[r] # None
    <2>1. proposals'[next_id] \in Proposal \cup {None} /\ proposals'[next_id].region = r
          /\ states'[r] \in RegionState \cup {None}
      BY <1>1, <1>2 DEF CInv, TypeOK
    <2>2. [status |-> "Proposing", proposal_id |-> next_id, proposer |-> u,
           deposit |-> Bond, claim_deadline |-> 0] \in RegionState
      BY <1>2, BondNat DEF CInv, RegionState, Statuses
    <2>3. proposals'[next_id] \in Proposal
      <3> DEFINE expiry == IF now + config.voting_period <= I64Max
                           THEN now + config.voting_period ELSE I64Max
      <3>1. expiry \in Nat
        BY PeriodsNat, BoundsAssumption DEF CInv, TypeOK
      <3>2. proposals'[next_id] = [region |-> r, proposer |-> u, expiry |-> expiry,
                                   tally |-> [v \in Ballots |-> 0]]
        BY <1>2 DEF CInv, TypeOK, ProposeNewRegion
      <3> HIDE DEF expiry
      <3> QED BY <3>1, <3>2 DEF Proposal
    <2> QED BY <1>1, <2>2, <2>3, NoneAssumption DEF CInv, TypeOK
  <1>5. Fresh'
    BY <1>1, <1>2 DEF CInv, TypeOK, Fresh, ProposalIds
  <1>6. ASSUME NEW q \in RegionCodes PROVE Seatless(q)' /\ Tallied(q)'
    <2>1. CASE q = r
      BY <1>1, <1>2, <1>4, <2>1 DEF CInv, TypeOK, Seatless, Tallied
    <2>2. CASE q # r
      <3>1. states'[q] = states[q]
        BY <1>1, <2>2 DEF CInv, TypeOK
      <3>2. Seatless(q) /\ Tallied(q)
        BY DEF CInv
      <3>3. states[q] # None => states[q].proposal_id \in ProposalIds
        BY DEF CInv, TypeOK, RegionState
      <3>4. states[q] # None /\ states[q].status = "Proposing" =>
              proposals'[states[q].proposal_id] = proposals[states[q].proposal_id]
        BY <1>1, <1>3, <3>2, <3>3 DEF CInv, TypeOK, Tallied
      <3> QED BY <1>1, <3>1, <3>2, <3>4 DEF Seatless, Tallied
    <2> QED BY <2>1, <2>2
  <1>7. ASSUME NEW id \in ProposalIds PROVE Attached(id)'
    <2>1. CASE id = next_id
      BY <1>1, <1>2, <1>4, <2>1 DEF CInv, TypeOK, Attached
    <2>2. CASE id # next_id
      <3>1. proposals'[id] = proposals[id]
        BY <1>1, <2>2 DEF CInv, TypeOK
      <3>2. Attached(id)
        BY DEF CInv
      <3>3. proposals[id] # None => proposals[id].region # r
        BY <1>1, <3>2 DEF Attached
      <3>4. proposals[id] # None => states'[proposals[id].region] = states[proposals[id].region]
        BY <1>1, <3>3 DEF CInv, TypeOK, Proposal
      <3> QED BY <3>1, <3>2, <3>4 DEF Attached
    <2> QED BY <2>1, <2>2
  <1> QED BY <1>5, <1>6, <1>7 DEF CInv

\* Votes, claims of open seats, resignations and the rest of the instructions
\* leave who stands for which region as it is.
LEMMA SameCandidacies ==
  ASSUME CInv, TypeOK', UNCHANGED <<states, next_id>>,
         \A r \in RegionCodes : regions'[r] = None <=> regions[r] = None,
         \A id \in ProposalIds :
           /\ proposals'[id] = None <=> proposals[id] = None
           /\ proposals[id] # None => /\ proposals'[id].region = proposals[id].region
                                      /\ proposals'[id].proposer = proposals[id].proposer
  PROVE  CInv'
  <1>1. Fresh'
    BY DEF CInv, Fresh
  <1>2. ASSUME NEW r \in RegionCodes PROVE Seatless(r)' /\ Tallied(r)'
    <2>1. Seatless(r) /\ Tallied(r)
      BY DEF CInv
    <2>2. states[r] # None => states[r].proposal_id \in ProposalIds
      BY DEF CInv, TypeOK, RegionState
    <2> QED BY <2>1, <2>2 DEF Seatless, Tallied
  <1>3. ASSUME NEW id \in ProposalIds PROVE Attached(id)'
    BY DEF CInv, Attached
  <1> QED BY <1>1, <1>2, <1>3 DEF CInv

LEMMA VoteOne ==
  ASSUME CInv, TypeOK', NEW u \in Users, NEW r \in RegionCodes, NEW vote \in Ballots,
         NEW amount \in Amounts, VoteOnRegionProposal(u, r, vote, amount)
  PROVE  CInv'
  <1> DEFINE id == states[r].proposal_id
  <1>1. id \in ProposalIds /\ proposals[id] \in Proposal
    BY DEF CInv, TypeOK, VoteOnRegionProposal, RegionState
  <1>2. PICK t : proposals' = [proposals EXCEPT ![id].tally = t]
    BY DEF VoteOnRegionProposal
  <1>3. /\ proposals'[id].region = proposals[id].region
        /\ proposals'[id].proposer = proposals[id].proposer
    BY <1>1, <1>2 DEF CInv, TypeOK, Proposal
  <1>4. proposals'[id] # None
    <2>1. [proposals[id] EXCEPT !.tally =
             [Retract(proposals[id].tally, votes[id][u]) EXCEPT ![vote] = @ + amount]] \in Proposal
      <3>1. proposals[id].tally \in [Ballots -> Nat] /\ amount \in Nat
            /\ votes[id][u] \in VoteRecord \cup {None}
        BY <1>1, InputsNat DEF Proposal, CInv, TypeOK
      <3>2. Retract(proposals[id].tally, votes[id][u]) \in [Ballots -> Nat]
        BY <3>1, RetractOK
      <3>3. [Retract(proposals[id].tally, votes[id][u]) EXCEPT ![vote] = @ + amount]
              \in [Ballots -> Nat]
        BY <3>1, <3>2
      <3> QED BY <1>1, <3>3 DEF Proposal
    <2>2. proposals'[id] = [proposals[id] EXCEPT !.tally =
             [Retract(proposals[id].tally, votes[id][u]) EXCEPT ![vote] = @ + amount]]
      BY <1>1 DEF VoteOnRegionProposal, CInv, TypeOK
    <2> QED BY <2>1, <2>2, NoneAssumption
  <1>5. UNCHANGED <<states, next_id, regions>>
    BY DEF VoteOnRegionProposal
  <1>6. ASSUME NEW i \in ProposalIds, i # id PROVE proposals'[i] = proposals[i]
    BY <1>2, <1>6 DEF CInv, TypeOK
  <1>7. proposals[id] # None
    BY DEF VoteOnRegionProposal
  <1> HIDE DEF id
  <1> QED BY <1>3, <1>4, <1>5, <1>6, <1>7, SameCandidacies

LEMMA FinalizeOne ==
  ASSUME CInv, TypeOK', NEW r \in RegionCodes, FinalizeRegionProposal(r)
  PROVE  CInv'
  <1> DEFINE id == states[r].proposal_id
  <1>1. /\ states[r] # None /\ states[r].status = "Proposing" /\ proposals[id] # None
        /\ proposals' = [proposals EXCEPT ![id] = None]
        /\ UNCHANGED <<next_id, regions>>
    BY DEF FinalizeRegionProposal, MayFinalize
  <1>2. id \in ProposalIds /\ states[r] \in RegionState /\ proposals[id].region = r
    BY <1>1 DEF CInv, TypeOK, RegionState, Tallied
  <1>3. /\ states'[r].status # "Proposing"
        /\ \A q \in RegionCodes \ {r} : states'[q] = states[q]
    <2>1. CASE states' = [states EXCEPT ![r].status = "Passed",
                                        ![r].claim_deadline = now + config.owner_change_period]
      BY <1>2, <2>1 DEF CInv, TypeOK, RegionState
    <2>2. CASE states' = [states EXCEPT ![r].status = "Rejected"]
      BY <1>2, <2>2 DEF CInv, TypeOK, RegionState
    <2> QED BY <2>1, <2>2 DEF FinalizeRegionProposal, MayFinalize
  <1>4. Fresh'
    BY <1>1, <1>2 DEF CInv, TypeOK, Fresh
  <1>5. ASSUME NEW q \in RegionCodes PROVE Seatless(q)' /\ Tallied(q)'
    <2>1. CASE q = r
      BY <1>1, <1>3, <2>1 DEF CInv, Seatless, Tallied
    <2>2. CASE q # r
      <3>1. states'[q] = states[q] /\ Seatless(q) /\ Tallied(q)
        BY <1>3, <2>2 DEF CInv
      <3>2. states[q] # None => states[q].proposal_id \in ProposalIds
        BY DEF CInv, TypeOK, RegionState
      <3>3. states[q] # None /\ states[q].status = "Proposing" => states[q].proposal_id # id
        BY <1>2, <2>2, <3>1 DEF Tallied
      <3>4. states[q] # None /\ states[q].status = "Proposing" =>
              proposals'[states[q].proposal_id] = proposals[states[q].proposal_id]
        BY <1>1, <3>2, <3>3 DEF CInv, TypeOK
      <3> QED BY <1>1, <3>1, <3>4 DEF Seatless, Tallied
    <2> QED BY <2>1, <2>2
  <1>6. ASSUME NEW i \in ProposalIds PROVE Attached(i)'
    <2>1. CASE i = id
      BY <1>1, <1>2, <2>1 DEF CInv, TypeOK, Attached
    <2>2. CASE i # id
      <3>1. proposals'[i] = proposals[i] /\ Attached(i)
        BY <1>1, <2>2 DEF CInv, TypeOK
      <3>2. proposals[i] # None => proposals[i].region # r /\ proposals[i].region \in RegionCodes
        BY <1>2, <2>2, <3>1 DEF Attached, CInv, TypeOK, Proposal
      <3> QED BY <1>3, <3>1, <3>2 DEF Attached
    <2> QED BY <2>1, <2>2
  <1> QED BY <1>4, <1>5, <1>6 DEF CInv

\* Seating the proposer and clearing a dead candidacy both free the region's
\* RegionState when its vote is over.
LEMMA EndOne ==
  ASSUME CInv, TypeOK', NEW r \in RegionCodes,
         states[r] # None, states[r].status # "Proposing",
         states' = [states EXCEPT ![r] = None], UNCHANGED <<next_id, proposals>>,
         \A q \in RegionCodes \ {r} : regions'[q] = regions[q]
  PROVE  CInv'
  <1>1. Fresh'
    BY DEF CInv, Fresh
  <1>2. states'[r] = None /\ \A q \in RegionCodes \ {r} : states'[q] = states[q]
    BY DEF CInv, TypeOK
  <1>3. ASSUME NEW q \in RegionCodes PROVE Seatless(q)' /\ Tallied(q)'
    BY <1>2 DEF CInv, Seatless, Tallied
  <1>4. ASSUME NEW i \in ProposalIds PROVE Attached(i)'
    <2>1. Attached(i) /\ (proposals[i] # None => proposals[i].region \in RegionCodes)
      BY DEF CInv, TypeOK, Proposal
    <2> QED BY <1>2, <2>1 DEF Attached
  <1> QED BY <1>1, <1>3, <1>4 DEF CInv

LEMMA CandidacyStep == CInv /\ [Next]_vars => CInv'
  <1> SUFFICES ASSUME CInv, [Next]_vars PROVE CInv'
    OBVIOUS
  <1>0. TypeOK'
    BY StepOK DEF CInv
  <1>1. ASSUME NEW u \in Users, NEW r \in RegionCodes, ProposeNewRegion(u, r) PROVE CInv'
    BY <1>0, <1>1, ProposeOne
  <1>2. ASSUME NEW u \in Users, NEW r \in RegionCodes, NEW vote \in Ballots,
               NEW amount \in Amounts, VoteOnRegionProposal(u, r, vote, amount)
        PROVE  CInv'
    BY <1>0, <1>2, VoteOne
  <1>3. ASSUME NEW r \in RegionCodes, FinalizeRegionProposal(r) PROVE CInv'
    BY <1>0, <1>3, FinalizeOne
  <1>4. ASSUME NEW u \in Users, NEW r \in RegionCodes, CreateRegion(u, r) PROVE CInv'
    <2>1. /\ states[r] # None /\ states[r].status = "Passed"
          /\ states' = [states EXCEPT ![r] = None] /\ UNCHANGED <<next_id, proposals>>
      BY <1>4 DEF CreateRegion
    <2>2. \A q \in RegionCodes \ {r} : regions'[q] = regions[q]
      BY <1>4 DEF CreateRegion, CInv, TypeOK
    <2> QED BY <1>0, <2>1, <2>2, EndOne
  <1>5. ASSUME NEW r \in RegionCodes, ClearRegionState(r) PROVE CInv'
    <2>1. /\ states[r] # None /\ states[r].status # "Proposing"
          /\ states' = [states EXCEPT ![r] = None] /\ UNCHANGED <<next_id, proposals, regions>>
      BY <1>5 DEF ClearRegionState, MayClear, Refund
    <2> QED BY <1>0, <2>1, EndOne
  <1>6. ASSUME UNCHANGED <<states, next_id, proposals>>,
               \A r \in RegionCodes : regions'[r] = None <=> regions[r] = None
        PROVE  CInv'
    BY <1>0, <1>6, SameCandidacies
  <1>7. ASSUME NEW u \in Users, NEW r \in RegionCodes,
               ClaimOpenRegion(u, r) \/ InitiateResignation(u, r)
        PROVE  CInv'
    <2>1. UNCHANGED <<states, next_id, proposals>> /\ regions[r] # None
          /\ regions[r] \in Region
      BY <1>7 DEF ClaimOpenRegion, MayClaim, InitiateResignation, CInv, TypeOK
    <2>2. \A q \in RegionCodes \ {r} : regions'[q] = regions[q]
      BY <1>7 DEF ClaimOpenRegion, MayClaim, InitiateResignation, CInv, TypeOK
    <2>3. regions'[r] # None
      <3>1. now + config.owner_change_period \in Nat /\ now + config.notice_period \in Nat
            /\ Bond \in Nat
        BY PeriodsNat, BondNat DEF CInv, TypeOK
      <3>2. regions'[r] \in Region
        <4>1. CASE ClaimOpenRegion(u, r)
          BY <3>1, <4>1 DEF ClaimOpenRegion, MayClaim, CInv, TypeOK, Region
        <4>2. CASE InitiateResignation(u, r)
          <5>1. regions'[r] = [regions[r] EXCEPT !.next_owner_change = now + config.notice_period]
            BY <4>2 DEF InitiateResignation, CInv, TypeOK
          <5> QED BY <2>1, <3>1, <5>1 DEF Region
        <4> QED BY <1>7, <4>1, <4>2
      <3> QED BY <3>2, NoneAssumption
    <2> QED BY <1>6, <2>1, <2>2, <2>3
  <1>8. ASSUME \/ \E u \in Users, id \in ProposalIds : UnlockVotingToken(u, id)
               \/ \E u \in Users : ChangeRole(u)
               \/ UpdateConfig \/ ChangeSupply \/ Tick \/ UNCHANGED vars
        PROVE  CInv'
    <2>1. UNCHANGED <<states, next_id, proposals, regions>>
      BY <1>8 DEF UnlockVotingToken, MayUnlock, ChangeRole, UpdateConfig, ChangeSupply, Tick, vars
    <2> QED BY <1>6, <2>1
  <1> QED BY <1>1, <1>2, <1>3, <1>4, <1>5, <1>7, <1>8 DEF Next

\* At most one candidacy or seat per region, each with its own open tally, in
\* every instance: a stale proposal can never decide over a later candidacy.
THEOREM CandidacyTheorem == Spec => []OneCandidacy
  BY CInvInit, CandidacyStep, CInvCandidacy, PTL DEF Spec
-----------------------------------------------------------------------------
(* The vault.  Each instruction moves what one account holds, so the three   *)
(* sums follow it (TotalChange).                                             *)

LockedFor == [id \in ProposalIds |-> SumFunction(Powers(id))]
Held == SumFunction(Bonds) + SumFunction(Collaterals) + SumFunction(LockedFor)

HoldingsTyped ==
  /\ Bonds \in [RegionCodes -> Nat] /\ SumFunction(Bonds) \in Nat
  /\ Collaterals \in [RegionCodes -> Nat] /\ SumFunction(Collaterals) \in Nat
  /\ \A id \in ProposalIds : Powers(id) \in [Users -> Nat]
  /\ \A id \in ProposalIds, v \in Ballots : PowersFor(id, v) \in [Users -> Nat]
  /\ LockedFor \in [ProposalIds -> Nat] /\ SumFunction(LockedFor) \in Nat

LEMMA ProposalIdsFinite == IsFiniteSet(ProposalIds)
  BY BoundsAssumption, FS_Interval DEF ProposalIds

LEMMA HoldingsNat == TypeOK => HoldingsTyped
  <1> SUFFICES ASSUME TypeOK PROVE HoldingsTyped
    OBVIOUS
  <1>1. Bonds \in [RegionCodes -> Nat]
    BY DEF TypeOK, Bonds, RegionState
  <1>2. Collaterals \in [RegionCodes -> Nat]
    BY DEF TypeOK, Collaterals, Region
  <1>3. ASSUME NEW id \in ProposalIds
        PROVE  /\ Powers(id) \in [Users -> Nat]
               /\ \A v \in Ballots : PowersFor(id, v) \in [Users -> Nat]
    <2>1. ASSUME NEW u \in Users PROVE votes[id][u] # None => votes[id][u].power \in Nat
      BY DEF TypeOK, VoteRecord
    <2> QED BY <2>1 DEF Powers, PowersFor
  <1>4. LockedFor \in [ProposalIds -> Nat]
    BY <1>3, FiniteAssumption, TotalNat DEF LockedFor
  <1> QED BY <1>1, <1>2, <1>3, <1>4, FiniteAssumption, ProposalIdsFinite, TotalNat
          DEF HoldingsTyped

LEMMA BondsMove ==
  ASSUME TypeOK, TypeOK', NEW r \in RegionCodes,
         \A q \in RegionCodes \ {r} : states'[q] = states[q]
  PROVE  SumFunction(Bonds)' = SumFunction(Bonds) - Bonds[r] + Bonds'[r]
  <1>1. HoldingsTyped /\ HoldingsTyped'
    BY HoldingsNat, PTL
  <1>2. \A q \in RegionCodes \ {r} : Bonds'[q] = Bonds[q]
    BY DEF Bonds
  <1> QED BY <1>1, <1>2, FiniteAssumption, TotalChange DEF HoldingsTyped

LEMMA CollateralsMove ==
  ASSUME TypeOK, TypeOK', NEW r \in RegionCodes,
         \A q \in RegionCodes \ {r} : regions'[q] = regions[q]
  PROVE  SumFunction(Collaterals)' = SumFunction(Collaterals) - Collaterals[r] + Collaterals'[r]
  <1>1. HoldingsTyped /\ HoldingsTyped'
    BY HoldingsNat, PTL
  <1>2. \A q \in RegionCodes \ {r} : Collaterals'[q] = Collaterals[q]
    BY DEF Collaterals
  <1> QED BY <1>1, <1>2, FiniteAssumption, TotalChange DEF HoldingsTyped

LEMMA VotesMove ==
  ASSUME TypeOK, TypeOK', NEW id \in ProposalIds, NEW u \in Users,
         \A i \in ProposalIds \ {id} : votes'[i] = votes[i],
         \A v \in Users \ {u} : votes'[id][v] = votes[id][v]
  PROVE  SumFunction(LockedFor)' = SumFunction(LockedFor) - Powers(id)[u] + Powers(id)'[u]
  <1>1. HoldingsTyped /\ HoldingsTyped'
    BY HoldingsNat, PTL
  <1>2. \A v \in Users \ {u} : Powers(id)'[v] = Powers(id)[v]
    BY DEF Powers
  <1>3. /\ SumFunction(Powers(id))' = SumFunction(Powers(id)) - Powers(id)[u] + Powers(id)'[u]
        /\ SumFunction(Powers(id)) \in Nat
    <2>1. Powers(id) \in [Users -> Nat] /\ Powers(id)' \in [Users -> Nat]
      BY <1>1 DEF HoldingsTyped
    <2> QED BY <1>2, <2>1, FiniteAssumption, TotalChange
  <1>4. LockedFor[id] = SumFunction(Powers(id)) /\ LockedFor'[id] = SumFunction(Powers(id))'
    BY DEF LockedFor
  <1>5. ASSUME NEW i \in ProposalIds, i # id PROVE LockedFor'[i] = LockedFor[i]
    <2>1. Powers(i)' = Powers(i)
      BY <1>5 DEF Powers
    <2> QED BY <2>1 DEF LockedFor
  <1>6. /\ SumFunction(LockedFor)' = SumFunction(LockedFor) - LockedFor[id] + LockedFor'[id]
        /\ SumFunction(LockedFor) \in Nat
    <2>1. LockedFor \in [ProposalIds -> Nat] /\ LockedFor' \in [ProposalIds -> Nat]
      BY <1>1 DEF HoldingsTyped
    <2> QED BY <1>5, <2>1, ProposalIdsFinite, TotalChange
  <1>7. Powers(id)[u] \in Nat /\ Powers(id)'[u] \in Nat
    BY <1>1 DEF HoldingsTyped
  <1> QED BY <1>3, <1>4, <1>6, <1>7

LEMMA BondsKept ==
  ASSUME UNCHANGED states PROVE SumFunction(Bonds)' = SumFunction(Bonds)
  <1>1. Bonds' = Bonds
    BY DEF Bonds
  <1> QED BY <1>1

LEMMA CollateralsKept ==
  ASSUME UNCHANGED regions PROVE SumFunction(Collaterals)' = SumFunction(Collaterals)
  <1>1. Collaterals' = Collaterals
    BY DEF Collaterals
  <1> QED BY <1>1

LEMMA VotesKept ==
  ASSUME UNCHANGED votes PROVE SumFunction(LockedFor)' = SumFunction(LockedFor)
  <1>1. LockedFor' = LockedFor
    BY DEF LockedFor, Powers
  <1> QED BY <1>1

\* Backed as numbers, so that a step is an addition.
Backed == vault = Held

LEMMA BackedMeans == Backed <=> VaultBacked
  BY DEF Backed, Held, VaultBacked, LockedFor

Sums == /\ SumFunction(Bonds) \in Nat /\ SumFunction(Collaterals) \in Nat
        /\ SumFunction(LockedFor) \in Nat /\ vault \in Nat

LEMMA SumsNat == TypeOK => Sums
  BY HoldingsNat DEF Sums, HoldingsTyped, TypeOK

LEMMA ProposeBacked ==
  ASSUME TypeOK, TypeOK', Backed, NEW u \in Users, NEW r \in RegionCodes,
         ProposeNewRegion(u, r)
  PROVE  Backed'
  <1>0. Sums /\ Sums'
    BY SumsNat, PTL
  <1>1. /\ states[r] = None /\ vault' = vault + Bond /\ UNCHANGED <<votes, regions>>
        /\ states' = [states EXCEPT ![r] =
             [status |-> "Proposing", proposal_id |-> next_id, proposer |-> u,
              deposit |-> Bond, claim_deadline |-> 0]]
    BY DEF ProposeNewRegion, Vacant
  <1>2. next_id \in ProposalIds /\ Bond \in Nat
    BY BoundsAssumption, BondNat DEF TypeOK, ProposeNewRegion, ProposalIds
  <1>3. /\ states'[r].status = "Proposing" /\ states'[r].deposit = Bond
        /\ \A q \in RegionCodes \ {r} : states'[q] = states[q]
    BY <1>1 DEF TypeOK
  <1>4. states'[r] # None
    <2>1. [status |-> "Proposing", proposal_id |-> next_id, proposer |-> u,
           deposit |-> Bond, claim_deadline |-> 0] \in RegionState
      BY <1>2 DEF RegionState, Statuses
    <2>2. states'[r] \in RegionState
      BY <1>1, <2>1 DEF TypeOK
    <2> QED BY <2>2, NoneAssumption
  <1>5. Bonds[r] = 0 /\ Bonds'[r] = Bond
    BY <1>1, <1>3, <1>4 DEF Bonds
  <1>6. SumFunction(Bonds)' = SumFunction(Bonds) + Bond
    BY <1>0, <1>2, <1>3, <1>5, BondsMove DEF Sums
  <1>7. SumFunction(Collaterals)' = SumFunction(Collaterals)
        /\ SumFunction(LockedFor)' = SumFunction(LockedFor)
    BY <1>1, CollateralsKept, VotesKept
  <1> QED BY <1>0, <1>1, <1>2, <1>6, <1>7 DEF Backed, Held, Sums

\* A vote of u on id set to a record or taken back.
LEMMA OneVote ==
  ASSUME TypeOK, TypeOK', Backed, NEW id \in ProposalIds, NEW u \in Users, NEW record,
         votes' = [votes EXCEPT ![id][u] = record],
         vault' = vault - Powers(id)[u] + Powers(id)'[u],
         UNCHANGED <<states, regions>>
  PROVE  Backed'
  <1>0. Sums /\ Sums'
    BY SumsNat, PTL
  <1>1. /\ \A i \in ProposalIds \ {id} : votes'[i] = votes[i]
        /\ \A v \in Users \ {u} : votes'[id][v] = votes[id][v]
    BY DEF TypeOK
  <1>2. SumFunction(LockedFor)' = SumFunction(LockedFor) - Powers(id)[u] + Powers(id)'[u]
    BY <1>1, VotesMove
  <1>3. SumFunction(Collaterals)' = SumFunction(Collaterals)
        /\ SumFunction(Bonds)' = SumFunction(Bonds)
    BY CollateralsKept, BondsKept
  <1>4. HoldingsTyped /\ HoldingsTyped'
    BY HoldingsNat, PTL
  <1>5. Powers(id)[u] \in Nat /\ Powers(id)'[u] \in Nat
    BY <1>4 DEF HoldingsTyped
  <1> QED BY <1>0, <1>2, <1>3, <1>5 DEF Backed, Held, Sums

\* What a vote does to the records.
LEMMA VoteMoves ==
  ASSUME TypeOK, NEW u \in Users, NEW r \in RegionCodes, NEW vote \in Ballots,
         NEW amount \in Amounts, VoteOnRegionProposal(u, r, vote, amount)
  PROVE  LET id == states[r].proposal_id IN
         /\ id \in ProposalIds /\ proposals[id] \in Proposal /\ proposals[id] # None
         /\ amount \in Nat /\ votes'[id][u] \in VoteRecord /\ votes'[id][u] # None
         /\ votes'[id][u].power = amount /\ votes'[id][u].vote = vote
         /\ votes'[id][u].expiry = proposals[id].expiry
         /\ \A i \in ProposalIds \ {id} : votes'[i] = votes[i]
         /\ \A v \in Users \ {u} : votes'[id][v] = votes[id][v]
  <1> DEFINE id == states[r].proposal_id
             record == [vote |-> vote, power |-> amount, expiry |-> proposals[id].expiry]
  <1>1. id \in ProposalIds /\ proposals[id] \in Proposal /\ proposals[id] # None
    BY DEF TypeOK, VoteOnRegionProposal, RegionState
  <1>2. amount \in Nat /\ record \in VoteRecord
    BY <1>1, InputsNat DEF VoteRecord, Proposal
  <1>3. votes' = [votes EXCEPT ![id][u] = record]
    BY DEF VoteOnRegionProposal
  <1>4. record.power = amount /\ record.vote = vote /\ record.expiry = proposals[id].expiry
    OBVIOUS
  <1> HIDE DEF id, record
  <1>5. /\ votes'[id][u] = record
        /\ \A i \in ProposalIds \ {id} : votes'[i] = votes[i]
        /\ \A v \in Users \ {u} : votes'[id][v] = votes[id][v]
    BY <1>1, <1>3 DEF TypeOK
  <1> QED BY <1>1, <1>2, <1>4, <1>5, NoneAssumption DEF id

LEMMA VoteBacked ==
  ASSUME TypeOK, TypeOK', Backed, NEW u \in Users, NEW r \in RegionCodes,
         NEW vote \in Ballots, NEW amount \in Amounts,
         VoteOnRegionProposal(u, r, vote, amount)
  PROVE  Backed'
  <1>1. PICK id \in ProposalIds : id = states[r].proposal_id
    BY VoteMoves
  <1>2. /\ votes'[id][u] # None /\ votes'[id][u].power = amount
        /\ UNCHANGED <<states, regions>>
        /\ \E record : votes' = [votes EXCEPT ![id][u] = record]
        /\ vault' = vault - (IF votes[id][u] = None THEN 0 ELSE votes[id][u].power) + amount
    <2>1. votes'[id][u] # None /\ votes'[id][u].power = amount
      BY <1>1, VoteMoves
    <2>2. \E record : votes' = [votes EXCEPT ![id][u] = record]
      BY <1>1 DEF VoteOnRegionProposal
    <2>3. /\ vault' = vault - (IF votes[id][u] = None THEN 0 ELSE votes[id][u].power) + amount
          /\ UNCHANGED <<states, regions>>
      BY <1>1 DEF VoteOnRegionProposal
    <2> QED BY <2>1, <2>2, <2>3
  <1>3. /\ Powers(id)[u] = IF votes[id][u] = None THEN 0 ELSE votes[id][u].power
        /\ Powers(id)'[u] = amount
    BY <1>2 DEF Powers
  <1> QED BY <1>2, <1>3, OneVote

LEMMA UnlockBacked ==
  ASSUME TypeOK, TypeOK', Backed, NEW u \in Users, NEW id \in ProposalIds,
         UnlockVotingToken(u, id)
  PROVE  Backed'
  <1>1. /\ votes[id][u] # None /\ UNCHANGED <<states, regions>>
        /\ votes' = [votes EXCEPT ![id][u] = None]
        /\ vault' = vault - votes[id][u].power
    BY DEF UnlockVotingToken, MayUnlock
  <1>2. votes'[id][u] = None /\ votes[id][u].power \in Nat
    BY <1>1 DEF TypeOK, VoteRecord
  <1>3. Powers(id)[u] = votes[id][u].power /\ Powers(id)'[u] = 0
    BY <1>1, <1>2 DEF Powers
  <1>4. vault' = vault - Powers(id)[u] + Powers(id)'[u]
    BY <1>1, <1>2, <1>3 DEF TypeOK
  <1> QED BY <1>1, <1>4, OneVote

\* A candidacy that changes its status or is cleared, and nothing else.
LEMMA OneCandidacyPays ==
  ASSUME TypeOK, TypeOK', Backed, NEW r \in RegionCodes,
         \A q \in RegionCodes \ {r} : states'[q] = states[q],
         vault' = vault - Bonds[r] + Bonds'[r], UNCHANGED <<votes, regions>>
  PROVE  Backed'
  <1>0. Sums /\ Sums' /\ HoldingsTyped /\ HoldingsTyped'
    BY SumsNat, HoldingsNat, PTL
  <1>1. SumFunction(Bonds)' = SumFunction(Bonds) - Bonds[r] + Bonds'[r]
    BY BondsMove
  <1>2. SumFunction(Collaterals)' = SumFunction(Collaterals)
        /\ SumFunction(LockedFor)' = SumFunction(LockedFor)
    BY CollateralsKept, VotesKept
  <1>3. Bonds[r] \in Nat /\ Bonds'[r] \in Nat
    BY <1>0 DEF HoldingsTyped
  <1> QED BY <1>0, <1>1, <1>2, <1>3 DEF Backed, Held, Sums

LEMMA FinalizeMoves ==
  ASSUME TypeOK, NEW r \in RegionCodes, FinalizeRegionProposal(r)
  PROVE  /\ states[r] \in RegionState /\ states[r] # None /\ states[r].status = "Proposing"
         /\ states'[r].deposit = states[r].deposit
         /\ \/ states'[r].status = "Passed" /\ vault' = vault
            \/ states'[r].status = "Rejected" /\ vault' = vault - states[r].deposit
         /\ \A q \in RegionCodes \ {r} : states'[q] = states[q]
  <1>1. states[r] \in RegionState /\ states[r] # None /\ states[r].status = "Proposing"
    BY DEF TypeOK, FinalizeRegionProposal, MayFinalize
  <1>2. CASE states' = [states EXCEPT ![r].status = "Passed",
                                      ![r].claim_deadline = now + config.owner_change_period]
             /\ UNCHANGED vault
    BY <1>1, <1>2 DEF TypeOK, RegionState
  <1>3. CASE states' = [states EXCEPT ![r].status = "Rejected"]
             /\ vault' = vault - states[r].deposit
    BY <1>1, <1>3 DEF TypeOK, RegionState
  <1> QED BY <1>2, <1>3 DEF FinalizeRegionProposal, MayFinalize

LEMMA FinalizeBacked ==
  ASSUME TypeOK, TypeOK', Backed, NEW r \in RegionCodes, FinalizeRegionProposal(r),
         states'[r] # None
  PROVE  Backed'
  <1>1. /\ states[r] \in RegionState /\ states[r] # None /\ states[r].status = "Proposing"
        /\ states'[r].deposit = states[r].deposit
        /\ \/ states'[r].status = "Passed" /\ vault' = vault
           \/ states'[r].status = "Rejected" /\ vault' = vault - states[r].deposit
        /\ \A q \in RegionCodes \ {r} : states'[q] = states[q]
    BY FinalizeMoves
  <1>2. states[r].deposit \in Nat /\ vault \in Nat
    BY <1>1 DEF RegionState, TypeOK
  <1>3. Bonds[r] = states[r].deposit
    BY <1>1 DEF Bonds
  <1>4. Bonds'[r] = IF states'[r].status # "Rejected" THEN states[r].deposit ELSE 0
    BY <1>1 DEF Bonds
  <1>5. vault' = vault - Bonds[r] + Bonds'[r]
    BY <1>1, <1>2, <1>3, <1>4
  <1>6. UNCHANGED <<votes, regions>>
    BY DEF FinalizeRegionProposal, MayFinalize
  <1> QED BY <1>1, <1>5, <1>6, OneCandidacyPays

LEMMA ClearBacked ==
  ASSUME TypeOK, TypeOK', Backed, NEW r \in RegionCodes, ClearRegionState(r)
  PROVE  Backed'
  <1>1. /\ states[r] # None /\ UNCHANGED <<votes, regions>>
        /\ states' = [states EXCEPT ![r] = None]
        /\ vault' = vault - (IF states[r].status # "Rejected" THEN states[r].deposit ELSE 0)
    BY DEF ClearRegionState, MayClear, Refund, Bonded
  <1>2. states'[r] = None /\ \A q \in RegionCodes \ {r} : states'[q] = states[q]
    BY <1>1 DEF TypeOK
  <1>3. /\ Bonds[r] = IF states[r].status # "Rejected" THEN states[r].deposit ELSE 0
        /\ Bonds'[r] = 0
    BY <1>1, <1>2 DEF Bonds
  <1>4. Bonds[r] \in Nat /\ vault \in Nat
    BY HoldingsNat DEF HoldingsTyped, TypeOK
  <1>5. vault' = vault - Bonds[r] + Bonds'[r]
    BY <1>1, <1>3, <1>4
  <1> QED BY <1>1, <1>2, <1>5, OneCandidacyPays

\* A seat gets its collateral from the bond of the candidacy, or from the vault.
LEMMA CreateBacked ==
  ASSUME TypeOK, TypeOK', Backed, NEW u \in Users, NEW r \in RegionCodes, CreateRegion(u, r)
  PROVE  Backed'
  <1>0. Sums /\ Sums'
    BY SumsNat, PTL
  <1>1. /\ states[r] # None /\ regions[r] = None /\ states[r].status = "Passed"
        /\ UNCHANGED <<votes, vault>>
        /\ states' = [states EXCEPT ![r] = None]
        /\ regions' = [regions EXCEPT ![r] =
             [owner |-> u, collateral |-> states[r].deposit,
              next_owner_change |-> now + config.owner_change_period]]
    BY DEF CreateRegion
  <1>2. states[r].deposit \in Nat /\ now + config.owner_change_period \in Nat
    BY <1>1, PeriodsNat DEF TypeOK, RegionState
  <1>3. /\ states'[r] = None /\ regions'[r].collateral = states[r].deposit
        /\ \A q \in RegionCodes \ {r} : states'[q] = states[q] /\ regions'[q] = regions[q]
    BY <1>1 DEF TypeOK
  <1>4. regions'[r] # None
    <2>1. [owner |-> u, collateral |-> states[r].deposit,
           next_owner_change |-> now + config.owner_change_period] \in Region
      BY <1>2 DEF Region
    <2>2. regions'[r] \in Region
      BY <1>1, <2>1 DEF TypeOK
    <2> QED BY <2>2, NoneAssumption
  <1>5. /\ Bonds[r] = states[r].deposit /\ Bonds'[r] = 0
        /\ Collaterals[r] = 0 /\ Collaterals'[r] = states[r].deposit
    BY <1>1, <1>3, <1>4 DEF Bonds, Collaterals
  <1>6. /\ SumFunction(Bonds)' = SumFunction(Bonds) - states[r].deposit
        /\ SumFunction(Collaterals)' = SumFunction(Collaterals) + states[r].deposit
    BY <1>0, <1>2, <1>3, <1>5, BondsMove, CollateralsMove DEF Sums
  <1>7. SumFunction(LockedFor)' = SumFunction(LockedFor)
    BY <1>1, VotesKept
  <1> QED BY <1>0, <1>1, <1>2, <1>6, <1>7 DEF Backed, Held, Sums

LEMMA SeatBacked ==
  ASSUME TypeOK, TypeOK', Backed, NEW u \in Users, NEW r \in RegionCodes,
         ClaimOpenRegion(u, r) \/ InitiateResignation(u, r), regions'[r] # None
  PROVE  Backed'
  <1>0. Sums /\ Sums'
    BY SumsNat, PTL
  <1>1. /\ regions[r] \in Region /\ regions[r] # None /\ UNCHANGED <<states, votes>>
        /\ \A q \in RegionCodes \ {r} : regions'[q] = regions[q]
    BY DEF ClaimOpenRegion, MayClaim, InitiateResignation, TypeOK
  <1>2. Bond \in Nat /\ regions[r].collateral \in Nat
    BY <1>1, BondNat DEF Region
  <1>3. vault' = vault - regions[r].collateral + regions'[r].collateral
        /\ regions'[r].collateral \in Nat
    <2>1. CASE ClaimOpenRegion(u, r)
      <3>1. /\ vault' = vault + Locked(u, regions[r]) - Released(u, regions[r])
            /\ regions'[r].collateral = Bond
        BY <2>1 DEF ClaimOpenRegion, MayClaim, TypeOK
      <3>2. /\ Locked(u, regions[r]) \in Nat /\ Released(u, regions[r]) \in Nat
            /\ Locked(u, regions[r]) - Released(u, regions[r]) = Bond - regions[r].collateral
        BY <1>1, <1>2, SeatMoneyNat DEF Locked, Released
      <3> QED BY <1>0, <1>2, <3>1, <3>2 DEF Sums
    <2>2. CASE InitiateResignation(u, r)
      <3>1. /\ vault' = vault
            /\ regions'[r] = [regions[r] EXCEPT !.next_owner_change = now + config.notice_period]
        BY <2>2 DEF InitiateResignation, TypeOK
      <3>2. regions'[r].collateral = regions[r].collateral
        BY <1>1, <3>1 DEF Region
      <3> QED BY <1>0, <1>2, <3>1, <3>2 DEF Sums
    <2> QED BY <2>1, <2>2
  <1>4. Collaterals[r] = regions[r].collateral /\ Collaterals'[r] = regions'[r].collateral
    BY <1>1 DEF Collaterals
  <1>5. SumFunction(Collaterals)' =
          SumFunction(Collaterals) - regions[r].collateral + regions'[r].collateral
    BY <1>1, <1>4, CollateralsMove
  <1>6. SumFunction(Bonds)' = SumFunction(Bonds) /\ SumFunction(LockedFor)' = SumFunction(LockedFor)
    BY <1>1, BondsKept, VotesKept
  <1> QED BY <1>0, <1>2, <1>3, <1>5, <1>6 DEF Backed, Held, Sums

\* A candidacy is still there after its vote was finalized, a seat after it was
\* claimed or its term shortened.
LEMMA FinalizeStays ==
  ASSUME TypeOK, NEW r \in RegionCodes, FinalizeRegionProposal(r)
  PROVE  states'[r] # None
  <1>1. states[r] \in RegionState
    BY DEF TypeOK, FinalizeRegionProposal, MayFinalize
  <1>2. now + config.owner_change_period \in Nat
    BY PeriodsNat DEF TypeOK
  <1>3. \A d \in Nat : /\ [states[r] EXCEPT !.status = "Passed", !.claim_deadline = d]
                            \in RegionState
                       /\ [states[r] EXCEPT !.status = "Rejected"] \in RegionState
    BY <1>1 DEF RegionState, Statuses
  <1>4. \/ states'[r] = [states[r] EXCEPT !.status = "Passed",
                           !.claim_deadline = now + config.owner_change_period]
        \/ states'[r] = [states[r] EXCEPT !.status = "Rejected"]
    BY DEF FinalizeRegionProposal, MayFinalize, TypeOK
  <1>5. states'[r] \in RegionState
    BY <1>2, <1>3, <1>4
  <1> QED BY <1>5, NoneAssumption

LEMMA SeatStays ==
  ASSUME TypeOK, NEW u \in Users, NEW r \in RegionCodes,
         ClaimOpenRegion(u, r) \/ InitiateResignation(u, r)
  PROVE  regions'[r] # None
  <1>1. now + config.owner_change_period \in Nat /\ now + config.notice_period \in Nat
        /\ Bond \in Nat
    BY PeriodsNat, BondNat DEF TypeOK
  <1>2. regions'[r] \in Region
    <2>1. CASE ClaimOpenRegion(u, r)
      BY <1>1, <2>1 DEF ClaimOpenRegion, MayClaim, TypeOK, Region
    <2>2. CASE InitiateResignation(u, r)
      <3>1. /\ regions'[r] = [regions[r] EXCEPT !.next_owner_change = now + config.notice_period]
            /\ regions[r] \in Region
        BY <2>2 DEF InitiateResignation, TypeOK
      <3> QED BY <1>1, <3>1 DEF Region
    <2> QED BY <2>1, <2>2
  <1> QED BY <1>2, NoneAssumption

\* No instruction pays out more than the account it settles holds, or takes
\* tokens in that no account records.
LEMMA BackedStep == TypeOK /\ Backed /\ [Next]_vars => Backed'
  <1> SUFFICES ASSUME TypeOK, Backed, [Next]_vars PROVE Backed'
    OBVIOUS
  <1>0. TypeOK'
    BY StepOK
  <1>1. ASSUME NEW u \in Users, NEW r \in RegionCodes, ProposeNewRegion(u, r) PROVE Backed'
    BY <1>0, <1>1, ProposeBacked
  <1>2. ASSUME NEW u \in Users, NEW r \in RegionCodes, NEW vote \in Ballots,
               NEW amount \in Amounts, VoteOnRegionProposal(u, r, vote, amount)
        PROVE  Backed'
    BY <1>0, <1>2, VoteBacked
  <1>3. ASSUME NEW r \in RegionCodes, FinalizeRegionProposal(r) PROVE Backed'
    BY <1>0, <1>3, FinalizeStays, FinalizeBacked
  <1>4. ASSUME NEW u \in Users, NEW r \in RegionCodes, CreateRegion(u, r) PROVE Backed'
    BY <1>0, <1>4, CreateBacked
  <1>5. ASSUME NEW r \in RegionCodes, ClearRegionState(r) PROVE Backed'
    BY <1>0, <1>5, ClearBacked
  <1>6. ASSUME NEW u \in Users, NEW r \in RegionCodes,
               ClaimOpenRegion(u, r) \/ InitiateResignation(u, r)
        PROVE  Backed'
    BY <1>0, <1>6, SeatStays, SeatBacked
  <1>7. ASSUME NEW u \in Users, NEW id \in ProposalIds, UnlockVotingToken(u, id) PROVE Backed'
    BY <1>0, <1>7, UnlockBacked
  <1>8. ASSUME \/ \E u \in Users : ChangeRole(u)
               \/ UpdateConfig \/ ChangeSupply \/ Tick \/ UNCHANGED vars
        PROVE  Backed'
    <2>1. UNCHANGED <<states, regions, votes, vault>>
      BY <1>8 DEF ChangeRole, UpdateConfig, ChangeSupply, Tick, vars
    <2> QED BY <2>1, BondsKept, CollateralsKept, VotesKept DEF Backed, Held
  <1> QED BY <1>1, <1>2, <1>3, <1>4, <1>5, <1>6, <1>7, <1>8 DEF Next

LEMMA BackedInit == Init => Backed
  <1> SUFFICES ASSUME Init PROVE Backed
    OBVIOUS
  <1>1. TypeOK /\ vault = 0 /\ (\A r \in RegionCodes : states[r] = None /\ regions[r] = None)
        /\ \A id \in ProposalIds, u \in Users : votes[id][u] = None
    BY InitOK DEF Init
  <1>2. HoldingsTyped
    BY <1>1, HoldingsNat
  <1>3. \A r \in RegionCodes : Bonds[r] = 0 /\ Collaterals[r] = 0
    BY <1>1 DEF Bonds, Collaterals
  <1>4. SumFunction(Bonds) = 0 /\ SumFunction(Collaterals) = 0
    BY <1>2, <1>3, FiniteAssumption, TotalZero DEF HoldingsTyped
  <1>5. ASSUME NEW id \in ProposalIds PROVE LockedFor[id] = 0
    <2>1. \A u \in Users : Powers(id)[u] = 0
      BY <1>1 DEF Powers
    <2>2. Powers(id) \in [Users -> Nat]
      BY <1>2 DEF HoldingsTyped
    <2> QED BY <2>1, <2>2, FiniteAssumption, TotalZero DEF LockedFor
  <1>6. LockedFor \in [ProposalIds -> Nat]
    BY <1>2 DEF HoldingsTyped
  <1>7. SumFunction(LockedFor) = 0
    BY <1>5, <1>6, ProposalIdsFinite, TotalZero
  <1> QED BY <1>1, <1>4, <1>7 DEF Backed, Held

\* The one vault always holds exactly the bonds, the collaterals and the voting
\* power still recorded, for any number of regions, users and proposals: every
\* refund is backed, and no refund takes another user's tokens.
THEOREM VaultTheorem == Spec => []VaultBacked
  BY InitOK, StepOK, BackedInit, BackedStep, BackedMeans, PTL DEF Spec
-----------------------------------------------------------------------------
(* The tallies.  A vote can be changed while its proposal is open and unlocked *)
(* after the deadline both records carry (SameDeadline); an id nobody proposed *)
(* under has no votes, so a new tally starts from nothing (Unvoted).           *)

Counted(id, v) ==
  /\ proposals[id].tally[v] >= SumFunction(PowersFor(id, v))
  /\ now < proposals[id].expiry => proposals[id].tally[v] = SumFunction(PowersFor(id, v))
SameDeadline(id, u) ==
  proposals[id] # None /\ votes[id][u] # None => votes[id][u].expiry = proposals[id].expiry
Unvoted == \A id \in ProposalIds, u \in Users : id >= next_id => votes[id][u] = None

TInv ==
  /\ CInv /\ Unvoted
  /\ \A id \in ProposalIds, u \in Users : SameDeadline(id, u)
  /\ \A id \in ProposalIds, v \in Ballots : proposals[id] # None => Counted(id, v)

LEMMA TInvTallies == TInv => TallyBacked
  BY DEF TInv, TallyBacked, Counted

LEMMA TInvInit == Init => TInv
  BY CInvInit DEF TInv, Init, Unvoted, SameDeadline

\* A tally is left alone by a step that leaves the proposal and its votes alone.
LEMMA CountKept ==
  ASSUME TypeOK, TInv, NEW id \in ProposalIds, NEW v \in Ballots,
         proposals'[id] = proposals[id], votes'[id] = votes[id], proposals[id] # None,
         now' \in Nat, now' >= now
  PROVE  Counted(id, v)'
  <1>1. SumFunction(PowersFor(id, v))' = SumFunction(PowersFor(id, v))
    <2>1. PowersFor(id, v)' = PowersFor(id, v)
      BY DEF PowersFor
    <2> QED BY <2>1
  <1>2. proposals[id].expiry \in Nat /\ now \in Nat
    BY DEF TypeOK, Proposal
  <1>3. Counted(id, v)
    BY DEF TInv
  <1>4. now' < proposals'[id].expiry => now < proposals[id].expiry
    BY <1>2
  <1> QED BY <1>1, <1>3, <1>4 DEF Counted

LEMMA ProposeTally ==
  ASSUME TInv, TypeOK', CInv', NEW u \in Users, NEW r \in RegionCodes, ProposeNewRegion(u, r)
  PROVE  TInv'
  <1>0. TypeOK
    BY DEF TInv, CInv
  <1>1. /\ next_id' = next_id + 1 /\ UNCHANGED <<votes, now>>
        /\ \E e : proposals' = [proposals EXCEPT ![next_id] =
             [region |-> r, proposer |-> u, expiry |-> e, tally |-> [v \in Ballots |-> 0]]]
    BY DEF ProposeNewRegion, envVars
  <1>2. next_id \in ProposalIds /\ next_id \in Nat
    BY <1>0, BoundsAssumption DEF TypeOK, ProposeNewRegion, ProposalIds
  <1>3. \A x \in Users : votes[next_id][x] = None
    BY <1>2 DEF TInv, Unvoted, ProposalIds
  <1>4. \A id \in ProposalIds \ {next_id} : proposals'[id] = proposals[id]
    BY <1>0, <1>1 DEF TypeOK
  <1>5. Unvoted'
    BY <1>1, <1>2 DEF TInv, Unvoted, ProposalIds
  <1>6. ASSUME NEW id \in ProposalIds, NEW x \in Users PROVE SameDeadline(id, x)'
    <2>1. CASE id = next_id
      BY <1>1, <1>3, <2>1 DEF SameDeadline
    <2>2. CASE id # next_id
      BY <1>1, <1>4, <2>2 DEF TInv, SameDeadline
    <2> QED BY <2>1, <2>2
  <1>7. ASSUME NEW id \in ProposalIds, NEW v \in Ballots, proposals'[id] # None
        PROVE  Counted(id, v)'
    <2>1. CASE id = next_id
      <3>1. proposals'[id].tally[v] = 0
        BY <1>0, <1>1, <1>2, <2>1 DEF TypeOK
      <3>2. \A x \in Users : PowersFor(id, v)'[x] = 0
        BY <1>1, <1>3, <2>1 DEF PowersFor
      <3>3. PowersFor(id, v)' \in [Users -> Nat]
        <4>1. HoldingsTyped'
          BY HoldingsNat, PTL
        <4> QED BY <4>1 DEF HoldingsTyped
      <3>4. SumFunction(PowersFor(id, v))' = 0
        BY <3>2, <3>3, FiniteAssumption, TotalZero
      <3> QED BY <3>1, <3>4 DEF Counted
    <2>2. CASE id # next_id
      BY <1>0, <1>1, <1>4, <1>7, <2>2, CountKept DEF TypeOK
    <2> QED BY <2>1, <2>2
  <1> QED BY <1>5, <1>6, <1>7 DEF TInv

\* Taking a vote out of an exact tally leaves exactly the others' power.
LEMMA RetractExact ==
  ASSUME NEW tally \in [Ballots -> Nat], NEW record \in VoteRecord \cup {None},
         record # None => record \in VoteRecord /\ tally[record.vote] >= record.power,
         NEW v \in Ballots
  PROVE  Retract(tally, record)[v] =
           tally[v] - (IF record # None /\ record.vote = v THEN record.power ELSE 0)
  <1>1. CASE record = None
    BY <1>1 DEF Retract
  <1>2. CASE record # None
    <2>1. record.vote \in Ballots /\ record.power \in Nat
      BY <1>2 DEF VoteRecord
    <2>2. CASE record.vote = v
      BY <1>2, <2>1, <2>2 DEF Retract
    <2>3. CASE record.vote # v
      BY <1>2, <2>1, <2>3 DEF Retract
    <2> QED BY <2>2, <2>3
  <1> QED BY <1>1, <1>2

LEMMA VoteTally ==
  ASSUME TInv, TypeOK', NEW u \in Users, NEW r \in RegionCodes, NEW vote \in Ballots,
         NEW amount \in Amounts, VoteOnRegionProposal(u, r, vote, amount), NEW v \in Ballots,
         NEW id \in ProposalIds, id = states[r].proposal_id
  PROVE  proposals'[id].expiry = proposals[id].expiry /\ Counted(id, v)'
  <1>0. TypeOK
    BY DEF TInv, CInv
  <1>2. /\ proposals[id] \in Proposal /\ proposals[id] # None /\ amount \in Nat
        /\ votes'[id][u] # None /\ votes'[id][u].power = amount /\ votes'[id][u].vote = vote
        /\ \A x \in Users \ {u} : votes'[id][x] = votes[id][x]
    BY <1>0, VoteMoves
  <1> DEFINE old == votes[id][u]
             tally == proposals[id].tally
             rest == Retract(tally, old)
  <1>3. /\ now < proposals[id].expiry
        /\ proposals' = [proposals EXCEPT ![id].tally = [rest EXCEPT ![vote] = @ + amount]]
    BY DEF VoteOnRegionProposal
  <1>4. tally \in [Ballots -> Nat] /\ old \in VoteRecord \cup {None}
    BY <1>0, <1>2 DEF Proposal, TypeOK
  <1>5. /\ proposals'[id].tally = [rest EXCEPT ![vote] = @ + amount]
        /\ proposals'[id].expiry = proposals[id].expiry
    BY <1>0, <1>2, <1>3 DEF TypeOK, Proposal
  <1>6. \A w \in Ballots : tally[w] = SumFunction(PowersFor(id, w))
    BY <1>2, <1>3 DEF TInv, Counted
  <1>7. ASSUME NEW w \in Ballots
        PROVE  /\ PowersFor(id, w) \in [Users -> Nat] /\ PowersFor(id, w)' \in [Users -> Nat]
               /\ SumFunction(PowersFor(id, w))' =
                    SumFunction(PowersFor(id, w)) - PowersFor(id, w)[u] + PowersFor(id, w)'[u]
               /\ SumFunction(PowersFor(id, w)) >= PowersFor(id, w)[u]
               /\ SumFunction(PowersFor(id, w)) \in Nat
    <2>1. HoldingsTyped /\ HoldingsTyped'
      BY <1>0, HoldingsNat, PTL
    <2>2. PowersFor(id, w) \in [Users -> Nat] /\ PowersFor(id, w)' \in [Users -> Nat]
      BY <2>1 DEF HoldingsTyped
    <2>3. \A x \in Users \ {u} : PowersFor(id, w)'[x] = PowersFor(id, w)[x]
      BY <1>2 DEF PowersFor
    <2> QED BY <2>2, <2>3, FiniteAssumption, TotalChange
  <1>8. old # None => old \in VoteRecord /\ tally[old.vote] >= old.power
    <2> SUFFICES ASSUME old # None PROVE old \in VoteRecord /\ tally[old.vote] >= old.power
      OBVIOUS
    <2>1. old \in VoteRecord /\ old.vote \in Ballots
      BY <1>4 DEF VoteRecord
    <2>2. PowersFor(id, old.vote)[u] = old.power
      BY DEF PowersFor
    <2> QED BY <1>6, <1>7, <2>1, <2>2
  <1>9. /\ PowersFor(id, v)[u] = IF old # None /\ old.vote = v THEN old.power ELSE 0
        /\ PowersFor(id, v)'[u] = IF vote = v THEN amount ELSE 0
    BY <1>2 DEF PowersFor
  <1>10. rest[v] = tally[v] - PowersFor(id, v)[u] /\ rest \in [Ballots -> Nat]
    <2>1. rest \in [Ballots -> Nat]
      BY <1>4, RetractOK
    <2>2. rest[v] = tally[v] - (IF old # None /\ old.vote = v THEN old.power ELSE 0)
      <3> HIDE DEF old, tally
      <3> QED BY <1>4, <1>8, RetractExact
    <2> QED BY <1>9, <2>1, <2>2
  <1> HIDE DEF rest, tally, old
  <1>11. proposals'[id].tally[v] = rest[v] + PowersFor(id, v)'[u]
    BY <1>2, <1>5, <1>9, <1>10
  <1>12. PowersFor(id, v)[u] \in Nat /\ PowersFor(id, v)'[u] \in Nat
    BY <1>7
  <1>13. proposals'[id].tally[v] = SumFunction(PowersFor(id, v))'
    BY <1>6, <1>7, <1>10, <1>11, <1>12
  <1>14. SumFunction(PowersFor(id, v))' \in Nat
    BY <1>7, <1>12
  <1> QED BY <1>5, <1>13, <1>14 DEF Counted

LEMMA VoteKeepsTally ==
  ASSUME TInv, TypeOK', CInv', NEW u \in Users, NEW r \in RegionCodes, NEW vote \in Ballots,
         NEW amount \in Amounts, VoteOnRegionProposal(u, r, vote, amount)
  PROVE  TInv'
  <1>0. TypeOK
    BY DEF TInv, CInv
  <1>1. PICK id \in ProposalIds : id = states[r].proposal_id
    BY <1>0, VoteMoves
  <1>2. /\ proposals[id] # None /\ votes'[id][u].expiry = proposals[id].expiry
        /\ \A i \in ProposalIds \ {id} : votes'[i] = votes[i]
        /\ \A x \in Users \ {u} : votes'[id][x] = votes[id][x]
    BY <1>0, <1>1, VoteMoves
  <1>3. UNCHANGED <<next_id, now>>
    BY DEF VoteOnRegionProposal, envVars
  <1>4. \A i \in ProposalIds \ {id} : proposals'[i] = proposals[i]
    BY <1>0, <1>1 DEF VoteOnRegionProposal, TypeOK
  <1>5. \A v \in Ballots : proposals'[id].expiry = proposals[id].expiry /\ Counted(id, v)'
    BY <1>1, VoteTally
  <1>6. "Yes" \in Ballots
    BY DEF Ballots
  <1>7. id < next_id
    BY <1>0, <1>2 DEF TInv, CInv, Fresh, TypeOK, ProposalIds
  <1>8. Unvoted'
    <2>1. \A i \in ProposalIds : i >= next_id => i # id
      BY <1>0, <1>7 DEF TypeOK, ProposalIds
    <2> QED BY <1>2, <1>3, <2>1 DEF TInv, Unvoted
  <1>9. ASSUME NEW i \in ProposalIds, NEW x \in Users PROVE SameDeadline(i, x)'
    <2>1. CASE i = id
      BY <1>2, <1>5, <1>6, <2>1 DEF TInv, SameDeadline
    <2>2. CASE i # id
      BY <1>2, <1>4, <2>2 DEF TInv, SameDeadline
    <2> QED BY <2>1, <2>2
  <1>10. ASSUME NEW i \in ProposalIds, NEW v \in Ballots, proposals'[i] # None
         PROVE  Counted(i, v)'
    <2>1. CASE i = id
      BY <1>5, <2>1
    <2>2. CASE i # id
      BY <1>0, <1>2, <1>3, <1>4, <1>10, <2>2, CountKept DEF TypeOK
    <2> QED BY <2>1, <2>2
  <1> QED BY <1>8, <1>9, <1>10 DEF TInv

LEMMA UnlockTally ==
  ASSUME TInv, TypeOK', CInv', NEW u \in Users, NEW id \in ProposalIds,
         UnlockVotingToken(u, id)
  PROVE  TInv'
  <1>0. TypeOK
    BY DEF TInv, CInv
  <1>1. /\ votes[id][u] # None /\ now >= votes[id][u].expiry
        /\ votes' = [votes EXCEPT ![id][u] = None]
        /\ UNCHANGED <<now, next_id, proposals>>
    BY DEF UnlockVotingToken, MayUnlock, envVars
  <1>2. /\ votes'[id][u] = None
        /\ \A i \in ProposalIds \ {id} : votes'[i] = votes[i]
        /\ \A x \in Users \ {u} : votes'[id][x] = votes[id][x]
    BY <1>0, <1>1 DEF TypeOK
  <1>3. \A i \in ProposalIds, x \in Users : votes'[i][x] = votes[i][x] \/ votes'[i][x] = None
    BY <1>2
  <1>4. Unvoted'
    BY <1>1, <1>3 DEF TInv, Unvoted
  <1>5. ASSUME NEW i \in ProposalIds, NEW x \in Users PROVE SameDeadline(i, x)'
    BY <1>1, <1>3 DEF TInv, SameDeadline
  <1>6. ASSUME NEW v \in Ballots, proposals[id] # None PROVE Counted(id, v)'
    <2>1. /\ proposals[id].expiry \in Nat /\ proposals[id].tally[v] \in Nat /\ now \in Nat
          /\ votes[id][u].expiry = proposals[id].expiry
      BY <1>0, <1>1, <1>6 DEF TypeOK, Proposal, TInv, SameDeadline
    <2>2. /\ PowersFor(id, v) \in [Users -> Nat] /\ PowersFor(id, v)' \in [Users -> Nat]
      <3>1. HoldingsTyped /\ HoldingsTyped'
        BY <1>0, HoldingsNat, PTL
      <3> QED BY <3>1 DEF HoldingsTyped
    <2>3. PowersFor(id, v)'[u] = 0
          /\ \A x \in Users \ {u} : PowersFor(id, v)'[x] = PowersFor(id, v)[x]
      BY <1>2 DEF PowersFor
    <2>4. /\ SumFunction(PowersFor(id, v))' =
               SumFunction(PowersFor(id, v)) - PowersFor(id, v)[u] + PowersFor(id, v)'[u]
          /\ SumFunction(PowersFor(id, v)) \in Nat
      BY <2>2, <2>3, FiniteAssumption, TotalChange
    <2>5. PowersFor(id, v)[u] \in Nat
      BY <2>2
    <2>6. proposals[id].tally[v] >= SumFunction(PowersFor(id, v))
      BY <1>6 DEF TInv, Counted
    <2>7. proposals[id].tally[v] >= SumFunction(PowersFor(id, v))'
      BY <2>1, <2>3, <2>4, <2>5, <2>6
    <2> QED BY <1>1, <2>1, <2>7 DEF Counted
  <1>7. ASSUME NEW i \in ProposalIds, NEW v \in Ballots, proposals'[i] # None
        PROVE  Counted(i, v)'
    <2>1. CASE i = id
      BY <1>1, <1>6, <1>7, <2>1
    <2>2. CASE i # id
      BY <1>0, <1>1, <1>2, <1>7, <2>2, CountKept DEF TypeOK
    <2> QED BY <2>1, <2>2
  <1> QED BY <1>4, <1>5, <1>7 DEF TInv

\* Every other step leaves the votes alone and closes proposals or keeps them.
LEMMA TallyKept ==
  ASSUME TInv, TypeOK', CInv', UNCHANGED <<votes, next_id>>, now' >= now,
         \A i \in ProposalIds : proposals'[i] = proposals[i] \/ proposals'[i] = None
  PROVE  TInv'
  <1>0. TypeOK
    BY DEF TInv, CInv
  <1>1. Unvoted'
    BY DEF TInv, Unvoted
  <1>2. ASSUME NEW i \in ProposalIds, NEW x \in Users PROVE SameDeadline(i, x)'
    BY DEF TInv, SameDeadline
  <1>3. ASSUME NEW i \in ProposalIds, NEW v \in Ballots, proposals'[i] # None
        PROVE  Counted(i, v)'
    <2>1. proposals'[i] = proposals[i] /\ votes'[i] = votes[i] /\ now' \in Nat
      BY <1>3 DEF TypeOK
    <2> QED BY <1>0, <1>3, <2>1, CountKept
  <1> QED BY <1>1, <1>2, <1>3 DEF TInv

LEMMA TallyStep == TInv /\ [Next]_vars => TInv'
  <1> SUFFICES ASSUME TInv, [Next]_vars PROVE TInv'
    OBVIOUS
  <1>0. TypeOK /\ TypeOK' /\ CInv'
    BY CandidacyStep DEF TInv, CInv
  <1>1. ASSUME NEW u \in Users, NEW r \in RegionCodes, ProposeNewRegion(u, r) PROVE TInv'
    BY <1>0, <1>1, ProposeTally
  <1>2. ASSUME NEW u \in Users, NEW r \in RegionCodes, NEW vote \in Ballots,
               NEW amount \in Amounts, VoteOnRegionProposal(u, r, vote, amount)
        PROVE  TInv'
    BY <1>0, <1>2, VoteKeepsTally
  <1>3. ASSUME NEW u \in Users, NEW id \in ProposalIds, UnlockVotingToken(u, id) PROVE TInv'
    BY <1>0, <1>3, UnlockTally
  <1>4. ASSUME NEW r \in RegionCodes, FinalizeRegionProposal(r) PROVE TInv'
    <2>1. /\ UNCHANGED <<votes, next_id, now>>
          /\ proposals' = [proposals EXCEPT ![states[r].proposal_id] = None]
      BY <1>4 DEF FinalizeRegionProposal, MayFinalize, envVars
    <2>2. now' >= now
      BY <1>0, <2>1 DEF TypeOK
    <2>3. \A i \in ProposalIds : proposals'[i] = proposals[i] \/ proposals'[i] = None
      BY <1>0, <2>1 DEF TypeOK
    <2> QED BY <1>0, <2>1, <2>2, <2>3, TallyKept
  <1>5. ASSUME \/ \E u \in Users, r \in RegionCodes :
                    CreateRegion(u, r) \/ ClaimOpenRegion(u, r) \/ InitiateResignation(u, r)
               \/ \E r \in RegionCodes : ClearRegionState(r)
               \/ \E u \in Users : ChangeRole(u)
               \/ UpdateConfig \/ ChangeSupply \/ Tick \/ UNCHANGED vars
        PROVE  TInv'
    <2>1. UNCHANGED <<votes, next_id, proposals>>
      BY <1>5 DEF CreateRegion, ClaimOpenRegion, MayClaim, InitiateResignation,
                  ClearRegionState, ChangeRole, UpdateConfig, ChangeSupply, Tick, vars
    <2>2. now' = now \/ now' = now + 1
      BY <1>5 DEF CreateRegion, ClaimOpenRegion, MayClaim, InitiateResignation,
                  ClearRegionState, ChangeRole, UpdateConfig, ChangeSupply, Tick, vars, envVars
    <2>3. now' >= now
      BY <1>0, <2>2 DEF TypeOK
    <2> QED BY <1>0, <2>1, <2>3, TallyKept
  <1> QED BY <1>1, <1>2, <1>3, <1>4, <1>5 DEF Next

\* While a vote is open its tally is exactly the power its voters have locked,
\* ballot by ballot, and never less afterwards, in every instance: a changed
\* vote is taken out of the ballot it was in, and nothing unlocks early.
THEOREM TallyTheorem == Spec => []TallyBacked
  BY TInvInit, TInvTallies, TallyStep, PTL DEF Spec
-----------------------------------------------------------------------------
(* Nothing is stuck.  The ballots of an open vote lie in the vault together,  *)
(* and no instruction locks more than there is, so a tally stays within a u64 *)
(* (Fits); and the vault holds what each account may take out of it.          *)

Fits(id) ==
  proposals[id] # None => proposals[id].tally["Yes"] + proposals[id].tally["No"] <= U64Max

NInv == TInv /\ Backed /\ supply <= U64Max /\ \A id \in ProposalIds : Fits(id)

\* The vault can pay what one candidacy, one seat or one vote keeps in it.
LEMMA Payable ==
  ASSUME TypeOK, Backed
  PROVE  /\ \A r \in RegionCodes : vault >= Bonds[r] /\ vault >= Collaterals[r]
         /\ \A id \in ProposalIds : vault >= SumFunction(Powers(id))
         /\ \A id \in ProposalIds, u \in Users : vault >= Powers(id)[u]
  <1>1. HoldingsTyped
    BY HoldingsNat
  <1>2. /\ SumFunction(Bonds) \in Nat /\ SumFunction(Collaterals) \in Nat
        /\ SumFunction(LockedFor) \in Nat
        /\ vault = SumFunction(Bonds) + SumFunction(Collaterals) + SumFunction(LockedFor)
    BY <1>1 DEF HoldingsTyped, Backed, Held
  <1>3. vault >= SumFunction(Bonds) /\ vault >= SumFunction(Collaterals)
        /\ vault >= SumFunction(LockedFor)
    BY <1>2
  <1>4. ASSUME NEW r \in RegionCodes PROVE vault >= Bonds[r] /\ vault >= Collaterals[r]
    <2>1. SumFunction(Bonds) >= Bonds[r] /\ SumFunction(Collaterals) >= Collaterals[r]
      BY <1>1, FiniteAssumption, TotalChange DEF HoldingsTyped
    <2>2. Bonds[r] \in Nat /\ Collaterals[r] \in Nat
      BY <1>1 DEF HoldingsTyped
    <2> QED BY <1>2, <1>3, <2>1, <2>2
  <1>5. ASSUME NEW id \in ProposalIds PROVE vault >= SumFunction(Powers(id))
    <2>1. SumFunction(LockedFor) >= LockedFor[id]
      BY <1>1, ProposalIdsFinite, TotalChange DEF HoldingsTyped
    <2>2. LockedFor[id] = SumFunction(Powers(id)) /\ LockedFor[id] \in Nat
      BY <1>1 DEF HoldingsTyped, LockedFor
    <2> QED BY <1>2, <1>3, <2>1, <2>2
  <1>6. ASSUME NEW id \in ProposalIds, NEW u \in Users PROVE vault >= Powers(id)[u]
    <2>1. SumFunction(Powers(id)) >= Powers(id)[u] /\ SumFunction(Powers(id)) \in Nat
      BY <1>1, FiniteAssumption, TotalChange DEF HoldingsTyped
    <2>2. Powers(id)[u] \in Nat
      BY <1>1 DEF HoldingsTyped
    <2> QED BY <1>2, <1>5, <2>1, <2>2
  <1> QED BY <1>4, <1>5, <1>6

Open(id) == proposals[id] # None /\ now < proposals[id].expiry
VotesInVault ==
  \A id \in ProposalIds :
    Open(id) => proposals[id].tally["Yes"] + proposals[id].tally["No"] <= vault

LEMMA OpenVotesInVault == TInv /\ Backed => VotesInVault
  <1> SUFFICES ASSUME TInv, Backed, NEW id \in ProposalIds, Open(id)
               PROVE  proposals[id].tally["Yes"] + proposals[id].tally["No"] <= vault
    BY DEF VotesInVault
  <1> DEFINE yes == PowersFor(id, "Yes")
             no == PowersFor(id, "No")
             both == [u \in Users |-> yes[u] + no[u]]
  <1>0. TypeOK /\ HoldingsTyped
    BY HoldingsNat DEF TInv, CInv
  <1>1. "Yes" \in Ballots /\ "No" \in Ballots
    BY DEF Ballots
  <1>2. yes \in [Users -> Nat] /\ no \in [Users -> Nat] /\ Powers(id) \in [Users -> Nat]
    BY <1>0, <1>1 DEF HoldingsTyped
  <1>3. \A u \in Users : yes[u] + no[u] <= Powers(id)[u]
    <2> TAKE u \in Users
    <2>1. Powers(id)[u] \in Nat
      BY <1>2
    <2>2. /\ yes[u] = IF votes[id][u] # None /\ votes[id][u].vote = "Yes" THEN Powers(id)[u] ELSE 0
          /\ no[u] = IF votes[id][u] # None /\ votes[id][u].vote = "No" THEN Powers(id)[u] ELSE 0
      BY DEF PowersFor, Powers
    <2> HIDE DEF yes, no
    <2> QED BY <2>1, <2>2
  <1>4. proposals[id].tally["Yes"] = SumFunction(yes) /\ proposals[id].tally["No"] = SumFunction(no)
    BY <1>1 DEF TInv, Counted, Open
  <1> HIDE DEF yes, no
  <1>5. both \in [Users -> Nat] /\ \A u \in Users : both[u] = yes[u] + no[u]
    BY <1>2
  <1>6. \A u \in Users : both[u] <= Powers(id)[u]
    BY <1>3, <1>5
  <1> HIDE DEF both
  <1>7. SumFunction(both) = SumFunction(yes) + SumFunction(no)
    BY <1>2, <1>5, FiniteAssumption, TotalAdd
  <1>8. SumFunction(both) <= SumFunction(Powers(id))
    BY <1>2, <1>5, <1>6, FiniteAssumption, TotalAtMost
  <1>9. /\ SumFunction(both) \in Nat /\ SumFunction(Powers(id)) \in Nat /\ vault \in Nat
        /\ vault >= SumFunction(Powers(id))
    BY <1>0, <1>2, <1>5, FiniteAssumption, TotalNat, Payable DEF TypeOK
  <1> QED BY <1>4, <1>7, <1>8, <1>9

\* A tally changes only when someone votes, on a proposal that is then open.
LEMMA TalliesMove ==
  ASSUME NInv, TypeOK', [Next]_vars, NEW id \in ProposalIds, proposals'[id] # None
  PROVE  \/ proposals'[id] = proposals[id]
         \/ proposals'[id].tally["Yes"] = 0 /\ proposals'[id].tally["No"] = 0
         \/ Open(id)' /\ vault' <= supply
  <1>0. TypeOK
    BY DEF NInv, TInv, CInv
  <1>1. ASSUME NEW u \in Users, NEW r \in RegionCodes, ProposeNewRegion(u, r)
        PROVE  \/ proposals'[id] = proposals[id]
               \/ proposals'[id].tally["Yes"] = 0 /\ proposals'[id].tally["No"] = 0
    <2>1. CASE id = next_id
      BY <1>0, <1>1, <2>1 DEF ProposeNewRegion, TypeOK, Ballots
    <2>2. CASE id # next_id
      BY <1>0, <1>1, <2>2 DEF ProposeNewRegion, TypeOK
    <2> QED BY <2>1, <2>2
  <1>2. ASSUME NEW u \in Users, NEW r \in RegionCodes, NEW vote \in Ballots,
               NEW amount \in Amounts, VoteOnRegionProposal(u, r, vote, amount)
        PROVE  proposals'[id] = proposals[id] \/ (Open(id)' /\ vault' <= supply)
    <2>1. PICK i \in ProposalIds : i = states[r].proposal_id
      BY <1>0, <1>2, VoteMoves
    <2>2. CASE id # i
      BY <1>0, <1>2, <2>1, <2>2 DEF VoteOnRegionProposal, TypeOK
    <2>3. CASE id = i
      <3>1. /\ now < proposals[id].expiry /\ now' = now
            /\ vault' <= supply
        BY <1>2, <2>1, <2>3 DEF VoteOnRegionProposal, envVars
      <3>2. proposals'[id].expiry = proposals[id].expiry
        BY <1>2, <2>1, <2>3, VoteTally DEF NInv, Ballots
      <3> QED BY <3>1, <3>2 DEF Open
    <2> QED BY <2>2, <2>3
  <1>3. ASSUME NEW r \in RegionCodes, FinalizeRegionProposal(r)
        PROVE  proposals'[id] = proposals[id]
    BY <1>0, <1>3 DEF FinalizeRegionProposal, TypeOK
  <1>4. ASSUME \/ \E u \in Users, r \in RegionCodes :
                    CreateRegion(u, r) \/ ClaimOpenRegion(u, r) \/ InitiateResignation(u, r)
               \/ \E u \in Users, i \in ProposalIds : UnlockVotingToken(u, i)
               \/ \E r \in RegionCodes : ClearRegionState(r)
               \/ \E u \in Users : ChangeRole(u)
               \/ UpdateConfig \/ ChangeSupply \/ Tick \/ UNCHANGED vars
        PROVE  proposals'[id] = proposals[id]
    BY <1>4 DEF CreateRegion, ClaimOpenRegion, InitiateResignation, UnlockVotingToken,
                ClearRegionState, ChangeRole, UpdateConfig, ChangeSupply, Tick, vars
  <1> QED BY <1>1, <1>2, <1>3, <1>4 DEF Next

LEMMA SupplyKept == supply <= U64Max /\ [Next]_vars => supply' <= U64Max
  <1> SUFFICES ASSUME supply <= U64Max, [Next]_vars PROVE supply' <= U64Max
    OBVIOUS
  <1>1. ASSUME NEW u \in Users, NEW r \in RegionCodes,
               \/ ProposeNewRegion(u, r)
               \/ \E vote \in Ballots, amount \in Amounts : VoteOnRegionProposal(u, r, vote, amount)
               \/ CreateRegion(u, r) \/ ClaimOpenRegion(u, r) \/ InitiateResignation(u, r)
        PROVE  supply' = supply
    BY <1>1 DEF ProposeNewRegion, VoteOnRegionProposal, CreateRegion, ClaimOpenRegion,
                InitiateResignation, envVars
  <1>2. ASSUME NEW u \in Users,
               (\E id \in ProposalIds : UnlockVotingToken(u, id)) \/ ChangeRole(u)
        PROVE  supply' = supply
    BY <1>2 DEF UnlockVotingToken, ChangeRole, envVars
  <1>3. ASSUME UpdateConfig \/ Tick \/ UNCHANGED vars PROVE supply' = supply
    BY <1>3 DEF UpdateConfig, Tick, vars, envVars
  <1>4. ASSUME ChangeSupply PROVE supply' \in 0..U64Max
    BY <1>4, InputsAssumption DEF ChangeSupply
  <1>5. supply' = supply \/ supply' \in 0..U64Max
    <2>1. CASE \E u \in Users, r \in RegionCodes :
                 \/ ProposeNewRegion(u, r)
                 \/ \E vote \in Ballots, amount \in Amounts :
                       VoteOnRegionProposal(u, r, vote, amount)
                 \/ CreateRegion(u, r) \/ ClaimOpenRegion(u, r) \/ InitiateResignation(u, r)
      BY <1>1, <2>1
    <2>2. CASE \E r \in RegionCodes : FinalizeRegionProposal(r) \/ ClearRegionState(r)
      BY <2>2 DEF FinalizeRegionProposal, ClearRegionState, envVars
    <2> QED BY <1>2, <1>3, <1>4, <2>1, <2>2 DEF Next
  <1> QED BY <1>5, BoundsAssumption

LEMMA NInvInit == Init => NInv
  BY TInvInit, BackedInit, InputsAssumption DEF NInv, Init, Fits

LEMMA NInvStep == NInv /\ [Next]_vars => NInv'
  <1> SUFFICES ASSUME NInv, [Next]_vars PROVE NInv'
    OBVIOUS
  <1>1. TInv' /\ supply' <= U64Max
    BY TallyStep, SupplyKept DEF NInv
  <1>2. TypeOK /\ TypeOK'
    BY <1>1 DEF NInv, TInv, CInv
  <1>3. Backed'
    BY <1>2, BackedStep DEF NInv
  <1>4. VotesInVault'
    BY <1>1, <1>3, OpenVotesInVault, PTL
  <1>5. ASSUME NEW id \in ProposalIds, proposals'[id] # None
        PROVE  proposals'[id].tally["Yes"] + proposals'[id].tally["No"] <= U64Max
    <2>1. CASE proposals'[id] = proposals[id]
      BY <1>5, <2>1 DEF NInv, Fits
    <2>2. CASE proposals'[id].tally["Yes"] = 0 /\ proposals'[id].tally["No"] = 0
      BY <2>2, BoundsAssumption
    <2>3. CASE Open(id)' /\ vault' <= supply
      <3>1. proposals'[id].tally["Yes"] + proposals'[id].tally["No"] <= vault'
        BY <1>4, <2>3 DEF VotesInVault
      <3>2. proposals'[id].tally \in [Ballots -> Nat]
        BY <1>2, <1>5 DEF TypeOK, Proposal
      <3>3. proposals'[id].tally["Yes"] \in Nat /\ proposals'[id].tally["No"] \in Nat
        BY <3>2 DEF Ballots
      <3>4. vault' \in Nat /\ supply \in Nat /\ U64Max \in Nat /\ supply <= U64Max
        BY <1>2, BoundsAssumption DEF TypeOK, NInv
      <3> QED BY <2>3, <3>1, <3>3, <3>4
    <2> QED BY <1>2, <1>5, <2>1, <2>2, <2>3, TalliesMove
  <1> QED BY <1>1, <1>3, <1>5 DEF NInv, Fits

LEMMA Unstuck == NInv => NothingStaysLocked
  <1> SUFFICES ASSUME NInv PROVE NothingStaysLocked
    OBVIOUS
  <1>0. TypeOK /\ Backed /\ TInv /\ CInv
    BY DEF NInv, TInv, CInv
  <1>1. ASSUME NEW r \in RegionCodes, states[r] # None, states[r].status = "Proposing",
               now >= proposals[states[r].proposal_id].expiry,
               Passes(proposals[states[r].proposal_id].tally) => TermFits
        PROVE  MayFinalize(r)
    <2>1. states[r].proposal_id \in ProposalIds
      BY <1>0, <1>1 DEF TypeOK, RegionState
    <2>2. /\ proposals[states[r].proposal_id] # None
          /\ proposals[states[r].proposal_id].proposer = states[r].proposer
      BY <1>0, <1>1 DEF CInv, Tallied
    <2>3. vault >= states[r].deposit
      <3>1. Bonds[r] = states[r].deposit
        BY <1>1 DEF Bonds
      <3> QED BY <1>0, <3>1, Payable
    <2>4. Fits(states[r].proposal_id)
      BY <2>1 DEF NInv
    <2> QED BY <1>1, <2>2, <2>3, <2>4 DEF MayFinalize, Fits
  <1>2. ASSUME NEW r \in RegionCodes, states[r] # None,
               \/ states[r].status = "Rejected"
               \/ states[r].status = "Passed" /\ now >= states[r].claim_deadline
        PROVE  MayClear(r)
    <2>1. vault >= Refund(states[r])
      <3>1. Bonds[r] = Refund(states[r])
        BY <1>2 DEF Bonds, Refund, Bonded
      <3> QED BY <1>0, <3>1, Payable
    <2> QED BY <1>2, <2>1 DEF MayClear
  <1>3. ASSUME NEW id \in ProposalIds, NEW u \in Users, votes[id][u] # None,
               now >= votes[id][u].expiry
        PROVE  MayUnlock(u, id)
    <2>1. Powers(id)[u] = votes[id][u].power
      BY <1>3 DEF Powers
    <2> QED BY <1>0, <1>3, <2>1, Payable DEF MayUnlock
  <1>4. ASSUME NEW r \in RegionCodes, NEW u \in operators, regions[r] # None,
               regions[r].next_owner_change < now, Bond > 0, Lockable(Bond), TermFits
        PROVE  MayClaim(u, r)
    <2>1. regions[r] \in Region /\ regions[r].collateral \in Nat /\ Bond \in Nat
          /\ vault \in Nat /\ supply \in Nat /\ u \in Users
      BY <1>0, <1>4, BondNat DEF TypeOK, Region
    <2>2. vault >= regions[r].collateral
      <3>1. Collaterals[r] = regions[r].collateral
        BY <1>4 DEF Collaterals
      <3> QED BY <1>0, <3>1, Payable
    <2>3. Locked(u, regions[r]) \in Nat /\ Locked(u, regions[r]) <= Bond
          /\ Released(u, regions[r]) \in Nat /\ Released(u, regions[r]) <= regions[r].collateral
      BY <2>1 DEF Locked, Released
    <2>4. Lockable(Locked(u, regions[r])) /\ vault + Locked(u, regions[r]) >= Released(u, regions[r])
      BY <1>4, <2>1, <2>2, <2>3 DEF Lockable
    <2> QED BY <1>4, <2>4 DEF MayClaim
  <1> QED BY <1>1, <1>2, <1>3, <1>4 DEF NothingStaysLocked

\* No vote, candidacy, voting power or seat is stuck, in every instance: the
\* tallies add up within a u64 and the shared vault holds what each account may
\* take out.  What can still stop a passed vote or a claim is a term that does not
\* fit the clock, which the theorem names.
THEOREM UnstuckTheorem == Spec => []NothingStaysLocked
  BY NInvInit, NInvStep, Unstuck, PTL DEF Spec
=============================================================================
