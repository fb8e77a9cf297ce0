------------------------------- MODULE Regions -------------------------------
(***************************************************************************)
(* Region governance of the education-regions program: a regional operator *)
(* bonds XCAV to propose a region, XCAV holders lock tokens to vote, and   *)
(* the proposer of a passed proposal takes the region's seat, which opens  *)
(* again when the term is over or the operator resigns.  One action is one *)
(* instruction; a failing one changes nothing, so its conditions are       *)
(* guards.  Bonds, collaterals and votes share one vault account.          *)
(*                                                                         *)
(* Abstracted: wallets (the XCAV supply bounds what they can lock), rent,  *)
(* events, the treasury (no instruction here pays into it).                *)
(***************************************************************************)
EXTENDS Integers, FiniteSets, Functions

CONSTANTS
  Users, None,
  RegionCodes,           \* the codes RegionIdentifier recognises
  Configs,               \* parameter sets the authority may install
  InitialOperators, Operators, \* role holders at start, and those admins touch
  Amounts, Supplies,     \* voting powers and XCAV supplies that occur
  U64Max, I64Max,
  MaxProposals, MaxTime, Horizon  \* bounds on ids and time; regions are
                                  \* proposed only up to Horizon

Ballots  == {"Yes", "No", "Abstain"}
Statuses == {"Proposing", "Passed", "Rejected"}
ProposalIds == 0..MaxProposals-1

\* ConfigParams::validate
ConfigParams ==
  [minimum_voting_amount : 1..U64Max, voting_period : 1..I64Max,
   owner_change_period : 1..I64Max, threshold_bps : 1..10000, quorum : 1..U64Max,
   notice_period : 1..I64Max]

ASSUME BoundsAssumption == {U64Max, I64Max, MaxProposals, MaxTime, Horizon} \subseteq Nat
ASSUME FiniteAssumption == IsFiniteSet(Users) /\ IsFiniteSet(RegionCodes)
ASSUME InputsAssumption ==
  /\ InitialOperators \subseteq Users /\ Operators \subseteq Users
  /\ Amounts \subseteq 0..U64Max /\ Supplies \subseteq 0..U64Max /\ Supplies # {}
  /\ Configs # {} /\ Configs \subseteq ConfigParams

VARIABLES
  now, config,
  operators,   \* users with a RegionalOperator role account
  supply,      \* XCAV in existence
  next_id,     \* Config::proposal_counter
  states,      \* RegionState, by region: a candidacy from proposal to seat
  proposals,   \* RegionProposal, by id: the running tally
  votes,       \* VoteRecord, by proposal and voter
  regions,     \* Region, by code: the seat
  vault        \* XCAV locked

envVars == <<now, config, operators, supply>>
vars == <<envVars, next_id, states, proposals, votes, regions, vault>>

RegionState ==
  [status : Statuses, proposal_id : ProposalIds, proposer : Users, deposit : Nat,
   claim_deadline : Nat]
Proposal == [region : RegionCodes, proposer : Users, expiry : Nat, tally : [Ballots -> Nat]]
VoteRecord == [vote : Ballots, power : Nat, expiry : Nat]
Region == [owner : Users, collateral : Nat, next_owner_change : Nat]

\* None stands for an account that does not exist.
ASSUME NoneAssumption ==
  None \notin RegionState \cup Proposal \cup VoteRecord \cup Region

TypeOK ==
  /\ now \in Nat /\ config \in Configs /\ operators \subseteq Users
  /\ supply \in Nat /\ next_id \in Nat /\ vault \in Nat
  /\ states \in [RegionCodes -> RegionState \cup {None}]
  /\ proposals \in [ProposalIds -> Proposal \cup {None}]
  /\ votes \in [ProposalIds -> [Users -> VoteRecord \cup {None}]]
  /\ regions \in [RegionCodes -> Region \cup {None}]

Init ==
  /\ now = 0 /\ config \in Configs /\ operators = InitialOperators
  /\ supply \in Supplies /\ next_id = 0 /\ vault = 0
  /\ states = [r \in RegionCodes |-> None]
  /\ proposals = [p \in ProposalIds |-> None]
  /\ votes = [p \in ProposalIds |-> [u \in Users |-> None]]
  /\ regions = [r \in RegionCodes |-> None]
-----------------------------------------------------------------------------
\* operator_bond: 0.1% of the supply, and an error when that is nothing.
Bond == supply \div 1000

\* lock_to_vault: the signer's wallet can cover the amount.
Lockable(amount) == vault + amount <= supply

\* A term that starts now ends within an i64: checked_add of the deadline.
TermFits == now + config.owner_change_period <= I64Max

\* No seat and no other candidacy for the region.
Vacant_IgnoresSeat(r) == states[r] = None           \* mutant
Vacant(r) == regions[r] = None /\ states[r] = None

\* The tally without a voter's earlier vote, and with the new one.
Retract_Keep(tally, record) == tally                \* mutant
Retract_FromYes(tally, record) ==                   \* mutant
  IF record = None THEN tally ELSE [tally EXCEPT !["Yes"] = @ - record.power]
Retract(tally, record) ==
  IF record = None THEN tally
  ELSE [tally EXCEPT ![record.vote] = IF @ <= record.power THEN 0 ELSE @ - record.power]

\* Only Yes counts for the quorum, and it must clear the ratio over No.
Passes(tally) ==
  /\ tally["Yes"] > 0
  /\ tally["Yes"] * 10000 >= (tally["Yes"] + tally["No"]) * config.threshold_bps
  /\ tally["Yes"] >= config.quorum

\* The bond of a candidacy that was rejected has already been returned.
Bonded_AnyStatus(s) == TRUE                         \* mutant
Bonded(s) == s.status # "Rejected"

\* What a new operator locks to take or renew a seat, and what is paid back.
Locked_FullBond(u, seat) == Bond                    \* mutant
Locked(u, seat) == IF u # seat.owner THEN Bond
                   ELSE IF Bond > seat.collateral THEN Bond - seat.collateral ELSE 0
Released(u, seat) == IF u # seat.owner THEN seat.collateral
                     ELSE IF seat.collateral > Bond THEN seat.collateral - Bond ELSE 0
-----------------------------------------------------------------------------
ProposeNewRegion(u, r) ==
  /\ u \in operators
  /\ Vacant(r)
  /\ Bond > 0 /\ Lockable(Bond)
  /\ next_id < MaxProposals /\ now <= Horizon
  /\ proposals' = [proposals EXCEPT ![next_id] =
       [region |-> r, proposer |-> u,
        expiry |-> IF now + config.voting_period <= I64Max
                   THEN now + config.voting_period ELSE I64Max,
        tally |-> [v \in Ballots |-> 0]]]
  /\ states' = [states EXCEPT ![r] =
       [status |-> "Proposing", proposal_id |-> next_id, proposer |-> u,
        deposit |-> Bond, claim_deadline |-> 0]]
  /\ next_id' = next_id + 1
  /\ vault' = vault + Bond
  /\ UNCHANGED <<envVars, votes, regions>>

VoteOnRegionProposal(u, r, vote, amount) ==
  LET id  == states[r].proposal_id
      p   == proposals[id]
      old == votes[id][u]
      refund == IF old = None THEN 0 ELSE old.power
      rest == Retract(p.tally, old)
  IN
  /\ states[r] # None
  /\ p # None
  /\ amount >= config.minimum_voting_amount
  /\ now < p.expiry
  /\ vault >= refund
  /\ vault - refund + amount <= supply
  /\ rest[vote] + amount <= U64Max
  /\ proposals' = [proposals EXCEPT ![id].tally = [rest EXCEPT ![vote] = @ + amount]]
  /\ votes' = [votes EXCEPT ![id][u] =
                 [vote |-> vote, power |-> amount, expiry |-> p.expiry]]
  /\ vault' = vault - refund + amount
  /\ UNCHANGED <<envVars, next_id, states, regions>>

\* Permissionless, once the voting window has closed.  A passed proposal needs a
\* claim deadline that is a timestamp, a rejected one its bond back.
MayFinalize(r) ==
  LET s == states[r]
      p == proposals[s.proposal_id]
  IN
  /\ s # None /\ p # None
  /\ s.status = "Proposing"
  /\ p.proposer = s.proposer
  /\ now >= p.expiry
  /\ p.tally["Yes"] + p.tally["No"] <= U64Max
  /\ IF Passes(p.tally) THEN TermFits ELSE vault >= s.deposit

FinalizeRegionProposal(r) ==
  LET s == states[r]
      p == proposals[s.proposal_id]
  IN
  /\ MayFinalize(r)
  /\ \/ /\ Passes(p.tally)
        /\ states' = [states EXCEPT ![r].status = "Passed",
                                    ![r].claim_deadline = now + config.owner_change_period]
        /\ UNCHANGED vault
     \/ /\ ~Passes(p.tally)
        /\ states' = [states EXCEPT ![r].status = "Rejected"]
        /\ vault' = vault - s.deposit
  /\ proposals' = [proposals EXCEPT ![s.proposal_id] = None]
  /\ UNCHANGED <<envVars, next_id, votes, regions>>

CreateRegion(u, r) ==
  LET s == states[r] IN
  /\ u \in operators
  /\ s # None /\ regions[r] = None
  /\ s.status = "Passed"
  /\ s.proposer = u
  /\ now < s.claim_deadline
  /\ TermFits
  /\ regions' = [regions EXCEPT ![r] =
       [owner |-> u, collateral |-> s.deposit,
        next_owner_change |-> now + config.owner_change_period]]
  /\ states' = [states EXCEPT ![r] = None]
  /\ UNCHANGED <<envVars, next_id, proposals, votes, vault>>

\* The seat is taken by another operator, or renewed by the incumbent.
MayClaim(u, r) ==
  LET seat == regions[r] IN
  /\ u \in operators
  /\ seat # None
  /\ seat.next_owner_change < now
  /\ Bond > 0 /\ Lockable(Locked(u, seat))
  /\ vault + Locked(u, seat) >= Released(u, seat)
  /\ TermFits

ClaimOpenRegion(u, r) ==
  LET seat == regions[r] IN
  /\ MayClaim(u, r)
  /\ vault' = vault + Locked(u, seat) - Released(u, seat)
  /\ regions' = [regions EXCEPT ![r] =
       [owner |-> u, collateral |-> Bond,
        next_owner_change |-> now + config.owner_change_period]]
  /\ UNCHANGED <<envVars, next_id, states, proposals, votes>>

InitiateResignation(u, r) ==
  /\ u \in operators
  /\ regions[r] # None
  /\ regions[r].owner = u
  /\ regions[r].next_owner_change > now + config.notice_period
  /\ regions' = [regions EXCEPT ![r].next_owner_change = now + config.notice_period]
  /\ UNCHANGED <<envVars, next_id, states, proposals, votes, vault>>

\* The record's own expiry counts: the proposal may be gone.
MayUnlock(u, id) ==
  LET record == votes[id][u] IN
  record # None /\ now >= record.expiry /\ vault >= record.power

UnlockVotingToken(u, id) ==
  /\ MayUnlock(u, id)
  /\ vault' = vault - votes[id][u].power
  /\ votes' = [votes EXCEPT ![id][u] = None]
  /\ UNCHANGED <<envVars, next_id, states, proposals, regions>>

Refund(s) == IF Bonded(s) THEN s.deposit ELSE 0

MayClear(r) ==
  LET s == states[r] IN
  /\ s # None
  /\ \/ s.status = "Rejected"
     \/ s.status = "Passed" /\ now >= s.claim_deadline
  /\ vault >= Refund(s)

ClearRegionState(r) ==
  /\ MayClear(r)
  /\ vault' = vault - Refund(states[r])
  /\ states' = [states EXCEPT ![r] = None]
  /\ UNCHANGED <<envVars, next_id, proposals, votes, regions>>
-----------------------------------------------------------------------------
\* The parameters are read live, except by what stored a deadline.
UpdateConfig ==
  /\ config' \in Configs
  /\ UNCHANGED <<now, operators, supply, next_id, states, proposals, votes, regions, vault>>

\* assign_role, remove_role and renounce_role of xcavate-roles.
ChangeRole(u) ==
  /\ u \in Operators
  /\ operators' = IF u \in operators THEN operators \ {u} ELSE operators \cup {u}
  /\ UNCHANGED <<now, config, supply, next_id, states, proposals, votes, regions, vault>>

\* XCAV is minted, or burned from a wallet.
ChangeSupply ==
  /\ supply' \in Supplies /\ supply' >= vault
  /\ UNCHANGED <<now, config, operators, next_id, states, proposals, votes, regions, vault>>

Tick ==
  /\ now < MaxTime
  /\ now' = now + 1
  /\ UNCHANGED <<config, operators, supply, next_id, states, proposals, votes, regions, vault>>

Next ==
  \/ \E u \in Users :
       \/ \E r \in RegionCodes :
            \/ ProposeNewRegion(u, r)
            \/ \E vote \in Ballots, amount \in Amounts : VoteOnRegionProposal(u, r, vote, amount)
            \/ CreateRegion(u, r)
            \/ ClaimOpenRegion(u, r)
            \/ InitiateResignation(u, r)
       \/ \E id \in ProposalIds : UnlockVotingToken(u, id)
       \/ ChangeRole(u)
  \/ \E r \in RegionCodes : FinalizeRegionProposal(r) \/ ClearRegionState(r)
  \/ UpdateConfig
  \/ ChangeSupply
  \/ Tick

Spec == Init /\ [][Next]_vars
-----------------------------------------------------------------------------
\* At most one candidacy or seat exists for a region, and a tally is open exactly
\* while its region's candidacy is being voted on, for the same proposer: a
\* finalized, cleared or seated region leaves no proposal that could still be
\* voted on or finalized against a later candidacy.
OneCandidacy ==
  /\ \A r \in RegionCodes : states[r] # None =>
       LET s == states[r] IN
       /\ regions[r] = None
       /\ s.status = "Proposing" =>
            /\ proposals[s.proposal_id] # None
            /\ proposals[s.proposal_id].region = r
            /\ proposals[s.proposal_id].proposer = s.proposer
  /\ \A id \in ProposalIds : proposals[id] # None =>
       LET s == states[proposals[id].region] IN
       s # None /\ s.status = "Proposing" /\ s.proposal_id = id

\* What the accounts hold of the vault: a candidacy its bond until it is
\* rejected, a seat its collateral, a vote record its power.
Bonds == [r \in RegionCodes |-> IF states[r] # None /\ states[r].status # "Rejected"
                                THEN states[r].deposit ELSE 0]
Collaterals == [r \in RegionCodes |-> IF regions[r] # None THEN regions[r].collateral ELSE 0]
Powers(id) == [u \in Users |-> IF votes[id][u] # None THEN votes[id][u].power ELSE 0]
PowersFor(id, v) == [u \in Users |-> IF votes[id][u] # None /\ votes[id][u].vote = v
                                     THEN votes[id][u].power ELSE 0]

\* The one vault holds exactly the bonds of candidacies not rejected, the
\* collaterals of the seats and the voting power not yet unlocked: no refund is
\* paid twice or out of another user's tokens, and none is forgotten.
VaultBacked ==
  vault = SumFunction(Bonds) + SumFunction(Collaterals)
          + SumFunction([id \in ProposalIds |-> SumFunction(Powers(id))])

\* While a vote is open its tally is what the voters have locked for it, ballot
\* by ballot, however often they change their mind; afterwards tokens unlock but
\* the tally stays.
TallyBacked ==
  \A id \in ProposalIds : proposals[id] # None =>
    \A v \in Ballots :
      LET locked == SumFunction(PowersFor(id, v))
      IN  /\ proposals[id].tally[v] >= locked
          /\ now < proposals[id].expiry => proposals[id].tally[v] = locked

\* Nothing stays locked: when its time has come a vote can be finalized, a
\* candidacy that failed or was not taken up cleared and a voter's power
\* unlocked, whoever sends the instruction and whatever happened before; and a
\* seat whose term is over goes to any operator who can pay the bond, the one
\* leaving it being paid out.  Only a term beyond the clock's width stops a passed
\* vote or a claim.
NothingStaysLocked ==
  /\ \A r \in RegionCodes : states[r] # None =>
       LET s == states[r] IN
       /\ /\ s.status = "Proposing" /\ now >= proposals[s.proposal_id].expiry
          /\ Passes(proposals[s.proposal_id].tally) => TermFits
          => MayFinalize(r)
       /\ s.status = "Rejected" \/ (s.status = "Passed" /\ now >= s.claim_deadline) =>
            MayClear(r)
  /\ \A id \in ProposalIds, u \in Users :
       votes[id][u] # None /\ now >= votes[id][u].expiry => MayUnlock(u, id)
  /\ \A r \in RegionCodes, u \in operators :
       /\ regions[r] # None /\ regions[r].next_owner_change < now
       /\ Bond > 0 /\ Lockable(Bond) /\ TermFits
       => MayClaim(u, r)
=============================================================================
