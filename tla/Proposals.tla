------------------------------ MODULE Proposals ------------------------------
(***************************************************************************)
(* Module proposals of the real-x-education program: a proposal is voted   *)
(* on, claimed against a bond by a creator who uploads the content, judged *)
(* by the AI agent, and minted as a module or rejected.  A sponsor may     *)
(* pay for part of the module in advance; minting turns that payment into  *)
(* a sponsorship, rejection gives it back.  One action is one instruction; *)
(* a failing one changes nothing, so its conditions are guards.            *)
(*                                                                         *)
(* Abstracted: wallets (the XCAV supply bounds what they can lock), rent,  *)
(* metadata, content, events, regions (never closed), and what happens to  *)
(* a module after its creation, which is module Delivery.                  *)
(***************************************************************************)
EXTENDS Pricing, FiniteSets, Functions

CONSTANTS
  Users, None,
  Voters,                    \* users who vote
  Assets, Decimals,          \* payment mints and their decimals
  Configs,                   \* parameter sets an authority may install
  InitialRoles, RoleChanges, \* role accounts at start, and those admins touch
  TokenCounts, Powers,       \* module sizes and voting powers callers pass
  XcavSupply, I64Max,        \* most XCAV there may be; width of a timestamp
  MaxBanned,                 \* MAX_BANNED, the capacity of the ban list
  MaxProposals, MaxStray,    \* bounds on ids and unsolicited transfers
  MaxTime, Horizon           \* time; proposals are opened only up to Horizon

\* is_proposer_role
ProposerRoles == {"ModuleCreator", "ModuleSponsor", "ModuleBooker", "ModuleDeliverer"}
RoleNames     == ProposerRoles \cup {"ModuleAIAgent"}
Ballots       == {"Yes", "No", "Abstain"}

\* "Created" is never seen: minting closes the account.
Statuses == {"Voting", "Claimable", "Claimed", "UnderReview", "Approved", "Rejected"}
ProposalIds == 0..MaxProposals-1

\* ConfigParams::validate, with the parameters this component reads.
ConfigParams ==
  [proposal_deposit : Nat \ {0}, module_deposit : Nat \ {0},
   max_module_tokens : Nat \ {0}, terms : Terms, minimum_voting_amount : Nat \ {0},
   voting_period : Nat \ {0}, threshold_bps : Bps \ {0}, quorum : Nat \ {0},
   claim_period : Nat \ {0}, upload_period : Nat \ {0}, pre_sponsor_amount : Nat,
   accepted_assets : SUBSET Assets]

ASSUME BoundsAssumption ==
  /\ {MaxProposals, MaxStray, MaxTime, Horizon} \subseteq Nat
  /\ {XcavSupply, I64Max, MaxBanned} \subseteq Nat
ASSUME InputsAssumption ==
  /\ Voters \subseteq Users
  /\ TokenCounts \subseteq 1..U64Max /\ Powers \subseteq 0..U64Max
  /\ InitialRoles \subseteq Users \X RoleNames
  /\ RoleChanges \subseteq Users \X RoleNames
  /\ Configs # {} /\ Configs \subseteq ConfigParams
ASSUME UsersAssumption == IsFiniteSet(Users)
ASSUME SupplyAssumption == XcavSupply <= U64Max   \* the supply of a mint is a u64
ASSUME DecimalsAssumption ==
  /\ Decimals \in [Assets -> Nat]
  /\ \A a \in Assets : 10^Decimals[a] \in Nat

VARIABLES
  now,             \* Clock::unix_timestamp
  config,          \* the protocol parameters
  roles,           \* <<user, role>> pairs with a role account
  next_id,         \* Config::next_proposal_id
  proposals,       \* ModuleProposal, by id
  votes,           \* ModuleProposalVote, by proposal and voter
  escrow,          \* pre-sponsorship escrow, by proposal
  stray,           \* unsolicited transfers into an open escrow
  minted,          \* module and sponsorship a proposal became
  vault, treasury  \* XCAV locked, XCAV slashed

envVars == <<now, config, roles>>
xcavVars == <<vault, treasury>>
vars == <<envVars, next_id, proposals, votes, escrow, stray, minted, xcavVars>>
-----------------------------------------------------------------------------
Proposal ==
  [proposer : Users, role : ProposerRoles, status : Statuses, expiry : Nat,
   deposit : Nat, tally : [Ballots -> Nat], amount : Nat, terms : Terms,
   claimant : Users \cup {None}, bond : Nat, upload_deadline : Nat, failures : {0, 1},
   banned : SUBSET Users, build_deadline : Nat, asset : Assets \cup {None},
   pre_sponsor_amount : Nat, pre_sponsor_price : Nat]

VoteRecord == [vote : Ballots, power : Nat, expiry : Nat]

\* The module that write_module records, with the sponsorship opened on it.
Minted ==
  [creator : Users, deposit : Nat, terms : Terms, total : Nat,
   sponsor_allocation : Nat, school_allocation : Nat, sponsor : Users \cup {None},
   price_per_token : Nat, sponsor_escrow : Nat]

\* None stands for an account that does not exist, or an Option that is unset.
ASSUME NoneAssumption ==
  None \notin Users \cup Assets \cup Nat \cup Proposal \cup VoteRecord \cup Minted

TypeOK ==
  /\ now \in Nat /\ config \in Configs /\ roles \subseteq Users \X RoleNames
  /\ next_id \in Nat
  /\ proposals \in [ProposalIds -> Proposal \cup {None}]
  /\ votes \in [ProposalIds -> [Users -> VoteRecord \cup {None}]]
  /\ escrow \in [ProposalIds -> Nat \cup {None}]
  /\ stray \in [ProposalIds -> Nat]
  /\ minted \in [ProposalIds -> Minted \cup {None}]
  /\ vault \in Nat /\ treasury \in Nat

Init ==
  /\ now = 0 /\ config \in Configs /\ roles = InitialRoles /\ next_id = 0
  /\ proposals = [p \in ProposalIds |-> None]
  /\ votes = [p \in ProposalIds |-> [u \in Users |-> None]]
  /\ escrow = [p \in ProposalIds |-> None]
  /\ stray = [p \in ProposalIds |-> 0]
  /\ minted = [p \in ProposalIds |-> None]
  /\ vault = 0 /\ treasury = 0
-----------------------------------------------------------------------------
HasRole(u, r) == <<u, r>> \in roles

\* lock_to_vault: the signer's wallet can cover the amount.  Wallets share what is
\* neither locked nor slashed; WithdrawTreasury gives them back what was slashed.
Lockable(amount) == vault + treasury + amount <= XcavSupply

\* i64 saturating_add, of times that are never negative here
After(start, period) == IF start + period <= I64Max THEN start + period ELSE I64Max

\* The tally without a voter's earlier vote.
Retract_FromYes(tally, record) ==                             \* mutant
  IF record = None THEN tally ELSE [tally EXCEPT !["Yes"] = @ - record.power]
Retract(tally, record) ==
  IF record = None THEN tally
  ELSE [tally EXCEPT ![record.vote] = IF @ <= record.power THEN 0 ELSE @ - record.power]

\* Only Yes counts for the quorum, and it must clear the ratio over No.
Passes(tally) ==
  /\ tally["Yes"] > 0
  /\ tally["Yes"] * 10000 >= (tally["Yes"] + tally["No"]) * config.threshold_bps
  /\ tally["Yes"] >= config.quorum

\* Who may reserve the build: its proposer only if a creator opened the
\* proposal, and nobody who failed its review twice.
MayBuild_DespiteBan(u, p) == p.role = "ModuleCreator" => p.proposer = u  \* mutant
MayBuild(u, p) ==
  /\ p.role = "ModuleCreator" => p.proposer = u
  /\ u \notin p.banned

\* A proposal reserved by a creator, who starts with no failed review.
Reserved_KeepsFailures(p, u) ==                               \* mutant
  [p EXCEPT !.claimant = u, !.bond = config.module_deposit, !.status = "Claimed",
            !.upload_deadline = After(now, config.upload_period)]
Reserved(p, u) ==
  [p EXCEPT !.claimant = u, !.bond = config.module_deposit, !.status = "Claimed",
            !.upload_deadline = After(now, config.upload_period), !.failures = 0]

\* A proposal no longer reserved, with the claimant's bond settled.
Vacated_KeepsBond(p) == [p EXCEPT !.claimant = None, !.upload_deadline = 0]  \* mutant
Vacated(p) == [p EXCEPT !.claimant = None, !.bond = 0, !.upload_deadline = 0]

\* When a build that stalls may be expired.
ExpiresAt_BuildOnly(p) == p.build_deadline                    \* mutant
ExpiresAt(p) == IF p.build_deadline >= p.upload_deadline
                THEN p.build_deadline ELSE p.upload_deadline

\* clear_proposal leaves a pre-sponsored proposal to its sponsor.
Clearable_Always(p) == p.status = "Rejected"                  \* mutant
Clearable(p) == p.status = "Rejected" /\ p.pre_sponsor_amount = 0

pre_sponsor_locked_Repriced(p) ==                             \* mutant
  IF p.pre_sponsor_amount = 0 THEN 0
  ELSE price_per_token(config.terms, Decimals[p.asset]) * p.pre_sponsor_amount
pre_sponsor_locked(p) == p.pre_sponsor_price * p.pre_sponsor_amount

\* The escrow pays out the locked amount and is closed, which the token program
\* refuses unless nothing is left in it.
EscrowCloses(id) ==
  escrow[id] # None /\ escrow[id] = pre_sponsor_locked(proposals[id])
-----------------------------------------------------------------------------
(* Proposing and voting *)

\* init_proposal_common
NewProposal(u, role, n) ==
  [proposer |-> u, role |-> role, status |-> "Voting",
   expiry |-> After(now, config.voting_period), deposit |-> config.proposal_deposit,
   tally |-> [v \in Ballots |-> 0], amount |-> n, terms |-> config.terms,
   claimant |-> None, bond |-> 0, upload_deadline |-> 0, failures |-> 0,
   banned |-> {}, build_deadline |-> 0, asset |-> None,
   pre_sponsor_amount |-> 0, pre_sponsor_price |-> 0]

CreateModuleProposal(u, role, n) ==
  /\ HasRole(u, role)
  /\ n <= config.max_module_tokens
  /\ Lockable(config.proposal_deposit)
  /\ next_id < MaxProposals /\ now <= Horizon
  /\ proposals' = [proposals EXCEPT ![next_id] = NewProposal(u, role, n)]
  /\ next_id' = next_id + 1
  /\ vault' = vault + config.proposal_deposit
  /\ UNCHANGED <<envVars, votes, escrow, stray, minted, treasury>>

CreateSponsorProposal(u, n, a) ==
  LET price == price_per_token(config.terms, Decimals[a])
      pre   == config.pre_sponsor_amount
  IN
  /\ HasRole(u, "ModuleSponsor")
  /\ n <= config.max_module_tokens
  /\ a \in config.accepted_assets
  /\ pre \in 1..n
  /\ PriceFits(config.terms, Decimals[a]) /\ price * pre <= U64Max
  /\ Lockable(config.proposal_deposit)
  /\ next_id < MaxProposals /\ now <= Horizon
  /\ proposals' = [proposals EXCEPT ![next_id] =
       [NewProposal(u, "ModuleSponsor", n) EXCEPT
          !.asset = a, !.pre_sponsor_amount = pre, !.pre_sponsor_price = price]]
  /\ escrow' = [escrow EXCEPT ![next_id] = price * pre]
  /\ next_id' = next_id + 1
  /\ vault' = vault + config.proposal_deposit
  /\ UNCHANGED <<envVars, votes, stray, minted, treasury>>

VoteOnProposal(u, id, vote, amount) ==
  LET p      == proposals[id]
      old    == votes[id][u]
      refund == IF old = None THEN 0 ELSE old.power
      rest   == Retract(p.tally, old)
  IN
  /\ p # None
  /\ amount >= config.minimum_voting_amount
  /\ p.status = "Voting"
  /\ now < p.expiry
  /\ vault >= refund
  /\ vault - refund + treasury + amount <= XcavSupply
  /\ rest[vote] + amount <= U64Max
  /\ proposals' = [proposals EXCEPT ![id].tally = [rest EXCEPT ![vote] = @ + amount]]
  /\ votes' = [votes EXCEPT ![id][u] =
                 [vote |-> vote, power |-> amount, expiry |-> p.expiry]]
  /\ vault' = vault - refund + amount
  /\ UNCHANGED <<envVars, next_id, escrow, stray, minted, treasury>>

\* The record's own expiry counts: the proposal may be gone.
MayUnlock(u, id) ==
  LET record == votes[id][u] IN
  record # None /\ now >= record.expiry /\ vault >= record.power

UnlockProposalVote(u, id) ==
  /\ MayUnlock(u, id)
  /\ vault' = vault - votes[id][u].power
  /\ votes' = [votes EXCEPT ![id][u] = None]
  /\ UNCHANGED <<envVars, next_id, proposals, escrow, stray, minted, treasury>>

\* Permissionless, once the voting window has closed: the stake goes back to
\* the proposer or to the treasury.
MayFinalize(id) ==
  LET p == proposals[id] IN
  /\ p # None
  /\ p.status = "Voting"
  /\ now >= p.expiry
  /\ p.tally["Yes"] + p.tally["No"] <= U64Max
  /\ vault >= p.deposit

FinalizeProposal(id) ==
  LET p == proposals[id] IN
  /\ MayFinalize(id)
  /\ vault' = vault - p.deposit
  /\ \/ /\ Passes(p.tally)
        /\ proposals' = [proposals EXCEPT ![id].status = "Claimable",
                           ![id].build_deadline = After(now, config.claim_period)]
        /\ UNCHANGED treasury
     \/ /\ ~Passes(p.tally)
        /\ proposals' = [proposals EXCEPT ![id].status = "Rejected"]
        /\ treasury' = treasury + p.deposit
  /\ UNCHANGED <<envVars, next_id, votes, escrow, stray, minted>>
-----------------------------------------------------------------------------
(* Building *)

ClaimProposal(u, id) ==
  LET p == proposals[id] IN
  /\ HasRole(u, "ModuleCreator")
  /\ p # None
  /\ p.status = "Claimable"
  /\ MayBuild(u, p)
  /\ Lockable(config.module_deposit)
  /\ proposals' = [proposals EXCEPT ![id] = Reserved(p, u)]
  /\ vault' = vault + config.module_deposit
  /\ UNCHANGED <<envVars, next_id, votes, escrow, stray, minted, treasury>>

UploadProposal(u, id) ==
  LET p == proposals[id] IN
  /\ p # None
  /\ p.status = "Claimed"
  /\ p.claimant = u
  /\ proposals' = [proposals EXCEPT ![id].upload_deadline = 0,
                                    ![id].status = "UnderReview"]
  /\ UNCHANGED <<envVars, next_id, votes, escrow, stray, minted, xcavVars>>

\* The bond of a claim goes to the treasury.
SlashBond_Refunds(p) ==                                       \* mutant
  vault' = vault - p.bond /\ UNCHANGED treasury
SlashBond(p) ==
  vault' = vault - p.bond /\ treasury' = treasury + p.bond

MayRelease(id) ==
  LET p == proposals[id] IN
  p # None /\ p.status = "Claimed" /\ now >= p.upload_deadline /\ vault >= p.bond

ReleaseClaim(id) ==
  LET p == proposals[id] IN
  /\ MayRelease(id)
  /\ SlashBond(p)
  /\ proposals' = [proposals EXCEPT ![id] = [Vacated(p) EXCEPT !.status = "Claimable"]]
  /\ UNCHANGED <<envVars, next_id, votes, escrow, stray, minted>>

\* A claimant gets two attempts; after that the slot is lost with the bond, and
\* with it the proposal once no further claimant can be banned.
ReviewProposal(u, id, passed) ==
  LET p == proposals[id] IN
  /\ HasRole(u, "ModuleAIAgent")
  /\ p # None
  /\ p.status = "UnderReview"
  /\ p.claimant # None
  /\ \/ /\ passed
        /\ proposals' = [proposals EXCEPT ![id].status = "Approved"]
        /\ UNCHANGED xcavVars
     \/ /\ ~passed /\ p.failures = 0
        /\ proposals' = [proposals EXCEPT ![id] =
             [p EXCEPT !.failures = 1, !.status = "Claimed",
                       !.upload_deadline = After(now, config.upload_period)]]
        /\ UNCHANGED xcavVars
     \/ /\ ~passed /\ p.failures # 0
        /\ vault >= p.bond /\ SlashBond(p)
        /\ LET vacated == [Vacated(p) EXCEPT !.failures = 0] IN
           proposals' = [proposals EXCEPT ![id] =
             IF Cardinality(p.banned) < MaxBanned
             THEN [vacated EXCEPT !.banned = @ \cup {p.claimant}, !.status = "Claimable"]
             ELSE [vacated EXCEPT !.status = "Rejected"]]
  /\ UNCHANGED <<envVars, next_id, votes, escrow, stray, minted>>

\* The tokens a sponsor has paid for start in the school allocation.
write_module_AllUnsponsored(u, p, deposit, terms) ==          \* mutant
  [creator |-> u, deposit |-> deposit, terms |-> terms, total |-> p.amount,
   sponsor_allocation |-> p.amount, school_allocation |-> p.pre_sponsor_amount,
   sponsor |-> IF p.pre_sponsor_amount = 0 THEN None ELSE p.proposer,
   price_per_token |-> p.pre_sponsor_price,
   sponsor_escrow |-> pre_sponsor_locked(p)]
write_module(u, p, deposit, terms) ==
  [creator |-> u, deposit |-> deposit, terms |-> terms, total |-> p.amount,
   sponsor_allocation |-> IF p.pre_sponsor_amount <= p.amount
                          THEN p.amount - p.pre_sponsor_amount ELSE 0,
   school_allocation |-> p.pre_sponsor_amount,
   sponsor |-> IF p.pre_sponsor_amount = 0 THEN None ELSE p.proposer,
   price_per_token |-> p.pre_sponsor_price,
   sponsor_escrow |-> pre_sponsor_locked(p)]

\* proposal_terms: the bond locked at the claim becomes the deposit, and the terms
\* are those that were voted on.
MintedModule_LiveDeposit(u, p) == write_module(u, p, config.module_deposit, p.terms)  \* mutant
MintedModule_LiveTerms(u, p) == write_module(u, p, p.bond, config.terms)  \* mutant
MintedModule(u, p) == write_module(u, p, p.bond, p.terms)

\* What the two ways to mint an approved proposal share.
Mint(u, id) ==
  LET p == proposals[id] IN
  /\ HasRole(u, "ModuleCreator")
  /\ p # None
  /\ p.status = "Approved"
  /\ p.claimant = u
  /\ minted' = [minted EXCEPT ![id] = MintedModule(u, p)]
  /\ proposals' = [proposals EXCEPT ![id] = None]
  /\ UNCHANGED <<envVars, next_id, votes, stray, xcavVars>>

MintProposedModule(u, id) ==
  /\ Mint(u, id)
  /\ proposals[id].pre_sponsor_amount = 0
  /\ UNCHANGED escrow

MintSponsoredModule(u, id) ==
  /\ Mint(u, id)
  /\ proposals[id].pre_sponsor_amount > 0
  /\ EscrowCloses(id)
  /\ escrow' = [escrow EXCEPT ![id] = None]

\* Permissionless.  A claimant who waits for the review gets the bond back; any
\* other bond is slashed.
MayExpire(id) ==
  LET p == proposals[id] IN
  /\ p # None
  /\ p.status \in {"Claimable", "Claimed", "UnderReview", "Approved"}
  /\ now >= ExpiresAt(p)
  /\ vault >= p.bond

ExpireProposal(id) ==
  LET p == proposals[id] IN
  /\ MayExpire(id)
  /\ \/ /\ p.status = "UnderReview"
        /\ vault' = vault - p.bond
        /\ UNCHANGED treasury
     \/ /\ p.status # "UnderReview"
        /\ SlashBond(p)
  /\ proposals' = [proposals EXCEPT ![id] = [Vacated(p) EXCEPT !.status = "Rejected"]]
  /\ UNCHANGED <<envVars, next_id, votes, escrow, stray, minted>>

MayReclaim(u, id) ==
  LET p == proposals[id] IN
  /\ p # None
  /\ p.proposer = u
  /\ p.status = "Rejected"
  /\ p.pre_sponsor_amount > 0
  /\ EscrowCloses(id)

ReclaimPreSponsor(u, id) ==
  /\ MayReclaim(u, id)
  /\ escrow' = [escrow EXCEPT ![id] = None]
  /\ proposals' = [proposals EXCEPT ![id] = None]
  /\ UNCHANGED <<envVars, next_id, votes, stray, minted, xcavVars>>

MayClear(id) == proposals[id] # None /\ Clearable(proposals[id])

ClearProposal(id) ==
  /\ MayClear(id)
  /\ proposals' = [proposals EXCEPT ![id] = None]
  /\ UNCHANGED <<envVars, next_id, votes, escrow, stray, minted, xcavVars>>
-----------------------------------------------------------------------------
UpdateConfig ==
  /\ config' \in Configs
  /\ UNCHANGED <<now, roles, next_id, proposals, votes, escrow, stray, minted, xcavVars>>

\* withdraw_treasury of education-regions: slashed XCAV returns to the wallets.
WithdrawTreasury ==
  /\ \E amount \in 1..treasury : treasury' = treasury - amount
  /\ UNCHANGED <<envVars, next_id, proposals, votes, escrow, stray, minted, vault>>

\* assign_role, remove_role and renounce_role of xcavate-roles.
ChangeRole(grant) ==
  /\ grant \in RoleChanges
  /\ roles' = IF grant \in roles THEN roles \ {grant} ELSE roles \cup {grant}
  /\ UNCHANGED <<now, config, next_id, proposals, votes, escrow, stray, minted, xcavVars>>

\* Anybody may transfer tokens to an open token account.
StrayTransfer(id) ==
  /\ escrow[id] # None
  /\ stray[id] < MaxStray
  /\ escrow' = [escrow EXCEPT ![id] = @ + 1]
  /\ stray' = [stray EXCEPT ![id] = @ + 1]
  /\ UNCHANGED <<envVars, next_id, proposals, votes, minted, xcavVars>>

Tick ==
  /\ now < MaxTime
  /\ now' = now + 1
  /\ UNCHANGED <<config, roles, next_id, proposals, votes, escrow, stray, minted, xcavVars>>

Next ==
  \/ \E u \in Users :
       \/ \E n \in TokenCounts :
            \/ \E role \in ProposerRoles : CreateModuleProposal(u, role, n)
            \/ \E a \in Assets : CreateSponsorProposal(u, n, a)
       \/ \E id \in ProposalIds :
            \/ ClaimProposal(u, id)
            \/ UploadProposal(u, id)
            \/ \E passed \in BOOLEAN : ReviewProposal(u, id, passed)
            \/ MintProposedModule(u, id)
            \/ MintSponsoredModule(u, id)
            \/ ReclaimPreSponsor(u, id)
            \/ UnlockProposalVote(u, id)
  \/ \E u \in Voters, id \in ProposalIds, vote \in Ballots, amount \in Powers :
       VoteOnProposal(u, id, vote, amount)
  \/ \E id \in ProposalIds :
       \/ FinalizeProposal(id)
       \/ ReleaseClaim(id)
       \/ ExpireProposal(id)
       \/ ClearProposal(id)
       \/ StrayTransfer(id)
  \/ UpdateConfig
  \/ WithdrawTreasury
  \/ \E grant \in RoleChanges : ChangeRole(grant)
  \/ Tick

Spec == Init /\ [][Next]_vars
-----------------------------------------------------------------------------
Live == {id \in ProposalIds : proposals[id] # None}

\* The claim of one proposal: claimant and bond are set in exactly the statuses
\* with a build under way, the upload deadline only while an upload is awaited.
Whole(p) ==
  LET building == p.status \in {"Claimed", "UnderReview", "Approved"} IN
  /\ building <=> p.claimant # None
  /\ building <=> p.bond > 0
  /\ p.upload_deadline > 0 => p.status = "Claimed"
  /\ building => p.claimant \notin p.banned
  /\ building /\ p.role = "ModuleCreator" => p.claimant = p.proposer

\* A reservation is whole or absent, and its holder is one who may build: not
\* banned, and the proposer when a creator opened the proposal, whatever
\* releases, failed reviews and expiries came before.
ReservationsWhole == \A id \in Live : Whole(proposals[id])

\* A sponsor's advance payment is where its proposal says: an escrow is open
\* exactly for the live proposals that carry one and holds the locked price of
\* the tokens plus what strayed in; a minted module has it in full, once, in a
\* sponsorship of the tokens that start in its school allocation, and the rest of
\* its tokens in the creator's; no other end leaves money behind.
Kept(id) ==
  LET p == proposals[id]
      m == minted[id]
  IN  /\ IF p # None /\ p.pre_sponsor_amount > 0
         THEN escrow[id] = pre_sponsor_locked(p) + stray[id]
         ELSE escrow[id] = None
      /\ m # None =>
           /\ p = None
           /\ m.sponsor_escrow = m.price_per_token * m.school_allocation
           /\ m.sponsor = None <=> m.school_allocation = 0
           /\ m.sponsor_allocation + m.school_allocation = m.total

PreSponsorshipKept == \A id \in ProposalIds : Kept(id)

\* What one proposal keeps in the vault: the proposer's stake while it is voted
\* on, the bond of its build, and then the deposit of the module it became.
Staked(id) == IF proposals[id] # None /\ proposals[id].status = "Voting"
              THEN proposals[id].deposit ELSE 0
Bonded(id) == IF proposals[id] # None THEN proposals[id].bond ELSE 0
Deposited(id) == IF minted[id] # None THEN minted[id].deposit ELSE 0
Deposits == [id \in ProposalIds |-> Staked(id) + Bonded(id) + Deposited(id)]

VotesOn(id) == [u \in Users |-> IF votes[id][u] # None THEN votes[id][u].power ELSE 0]

\* The one vault holds exactly the stakes of the proposals being voted on, the
\* bonds of the builds under way, the deposits of the modules minted and the
\* voting power not yet unlocked: every stake and bond leaves it once.
DepositsBacked ==
  vault = SumFunction(Deposits)
          + SumFunction([id \in ProposalIds |-> SumFunction(VotesOn(id))])

\* No proposal is stuck: at its time each can be finalized, released, expired
\* and closed by anybody, and every vote unlocked; a sponsor can take a rejected
\* pre-sponsorship back, provided nothing strayed into its escrow.  (An instruction
\* whose condition holds succeeds: the rest of it only assigns the next state.)
ProposalsMoveOn ==
  /\ \A id \in Live :
       LET p == proposals[id] IN
       /\ p.status = "Voting" /\ now >= p.expiry => MayFinalize(id)
       /\ p.status = "Claimed" /\ now >= p.upload_deadline => MayRelease(id)
       /\ p.status \notin {"Voting", "Rejected"} /\ now >= ExpiresAt(p) =>
            MayExpire(id)
       /\ p.status = "Rejected" =>
            IF p.pre_sponsor_amount = 0
            THEN MayClear(id)
            ELSE stray[id] = 0 => MayReclaim(p.proposer, id)
  /\ \A id \in ProposalIds, u \in Users :
       votes[id][u] # None /\ now >= votes[id][u].expiry =>
         MayUnlock(u, id)

\* The votes on record for one ballot of a proposal.
CastFor(id, vote) ==
  [u \in Users |-> IF votes[id][u] # None /\ votes[id][u].vote = vote
                   THEN votes[id][u].power ELSE 0]

\* While a vote is open every ballot's tally is the sum of the votes on record for
\* it, whatever votes were changed, raised, lowered or moved to another ballot: a
\* retraction takes out exactly what the voter had put in, and never saturates.
TallyExact ==
  \A id \in Live :
    proposals[id].status = "Voting" /\ now < proposals[id].expiry =>
      \A vote \in Ballots : proposals[id].tally[vote] = SumFunction(CastFor(id, vote))

Honoured(id) ==
  LET p == proposals[id] IN
  p.status = "Claimed" /\ now < p.upload_deadline =>
    /\ proposals'[id] # None
    /\ proposals'[id].claimant = p.claimant
    /\ proposals'[id].bond = p.bond

\* Nobody loses a bond while an upload is still awaited from them: neither
\* release_claim nor expire_proposal ends a reservation before the deadline the
\* claimant was granted, even one that runs past the build deadline.
UploadDeadlineHonoured == [][\A id \in Live : Honoured(id)]_vars

\* The phase of a proposal, read off its accounts.
Phase(id) ==
  IF id >= next_id            THEN "None"
  ELSE IF minted[id] # None   THEN "Built"
  ELSE IF proposals[id] = None THEN "Closed"
  ELSE proposals[id].status

\* A field of a proposal, absent once it is gone.
OfProposal(id, field, absent) ==
  IF proposals[id] = None THEN absent ELSE proposals[id][field]

\* Who holds the build or built it, the failed reviews of that builder, and what
\* the builder has at stake.
Builder(id) == IF minted[id] # None THEN minted[id].creator
               ELSE OfProposal(id, "claimant", None)
Tries(id) == IF OfProposal(id, "claimant", None) = None THEN 0 ELSE proposals[id].failures
AtStake(id) == IF minted[id] # None THEN minted[id].deposit ELSE Bonded(id)

\* The sponsor's advance payment: in the escrow, then in the sponsorship.
Advanced(id) == IF minted[id] # None THEN minted[id].sponsor_escrow
                ELSE IF escrow[id] = None THEN 0 ELSE escrow[id] - stray[id]

Phases   == [id \in ProposalIds |-> Phase(id)]
Builders == [id \in ProposalIds |-> Builder(id)]
TriesOf  == [id \in ProposalIds |-> Tries(id)]
BannedOf == [id \in ProposalIds |-> OfProposal(id, "banned", {})]
Stakes   == [id \in ProposalIds |-> AtStake(id)]
Advances == [id \in ProposalIds |-> Advanced(id)]

Lifecycle == INSTANCE ProposalLifecycle WITH
  phase <- Phases, builder <- Builders, tries <- TriesOf,
  banned <- BannedOf, bond <- Stakes, advance <- Advances

\* Every proposal follows the lifecycle of ProposalLifecycle: its build is held by
\* one creator at a time, bonded and not banned, who is judged twice at most,
\* whatever earlier claimants did; and the bond and the sponsor's advance go
\* whole into the module, or the bond is settled and the advance returned.
ImplementsProposalLifecycle == Lifecycle!Spec
=============================================================================
