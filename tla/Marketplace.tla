----------------------------- MODULE Marketplace -----------------------------
(***************************************************************************)
(* The real-x-education program as a whole: the delivery market (module    *)
(* Delivery, extended here) and the proposals that found modules (module   *)
(* Proposals) over one clock, one Config, the same role accounts, one XCAV *)
(* vault and one treasury.  They meet in two places: the vault both keep   *)
(* their deposits in, and minting, which turns an approved proposal into a *)
(* module and its advance payment into a sponsorship of the market.        *)
(*                                                                         *)
(* A parameter set is what Delivery reads of it; ProposalParams gives what *)
(* Proposals reads of the same set.                                        *)
(***************************************************************************)
EXTENDS Delivery

CONSTANTS
  Voters, TokenCounts, Powers,   \* the inputs of Proposals, and its bounds
  I64Max, MaxBanned, MaxProposals,
  ProposalParams,
  ProposeUntil                   \* last time to open a proposal

VARIABLES next_proposal_id, proposals, votes, proposal_escrow, proposal_stray, minted

P == INSTANCE Proposals WITH
  config  <- ProposalParams[config],
  Configs <- {ProposalParams[c] : c \in Configs},
  next_id <- next_proposal_id,
  escrow  <- proposal_escrow,
  stray   <- proposal_stray,
  Horizon <- ProposeUntil

proposalVars == <<next_proposal_id, proposals, votes, proposal_escrow,
                  proposal_stray, minted>>
marketVars   == <<vars, proposalVars>>

\* One Config: what both components read of it is the same.
ASSUME ParamsAssumption ==
  /\ ProposalParams \in [Configs -> P!ConfigParams]
  /\ \A c \in Configs :
       /\ ProposalParams[c].terms = c.terms
       /\ ProposalParams[c].module_deposit = c.module_deposit
       /\ ProposalParams[c].max_module_tokens = c.max_module_tokens
       /\ ProposalParams[c].accepted_assets = c.accepted_assets

\* What Proposals assumes of its other constants.
ASSUME ProposalsAssumption ==
  /\ {I64Max, MaxBanned, MaxProposals, ProposeUntil} \subseteq Nat
  /\ Voters \subseteq Users
  /\ TokenCounts \subseteq 1..U64Max /\ Powers \subseteq 0..U64Max
  /\ XcavSupply <= U64Max
  /\ None \notin Assets \cup P!Proposal \cup P!VoteRecord \cup P!Minted

MarketInit == Init /\ P!Init
-----------------------------------------------------------------------------
\* An instruction of the delivery market, a parameter update, a change of roles
\* or the passing of time.
Deliver == Next /\ UNCHANGED proposalVars

\* An instruction on a proposal that creates no module.
Propose ==
  /\ UNCHANGED <<envVars, next_id, moduleVars, sponsorVars, bookingVars, stray,
                 deliverers, cancelVars, credentials>>
  /\ \/ \E u \in Users, n \in TokenCounts :
          \/ \E role \in P!ProposerRoles : P!CreateModuleProposal(u, role, n)
          \/ \E a \in Assets : P!CreateSponsorProposal(u, n, a)
     \/ \E u \in Users, id \in P!ProposalIds :
          \/ P!ClaimProposal(u, id)
          \/ P!UploadProposal(u, id)
          \/ \E passed \in BOOLEAN : P!ReviewProposal(u, id, passed)
          \/ P!ReclaimPreSponsor(u, id)
          \/ P!UnlockProposalVote(u, id)
     \/ \E u \in Voters, id \in P!ProposalIds, vote \in P!Ballots, amount \in Powers :
          P!VoteOnProposal(u, id, vote, amount)
     \/ \E id \in P!ProposalIds :
          \/ P!FinalizeProposal(id)
          \/ P!ReleaseClaim(id)
          \/ P!ExpireProposal(id)
          \/ P!ClearProposal(id)
          \/ P!StrayTransfer(id)

\* write_module: the module a proposal has become, in the delivery market.
AddModule(id) ==
  LET new == minted'[id] IN
  /\ next_id.module < MaxModules
  /\ modules' = [modules EXCEPT ![next_id.module] =
       [creator |-> new.creator, deposit |-> new.deposit, terms |-> new.terms,
        sponsor_allocation |-> new.sponsor_allocation,
        school_allocation |-> new.school_allocation, student_allocation |-> 0]]
  /\ module_vault' = [module_vault EXCEPT ![next_id.module] = new.total]

\* The sponsorship of a minted module, in the asset the proposal locked.
AddSponsorship(id) ==
  LET new == minted'[id] IN
  /\ next_id.sponsor < MaxSponsorships
  /\ sponsorships' = [sponsorships EXCEPT ![next_id.sponsor] =
       [module |-> next_id.module, sponsor |-> new.sponsor,
        asset |-> proposals[id].asset, amount |-> new.school_allocation,
        active_bookings |-> 0, price_per_token |-> new.price_per_token,
        sponsored_at |-> now]]
  /\ sponsor_escrow' = [sponsor_escrow EXCEPT ![next_id.sponsor] = new.sponsor_escrow]

MintProposedModule(u, id) ==
  /\ UNCHANGED envVars
  /\ P!MintProposedModule(u, id)
  /\ AddModule(id)
  /\ next_id' = [next_id EXCEPT !.module = @ + 1]
  /\ UNCHANGED <<sponsorVars, bookingVars, stray, deliverers, cancelVars, credentials>>

MintSponsoredModule(u, id) ==
  /\ UNCHANGED envVars
  /\ P!MintSponsoredModule(u, id)
  /\ AddModule(id)
  /\ AddSponsorship(id)
  /\ next_id' = [next_id EXCEPT !.module = @ + 1, !.sponsor = @ + 1]
  /\ UNCHANGED <<bookingVars, stray, deliverers, cancelVars, credentials>>

MarketNext ==
  \/ Deliver
  \/ Propose
  \/ \E u \in Users, id \in P!ProposalIds :
       MintProposedModule(u, id) \/ MintSponsoredModule(u, id)

MarketSpec == MarketInit /\ [][MarketNext]_marketVars
-----------------------------------------------------------------------------
\* Every sponsorship, bought on the market or founded by a proposal, has paid the
\* price per token of its module's own terms, whatever the configuration said
\* between proposing, minting and sponsoring: finalize_score splits the payment
\* by the module's terms and reverts for good if the price falls short of them.
PaidAtModulePrice ==
  \A s \in SponsorIds :
    LET p == sponsorships[s] IN
    p # None /\ modules[p.module] # None =>
      p.price_per_token = price_per_token(modules[p.module].terms, Decimals[p.asset])

\* A module founded by a proposal obeys the same accounts as one created directly:
\* its tokens are its allocations and those in delivery, and its bookings' payments
\* are in the escrows of open sponsorships.
FoundedModulesSound == TokensAccounted /\ BookingsBacked /\ EscrowsExact

\* The XCAV each proposal keeps in the vault, its stake or the bond of its build,
\* and the voting power locked on it.
Pledged    == [id \in P!ProposalIds |-> P!Staked(id) + P!Bonded(id)]
VotesOf    == [id \in P!ProposalIds |-> SumFunction(P!VotesOn(id))]

\* The one XCAV vault holds exactly what both components keep in it: the deposits
\* of open modules, bookings and deliverers, the stakes of proposals being voted
\* on, the bonds of builds under way and the votes not unlocked.  A bond becomes
\* the deposit of the module it built to the unit.
VaultShared ==
  vault = SumFunction(Deposits(modules)) + SumFunction(Deposits(bookings))
          + SumFunction(Deposits(deliverers))
          + SumFunction(Pledged) + SumFunction(VotesOf)
=============================================================================
