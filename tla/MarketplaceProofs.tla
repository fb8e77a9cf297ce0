-------------------------- MODULE MarketplaceProofs --------------------------
(***************************************************************************)
(* The whole real-x-education program, for any number of users, modules,   *)
(* bookings and proposals: delivery market and proposals stay sound over   *)
(* one vault, and a module founded by a proposal is as good as any other.  *)
(*                                                                         *)
(* What DeliveryProofs and ProposalProofs show of each component alone is  *)
(* kept, up to what they share.  BInv says of the market all but the vault *)
(* and survives a step of the other side that changes no account of the    *)
(* market (ProposeApart); the invariant PInv of Proposals survives a step  *)
(* of the market, which only moves the clock, the Config, the roles and    *)
(* the vault (DeliverRests); minting is a step of Proposals that founds a  *)
(* module (FoundWell).  What couples them is Shared: the XCAV in the vault *)
(* beyond the market's deposits is what proposals keep there.              *)
(* Tallies and the progress of proposals also need that locked and slashed *)
(* XCAV is within the supply, which a transfer of the market keeps.        *)
(*                                                                         *)
(* ProposalProofs is instantiated as Marketplace instantiates Proposals,   *)
(* so each operator of Proposals is here twice, as P!Op and as PP!Op; they *)
(* are the same by their definitions, which the first lemmas establish.    *)
(***************************************************************************)
EXTENDS Marketplace, DeliveryProofs

PP == INSTANCE ProposalProofs WITH
  config  <- ProposalParams[config],
  Configs <- {ProposalParams[c] : c \in Configs},
  next_id <- next_proposal_id,
  escrow  <- proposal_escrow,
  stray   <- proposal_stray,
  Horizon <- ProposeUntil

(* P!Op and PP!Op are the same *)

LEMMA SameTypes ==
  /\ PP!Bps = Bps /\ PP!Terms = Terms /\ PP!RoleNames = RoleNames
  /\ PP!ProposerRoles = P!ProposerRoles /\ PP!Ballots = P!Ballots
  /\ PP!ProposalIds = P!ProposalIds /\ PP!ConfigParams = P!ConfigParams
  /\ PP!Proposal = P!Proposal /\ PP!VoteRecord = P!VoteRecord /\ PP!Minted = P!Minted
  <1>1. PP!Bps = Bps /\ PP!Bps = P!Bps
    BY DEF PP!Bps, Bps, P!Bps
  <1>2. PP!Terms = Terms /\ PP!Terms = P!Terms
    BY <1>1 DEF PP!Terms, Terms, P!Terms, PP!Fees, Fees, P!Fees
  <1>3. PP!ProposerRoles = P!ProposerRoles /\ PP!Ballots = P!Ballots
        /\ PP!ProposalIds = P!ProposalIds /\ PP!Statuses = P!Statuses
    BY DEF PP!ProposerRoles, P!ProposerRoles, PP!Ballots, P!Ballots,
           PP!ProposalIds, P!ProposalIds, PP!Statuses, P!Statuses
  <1>4. PP!RoleNames = RoleNames
    BY DEF PP!RoleNames, RoleNames, PP!ProposerRoles
  <1>5. PP!ConfigParams = P!ConfigParams
    BY <1>1, <1>2 DEF PP!ConfigParams, P!ConfigParams
  <1>6. PP!Proposal = P!Proposal /\ PP!VoteRecord = P!VoteRecord /\ PP!Minted = P!Minted
    BY <1>2, <1>3 DEF PP!Proposal, P!Proposal, PP!VoteRecord, P!VoteRecord,
                      PP!Minted, P!Minted
  <1> QED BY <1>1, <1>2, <1>3, <1>4, <1>5, <1>6

\* What ProposalProofs assumes of the constants holds of those it is given here.
LEMMA Assumed ==
  /\ {MaxProposals, MaxStray, MaxTime, ProposeUntil} \subseteq Nat
  /\ {XcavSupply, I64Max, MaxBanned} \subseteq Nat
  /\ Voters \subseteq Users
  /\ TokenCounts \subseteq 1..U64Max /\ Powers \subseteq 0..U64Max
  /\ InitialRoles \subseteq Users \X PP!RoleNames
  /\ RoleChanges \subseteq Users \X PP!RoleNames
  /\ {ProposalParams[c] : c \in Configs} # {}
  /\ {ProposalParams[c] : c \in Configs} \subseteq PP!ConfigParams
  /\ PP!IsFiniteSet(Users)
  /\ XcavSupply <= U64Max
  /\ Decimals \in [Assets -> Nat]
  /\ \A a \in Assets : 10^Decimals[a] \in Nat
  /\ None \notin Users \cup Assets \cup Nat \cup PP!Proposal \cup PP!VoteRecord \cup PP!Minted
  <1>1. /\ {MaxProposals, MaxStray, MaxTime, ProposeUntil} \subseteq Nat
        /\ {XcavSupply, I64Max, MaxBanned} \subseteq Nat
    BY BoundsAssumption, ProposalsAssumption
  <1>2. /\ InitialRoles \subseteq Users \X PP!RoleNames
        /\ RoleChanges \subseteq Users \X PP!RoleNames
    BY InputsAssumption, SameTypes
  <1>3. /\ {ProposalParams[c] : c \in Configs} # {}
        /\ {ProposalParams[c] : c \in Configs} \subseteq PP!ConfigParams
    BY InputsAssumption, ParamsAssumption, SameTypes
  <1>4. PP!IsFiniteSet(Users)
    BY UsersAssumption DEF PP!IsFiniteSet, IsFiniteSet
  <1>5. Decimals \in [Assets -> Nat] /\ \A a \in Assets : 10^Decimals[a] \in Nat
    BY DecimalsAssumption
  <1>6. None \notin Users \cup Assets \cup Nat \cup PP!Proposal \cup PP!VoteRecord
                    \cup PP!Minted
    BY NoneAssumption, ProposalsAssumption, SameTypes
  <1> QED BY <1>1, <1>2, <1>3, <1>4, <1>5, <1>6, ProposalsAssumption

\* Hence what it proves of Proposals, of its next-state relation for one.
LEMMA ProposalStep == PP!PInv /\ [PP!Next]_(PP!vars) => PP!PInv'
  BY PP!PInvStep, Assumed, WidthAssumption

LEMMA ProposalInit == PP!Init => PP!PInv
  BY PP!PInvInit, Assumed, WidthAssumption

LEMMA PriceSame ==
  ASSUME NEW terms, NEW decimals
  PROVE  /\ P!price_per_token(terms, decimals) = price_per_token(terms, decimals)
         /\ PP!price_per_token(terms, decimals) = price_per_token(terms, decimals)
  <1>1. P!price_per_token(terms, decimals) = price_per_token(terms, decimals)
    BY DEF P!price_per_token, price_per_token, P!TokenPrice, TokenPrice,
           P!scale_to_asset, scale_to_asset, P!fee_parts, fee_parts, P!fee_ceil, fee_ceil
  <1>2. PP!price_per_token(terms, decimals) = price_per_token(terms, decimals)
    BY DEF PP!price_per_token, price_per_token, PP!TokenPrice, TokenPrice,
           PP!scale_to_asset, scale_to_asset, PP!fee_parts, fee_parts, PP!fee_ceil, fee_ceil
  <1> QED BY <1>1, <1>2

LEMMA FitsSame ==
  ASSUME NEW terms, NEW decimals
  PROVE  /\ P!PriceFits(terms, decimals) <=> PriceFits(terms, decimals)
         /\ PP!PriceFits(terms, decimals) <=> PriceFits(terms, decimals)
  <1>1. P!PriceFits(terms, decimals) <=> PriceFits(terms, decimals)
    BY DEF P!PriceFits, PriceFits, P!TokenPrice, TokenPrice, P!PartsFit, PartsFit,
           P!scale_to_asset, scale_to_asset, P!fee_parts, fee_parts, P!fee_ceil, fee_ceil,
           P!FeeFits, FeeFits
  <1>2. PP!PriceFits(terms, decimals) <=> PriceFits(terms, decimals)
    BY DEF PP!PriceFits, PriceFits, PP!TokenPrice, TokenPrice, PP!PartsFit, PartsFit,
           PP!scale_to_asset, scale_to_asset, PP!fee_parts, fee_parts, PP!fee_ceil, fee_ceil,
           PP!FeeFits, FeeFits
  <1> QED BY <1>1, <1>2

LEMMA SumSame == \A f : PP!SumFunction(f) = SumFunction(f)
  BY DEF PP!SumFunction, SumFunction, PP!SumFunctionOnSet, SumFunctionOnSet,
         PP!FoldFunctionOnSet, FoldFunctionOnSet, PP!MapThenFoldSet, MapThenFoldSet

LEMMA CreateSame ==
  ASSUME NEW u, NEW role, NEW n, P!CreateModuleProposal(u, role, n)
  PROVE  PP!CreateModuleProposal(u, role, n)
  BY DEF P!CreateModuleProposal, PP!CreateModuleProposal, P!HasRole,
         PP!HasRole, P!Lockable, PP!Lockable, P!NewProposal, PP!NewProposal,
         P!After, PP!After, P!Ballots, PP!Ballots, P!envVars, PP!envVars

LEMMA SponsorSame ==
  ASSUME NEW u, NEW n, NEW a, P!CreateSponsorProposal(u, n, a)
  PROVE  PP!CreateSponsorProposal(u, n, a)
  <1>1. P!NewProposal(u, "ModuleSponsor", n) = PP!NewProposal(u, "ModuleSponsor", n)
    BY DEF P!NewProposal, PP!NewProposal, P!After, PP!After, P!Ballots, PP!Ballots
  <1> QED BY <1>1, PriceSame, FitsSame
          DEF P!CreateSponsorProposal, PP!CreateSponsorProposal, P!HasRole, PP!HasRole,
              P!Lockable, PP!Lockable, P!envVars, PP!envVars

LEMMA VoteSame ==
  ASSUME NEW u, NEW id, NEW vote, NEW amount, P!VoteOnProposal(u, id, vote, amount)
  PROVE  PP!VoteOnProposal(u, id, vote, amount)
  BY DEF P!VoteOnProposal, PP!VoteOnProposal, P!Retract, PP!Retract,
         P!envVars, PP!envVars

LEMMA UnlockSame ==
  ASSUME NEW u, NEW id, P!UnlockProposalVote(u, id)
  PROVE  PP!UnlockProposalVote(u, id)
  BY DEF P!UnlockProposalVote, PP!UnlockProposalVote, P!MayUnlock,
         PP!MayUnlock, P!envVars, PP!envVars

LEMMA FinalizeSame ==
  ASSUME NEW id, P!FinalizeProposal(id)
  PROVE  PP!FinalizeProposal(id)
  BY DEF P!FinalizeProposal, PP!FinalizeProposal, P!MayFinalize,
         PP!MayFinalize, P!Passes, PP!Passes, P!After, PP!After, P!envVars,
         PP!envVars

LEMMA ClaimSame ==
  ASSUME NEW u, NEW id, P!ClaimProposal(u, id)
  PROVE  PP!ClaimProposal(u, id)
  BY DEF P!ClaimProposal, PP!ClaimProposal, P!HasRole, PP!HasRole, P!MayBuild,
         PP!MayBuild, P!Lockable, PP!Lockable, P!Reserved, PP!Reserved,
         P!After, PP!After, P!envVars, PP!envVars

LEMMA UploadSame ==
  ASSUME NEW u, NEW id, P!UploadProposal(u, id)
  PROVE  PP!UploadProposal(u, id)
  BY DEF P!UploadProposal, PP!UploadProposal, P!envVars, PP!envVars,
         P!xcavVars, PP!xcavVars

LEMMA ReleaseSame ==
  ASSUME NEW id, P!ReleaseClaim(id)
  PROVE  PP!ReleaseClaim(id)
  BY DEF P!ReleaseClaim, PP!ReleaseClaim, P!MayRelease, PP!MayRelease,
         P!SlashBond, PP!SlashBond, P!Vacated, PP!Vacated, P!envVars,
         PP!envVars

LEMMA ReviewSame ==
  ASSUME NEW u, NEW id, NEW passed, P!ReviewProposal(u, id, passed)
  PROVE  PP!ReviewProposal(u, id, passed)
  BY DEF P!ReviewProposal, PP!ReviewProposal, P!HasRole, PP!HasRole, P!After,
         PP!After, P!envVars, PP!envVars, P!Vacated, PP!Vacated, P!SlashBond,
         PP!SlashBond, P!xcavVars, PP!xcavVars, P!Cardinality, PP!Cardinality

LEMMA ExpireSame ==
  ASSUME NEW id, P!ExpireProposal(id)
  PROVE  PP!ExpireProposal(id)
  BY DEF P!ExpireProposal, PP!ExpireProposal, P!MayExpire, PP!MayExpire,
         P!ExpiresAt, PP!ExpiresAt, P!SlashBond, PP!SlashBond, P!Vacated,
         PP!Vacated, P!envVars, PP!envVars

LEMMA ReclaimSame ==
  ASSUME NEW u, NEW id, P!ReclaimPreSponsor(u, id)
  PROVE  PP!ReclaimPreSponsor(u, id)
  BY DEF P!ReclaimPreSponsor, PP!ReclaimPreSponsor, P!MayReclaim,
         PP!MayReclaim, P!EscrowCloses, PP!EscrowCloses, P!pre_sponsor_locked,
         PP!pre_sponsor_locked, P!envVars, PP!envVars, P!xcavVars, PP!xcavVars

LEMMA ClearSame ==
  ASSUME NEW id, P!ClearProposal(id)
  PROVE  PP!ClearProposal(id)
  BY DEF P!ClearProposal, PP!ClearProposal, P!MayClear, PP!MayClear,
         P!Clearable, PP!Clearable, P!envVars, PP!envVars, P!xcavVars,
         PP!xcavVars

LEMMA StraySame ==
  ASSUME NEW id, P!StrayTransfer(id)
  PROVE  PP!StrayTransfer(id)
  BY DEF P!StrayTransfer, PP!StrayTransfer, P!envVars, PP!envVars, P!xcavVars,
         PP!xcavVars

LEMMA MintProposedSame ==
  ASSUME NEW u, NEW id, P!MintProposedModule(u, id)
  PROVE  PP!MintProposedModule(u, id)
  BY DEF P!MintProposedModule, PP!MintProposedModule, P!Mint, PP!Mint,
         P!HasRole, PP!HasRole, P!MintedModule, PP!MintedModule,
         P!write_module, PP!write_module, P!pre_sponsor_locked,
         PP!pre_sponsor_locked, P!envVars, PP!envVars, P!xcavVars, PP!xcavVars

LEMMA MintSponsoredSame ==
  ASSUME NEW u, NEW id, P!MintSponsoredModule(u, id)
  PROVE  PP!MintSponsoredModule(u, id)
  BY DEF P!MintSponsoredModule, PP!MintSponsoredModule, P!Mint, PP!Mint,
         P!HasRole, PP!HasRole, P!MintedModule, PP!MintedModule,
         P!write_module, PP!write_module, P!pre_sponsor_locked,
         PP!pre_sponsor_locked, P!EscrowCloses, PP!EscrowCloses, P!envVars,
         PP!envVars, P!xcavVars, PP!xcavVars

\* An instruction on a proposal is one of Proposals.
LEMMA ProposeIs ==
  ASSUME Propose
  PROVE  PP!Next
  <1>1. \A u \in Users, n \in TokenCounts :
          /\ \A role \in P!ProposerRoles : P!CreateModuleProposal(u, role, n) => PP!Next
          /\ \A a \in Assets : P!CreateSponsorProposal(u, n, a) => PP!Next
    BY CreateSame, SponsorSame, SameTypes DEF PP!Next
  <1>2. \A u \in Users, id \in P!ProposalIds :
          /\ P!ClaimProposal(u, id) => PP!Next
          /\ P!UploadProposal(u, id) => PP!Next
          /\ \A passed \in BOOLEAN : P!ReviewProposal(u, id, passed) => PP!Next
          /\ P!ReclaimPreSponsor(u, id) => PP!Next
          /\ P!UnlockProposalVote(u, id) => PP!Next
    BY ClaimSame, UploadSame, ReviewSame, ReclaimSame, UnlockSame, SameTypes DEF PP!Next
  <1>3. \A u \in Voters, id \in P!ProposalIds, vote \in P!Ballots, amount \in Powers :
          P!VoteOnProposal(u, id, vote, amount) => PP!Next
    BY VoteSame, SameTypes DEF PP!Next
  <1>4. \A id \in P!ProposalIds :
          /\ P!FinalizeProposal(id) => PP!Next
          /\ P!ReleaseClaim(id) => PP!Next
          /\ P!ExpireProposal(id) => PP!Next
          /\ P!ClearProposal(id) => PP!Next
          /\ P!StrayTransfer(id) => PP!Next
    BY FinalizeSame, ReleaseSame, ExpireSame, ClearSame, StraySame, SameTypes DEF PP!Next
  <1> QED BY <1>1, <1>2, <1>3, <1>4 DEF Propose
-----------------------------------------------------------------------------
(* A module founded by a proposal *)

\* A new module with nothing in delivery, and its tokens in its vault.
NewModule(r) ==
  /\ r \in Module /\ r.student_allocation = 0
  /\ next_id.module < MaxModules
  /\ modules' = [modules EXCEPT ![next_id.module] = r]
  /\ module_vault' = [module_vault EXCEPT ![next_id.module] =
                        r.sponsor_allocation + r.school_allocation]
  /\ UNCHANGED <<envVars, bookingVars, stray, deliverers, cancelVars, credentials, xcavVars>>

\* A new sponsorship of that module, at the price of its terms.
NewOffer(r, p) ==
  /\ p \in Sponsorship /\ p.module = next_id.module /\ p.active_bookings = 0
  /\ PriceFits(r.terms, Decimals[p.asset])
  /\ p.price_per_token = price_per_token(r.terms, Decimals[p.asset])
  /\ next_id.sponsor < MaxSponsorships
  /\ sponsorships' = [sponsorships EXCEPT ![next_id.sponsor] = p]
  /\ sponsor_escrow' = [sponsor_escrow EXCEPT ![next_id.sponsor] =
                          p.price_per_token * p.amount]

Offered(r) ==
  \/ /\ UNCHANGED sponsorVars
     /\ next_id' = [next_id EXCEPT !.module = @ + 1]
  \/ /\ \E p : NewOffer(r, p)
     /\ next_id' = [next_id EXCEPT !.module = @ + 1, !.sponsor = @ + 1]

\* What a founding leaves as it was.
LEMMA FoundApart ==
  ASSUME BInv, NEW r, NewModule(r), Offered(r)
  PROVE  /\ next_id.module \in ModuleIds /\ next_id.module \in Nat /\ next_id.sponsor \in Nat
         /\ next_id' \in [module : Nat, sponsor : Nat, booking : Nat]
         /\ next_id'.module = next_id.module + 1 /\ next_id'.booking = next_id.booking
         /\ next_id'.sponsor >= next_id.sponsor
         /\ modules[next_id.module] = None /\ module_vault[next_id.module] = 0
         /\ modules'[next_id.module] = r /\ r # None
         /\ module_vault'[next_id.module] = r.sponsor_allocation + r.school_allocation
         /\ \A i \in ModuleIds : i # next_id.module =>
              modules'[i] = modules[i] /\ module_vault'[i] = module_vault[i]
         /\ \A i \in SponsorIds : i # next_id.sponsor =>
              sponsorships'[i] = sponsorships[i] /\ sponsor_escrow'[i] = sponsor_escrow[i]
  <1>1. TypeOK /\ FreshModules /\ Ledger
    BY DEF BInv, LInv, Base, EInv
  <1>2. next_id.module \in ModuleIds /\ next_id.module \in Nat /\ next_id.sponsor \in Nat
    BY <1>1, BoundsAssumption DEF TypeOK, NewModule, ModuleIds
  <1>3. /\ next_id' \in [module : Nat, sponsor : Nat, booking : Nat]
        /\ next_id'.module = next_id.module + 1 /\ next_id'.booking = next_id.booking
        /\ next_id'.sponsor >= next_id.sponsor
    <2>1. next_id \in [module : Nat, sponsor : Nat, booking : Nat]
      BY <1>1 DEF TypeOK
    <2>2. CASE next_id' = [next_id EXCEPT !.module = @ + 1]
      BY <2>1, <2>2
    <2>3. CASE next_id' = [next_id EXCEPT !.module = @ + 1, !.sponsor = @ + 1]
      <3>1. /\ next_id'.module = next_id.module + 1 /\ next_id'.booking = next_id.booking
            /\ next_id'.sponsor = next_id.sponsor + 1
        BY <2>1, <2>3
      <3>2. next_id' = [module |-> next_id'.module, sponsor |-> next_id'.sponsor,
                        booking |-> next_id'.booking]
        BY <2>1, <2>3
      <3>3. next_id'.module \in Nat /\ next_id'.sponsor \in Nat /\ next_id'.booking \in Nat
        BY <2>1, <3>1
      <3> QED BY <1>2, <3>1, <3>2, <3>3
    <2> QED BY <2>2, <2>3 DEF Offered
  <1>4. modules[next_id.module] = None /\ module_vault[next_id.module] = 0
    BY <1>1, <1>2 DEF FreshModules, Ledger
  <1>5. /\ modules'[next_id.module] = r
        /\ module_vault'[next_id.module] = r.sponsor_allocation + r.school_allocation
        /\ \A i \in ModuleIds : i # next_id.module =>
             modules'[i] = modules[i] /\ module_vault'[i] = module_vault[i]
    BY <1>1, <1>2 DEF TypeOK, NewModule
  <1>6. r # None
    BY NoneAssumption DEF NewModule
  <1>7. ASSUME NEW i \in SponsorIds, i # next_id.sponsor
        PROVE  sponsorships'[i] = sponsorships[i] /\ sponsor_escrow'[i] = sponsor_escrow[i]
    BY <1>1, <1>7 DEF TypeOK, Offered, NewOffer, sponsorVars
  <1> QED BY <1>2, <1>3, <1>4, <1>5, <1>6, <1>7

\* The sponsorship at the id that a founding hands out, if it does.
LEMMA FoundOffer ==
  ASSUME BInv, NEW r, NewModule(r), NEW p, NewOffer(r, p)
  PROVE  /\ next_id.sponsor \in SponsorIds
         /\ p \in Sponsorship /\ p # None /\ p.price_per_token * p.amount \in Nat
         /\ sponsorships[next_id.sponsor] = None
         /\ stray.sponsor[next_id.sponsor] = 0
         /\ sponsorships'[next_id.sponsor] = p
         /\ sponsor_escrow'[next_id.sponsor] = p.price_per_token * p.amount
  <1>1. TypeOK /\ Fresh
    BY DEF BInv, LInv, Base, EInv
  <1>2. next_id.sponsor \in SponsorIds
    BY <1>1, BoundsAssumption DEF TypeOK, NewOffer, SponsorIds
  <1>3. sponsorships[next_id.sponsor] = None /\ stray.sponsor[next_id.sponsor] = 0
    BY <1>1, <1>2 DEF Fresh, FreshSponsorship, SponsorIds
  <1>4. p \in Sponsorship /\ p # None
    BY NoneAssumption DEF NewOffer
  <1>5. p.price_per_token * p.amount \in Nat
    BY <1>4, ProductNat DEF Sponsorship
  <1>6. /\ sponsorships'[next_id.sponsor] = p
        /\ sponsor_escrow'[next_id.sponsor] = p.price_per_token * p.amount
    BY <1>1, <1>2 DEF TypeOK, NewOffer
  <1> QED BY <1>2, <1>3, <1>4, <1>5, <1>6

LEMMA FoundTyped ==
  ASSUME BInv, NEW r, NewModule(r), Offered(r)
  PROVE  TypeOK'
  <1>1. TypeOK /\ next_id.module \in ModuleIds
    BY FoundApart DEF BInv, LInv, Base, EInv
  <1>2. next_id' \in [module : Nat, sponsor : Nat, booking : Nat]
    BY FoundApart
  <1>3. modules' \in [ModuleIds -> Module \cup {None}] /\ module_vault' \in [ModuleIds -> Nat]
    BY <1>1 DEF TypeOK, NewModule, Module
  <1>4. /\ sponsorships' \in [SponsorIds -> Sponsorship \cup {None}]
        /\ sponsor_escrow' \in [SponsorIds -> Nat \cup {None}]
    <2>1. CASE UNCHANGED sponsorVars
      BY <1>1, <2>1 DEF TypeOK, sponsorVars
    <2>2. ASSUME NEW p, NewOffer(r, p)
          PROVE  /\ sponsorships' \in [SponsorIds -> Sponsorship \cup {None}]
                 /\ sponsor_escrow' \in [SponsorIds -> Nat \cup {None}]
      <3>1. p \in Sponsorship /\ p.price_per_token * p.amount \in Nat
        BY <2>2, FoundOffer
      <3> QED BY <1>1, <2>2, <3>1 DEF TypeOK, NewOffer
    <2> QED BY <2>1, <2>2 DEF Offered
  <1>5. UNCHANGED <<envVars, bookingVars, stray, deliverers, cancelVars, credentials, xcavVars>>
    BY DEF NewModule
  <1> QED BY <1>1, <1>2, <1>3, <1>4, <1>5
          DEF TypeOK, envVars, bookingVars, cancelVars, xcavVars

LEMMA FoundBase ==
  ASSUME BInv, NEW r, NewModule(r), Offered(r)
  PROVE  Base'
  <1>1. /\ TypeOK /\ TypeOK' /\ Fresh /\ SamePrice /\ Shapes
        /\ \A s \in SponsorIds : SponsorExact(s)
        /\ \A b \in BookingIds : BookingExact(b)
    BY FoundTyped DEF BInv, LInv, Base, EInv
  <1>2. UNCHANGED <<bookings, booking_escrow, stray>> /\ next_id'.booking = next_id.booking
    BY FoundApart DEF NewModule, bookingVars
  <1>3. next_id'.sponsor \in Nat /\ next_id.sponsor \in Nat /\ next_id'.sponsor >= next_id.sponsor
    BY FoundApart
  <1>4. Shapes' /\ \A b \in BookingIds : BookingExact(b)' /\ FreshBooking(b)'
    BY <1>1, <1>2 DEF Shapes, BookingExact, Fresh, FreshBooking
  <1>5. ASSUME NEW s \in SponsorIds
        PROVE  SponsorExact(s)' /\ FreshSponsorship(s)'
    <2>1. CASE s # next_id.sponsor
      <3>1. sponsorships'[s] = sponsorships[s] /\ sponsor_escrow'[s] = sponsor_escrow[s]
        BY <2>1, FoundApart
      <3>2. s >= next_id'.sponsor => s >= next_id.sponsor
        BY <1>3 DEF SponsorIds
      <3> QED BY <1>1, <1>2, <3>1, <3>2 DEF SponsorExact, Fresh, FreshSponsorship
    <2>2. CASE UNCHANGED sponsorVars /\ next_id'.sponsor = next_id.sponsor
      BY <1>1, <1>2, <2>2 DEF SponsorExact, Fresh, FreshSponsorship, sponsorVars
    <2>3. ASSUME s = next_id.sponsor, NEW p, NewOffer(r, p),
                 next_id'.sponsor = next_id.sponsor + 1
          PROVE  SponsorExact(s)' /\ FreshSponsorship(s)'
      <3>1. /\ sponsorships'[s] = p /\ p # None /\ stray'.sponsor[s] = 0
            /\ sponsor_escrow'[s] = p.price_per_token * p.amount
            /\ p.price_per_token * p.amount \in Nat
        BY <1>2, <2>3, FoundOffer
      <3>2. ~(s >= next_id'.sponsor)
        BY <1>3, <2>3
      <3> QED BY <3>1, <3>2 DEF SponsorExact, FreshSponsorship
    <2> QED BY <1>1, <2>1, <2>2, <2>3 DEF Offered, TypeOK
  <1>6. ASSUME NEW b \in BookingIds PROVE SamePriceAt(b)'
    <2> SUFFICES ASSUME bookings[b] # None PROVE SamePriceAt(b)'
      BY <1>2 DEF SamePriceAt
    <2>1. bookings[b].sponsorship \in SponsorIds /\ bookings'[b] = bookings[b]
      BY <1>1, <1>2 DEF TypeOK, Booking
    <2>2. bookings[b].sponsorship < next_id.sponsor /\ SamePriceAt(b)
      BY <1>1 DEF SamePrice, SamePriceAt
    <2>3. /\ bookings[b].sponsorship < next_id'.sponsor
          /\ bookings[b].sponsorship # next_id.sponsor
      BY <1>3, <2>1, <2>2 DEF SponsorIds
    <2>4. sponsorships'[bookings[b].sponsorship] = sponsorships[bookings[b].sponsorship]
      BY <2>1, <2>3, FoundApart
    <2> QED BY <2>1, <2>2, <2>3, <2>4 DEF SamePriceAt
  <1> QED BY <1>1, <1>4, <1>5, <1>6 DEF Base, EInv, Fresh, SamePrice

LEMMA FoundLedger ==
  ASSUME BInv, NEW r, NewModule(r), Offered(r)
  PROVE  Ledger' /\ FreshModules'
  <1>1. /\ Base /\ Base' /\ Ledger /\ FreshModules /\ CountersTyped
    BY FoundBase, CountersNat DEF BInv, LInv, Base, EInv
  <1>2. UNCHANGED <<bookings, deliverers>>
    BY DEF NewModule, bookingVars
  <1>3. FreshModules'
    <2> SUFFICES ASSUME NEW m \in ModuleIds, m >= next_id'.module PROVE modules'[m] = None
      BY DEF FreshModules
    <2>1. m >= next_id.module /\ m # next_id.module
      BY FoundApart DEF ModuleIds
    <2> QED BY <1>1, <2>1, FoundApart DEF FreshModules
  <1>4. \A s \in SponsorIds : Active(s)' = Active(s)
    <2> SUFFICES ASSUME NEW s \in SponsorIds PROVE Active(s)' = Active(s)
      OBVIOUS
    <2>1. CASE s # next_id.sponsor \/ UNCHANGED sponsorVars
      BY <2>1, FoundApart DEF Active, sponsorVars
    <2>2. ASSUME s = next_id.sponsor, NEW p, NewOffer(r, p) PROVE Active(s)' = Active(s)
      <3>1. sponsorships[s] = None /\ sponsorships'[s] = p /\ p.active_bookings = 0
        BY <2>2, FoundOffer DEF NewOffer
      <3> QED BY <3>1 DEF Active
    <2> QED BY <2>1, <2>2 DEF Offered
  <1>5. ASSUME NEW i \in ModuleIds
        PROVE  /\ Student(i)' = Student(i)
               /\ module_vault'[i] - Unsold(i)' - School(i)'
                    = module_vault[i] - Unsold(i) - School(i)
               /\ modules'[i] = None => module_vault'[i] = 0
    <2>1. CASE i = next_id.module
      <3>1. /\ modules'[i] = r /\ r # None /\ modules[i] = None /\ module_vault[i] = 0
            /\ module_vault'[i] = r.sponsor_allocation + r.school_allocation
        BY <2>1, FoundApart
      <3>2. /\ r.sponsor_allocation \in Nat /\ r.school_allocation \in Nat
            /\ r.student_allocation = 0
        BY DEF NewModule, Module
      <3> QED BY <3>1, <3>2 DEF Student, School, Unsold
    <2>2. CASE i # next_id.module
      <3>1. modules'[i] = modules[i] /\ module_vault'[i] = module_vault[i]
        BY <2>2, FoundApart
      <3> QED BY <1>1, <3>1 DEF Student, School, Unsold, Ledger
    <2> QED BY <2>1, <2>2
  <1>6. /\ \A i \in BookingIds : Unmoved(i)
        /\ \A v \in Users : ClaimsHeld(v)' = ClaimsHeld(v)
    BY <1>2 DEF Unmoved, ClaimsHeld
  <1> QED BY <1>1, <1>3, <1>4, <1>5, <1>6, LedgerKept

LEMMA FoundSold ==
  ASSUME BInv, Sold, NEW r, NewModule(r), Offered(r)
  PROVE  SameSale' /\ Sold'
  <1>1. TypeOK /\ TypeOK' /\ SameSale /\ SamePrice
    BY FoundTyped DEF BInv, LInv, Base, EInv
  <1>2. SameSale'
    <2> SUFFICES ASSUME NEW b \in BookingIds, bookings'[b] # None PROVE SameSaleAt(b)'
      BY DEF SameSale, SameSaleAt
    <2>1. bookings' = bookings /\ bookings[b].sponsorship \in SponsorIds /\ SameSaleAt(b)
      BY <1>1 DEF NewModule, bookingVars, TypeOK, Booking, SameSale
    <2>2. bookings[b].sponsorship < next_id.sponsor
      BY <1>1, <2>1 DEF SamePrice, SamePriceAt
    <2>3. bookings[b].sponsorship # next_id.sponsor
      BY <1>1, <2>1, <2>2 DEF SponsorIds, TypeOK
    <2>4. sponsorships'[bookings[b].sponsorship] = sponsorships[bookings[b].sponsorship]
      BY <2>1, <2>3, FoundApart
    <2> QED BY <2>1, <2>4 DEF SameSaleAt
  <1>3. ASSUME NEW s \in SponsorIds, sponsorships'[s] # None, sponsorships'[s] = sponsorships[s]
        PROVE  SoldAt(s)'
    <2>1. sponsorships[s].module \in ModuleIds /\ SoldAt(s)
      BY <1>1, <1>3 DEF TypeOK, Sponsorship, Sold
    <2>2. sponsorships[s].module < next_id.module /\ next_id.module \in Nat
          /\ next_id'.module = next_id.module + 1
      BY <1>3, <2>1, FoundApart DEF SoldAt
    <2>3. sponsorships[s].module # next_id.module /\ sponsorships[s].module < next_id'.module
      BY <2>1, <2>2 DEF ModuleIds
    <2>4. modules'[sponsorships[s].module] = modules[sponsorships[s].module]
      BY <2>1, <2>3, FoundApart
    <2> QED BY <1>3, <2>1, <2>3, <2>4 DEF SoldAt
  <1>4. ASSUME NEW p, NewOffer(r, p), NEW s \in SponsorIds, s = next_id.sponsor
        PROVE  SoldAt(s)'
    <2>1. /\ sponsorships'[s] = p /\ p.module = next_id.module
          /\ PriceFits(r.terms, Decimals[p.asset])
          /\ p.price_per_token = price_per_token(r.terms, Decimals[p.asset])
      BY <1>4, FoundOffer DEF NewOffer
    <2>2. modules'[next_id.module] = r /\ next_id.module < next_id'.module
      BY FoundApart
    <2> QED BY <2>1, <2>2 DEF SoldAt
  <1>5. Sold'
    <2> SUFFICES ASSUME NEW s \in SponsorIds, sponsorships'[s] # None PROVE SoldAt(s)'
      BY DEF Sold, SoldAt
    <2>1. CASE s # next_id.sponsor \/ UNCHANGED sponsorVars
      BY <1>3, <2>1, FoundApart DEF sponsorVars
    <2>2. ASSUME s = next_id.sponsor, NEW p, NewOffer(r, p) PROVE SoldAt(s)'
      BY <1>4, <2>2
    <2> QED BY <2>1, <2>2 DEF Offered
  <1> QED BY <1>2, <1>5

\* A founded module is as sound as one created directly, and adds its deposit.
LEMMA FoundWell ==
  ASSUME BInv, Sold, NEW r, NewModule(r), Offered(r)
  PROVE  BInv' /\ Sold' /\ Surplus' = Surplus - r.deposit
  <1>1. BInv' /\ Sold'
    BY FoundBase, FoundLedger, FoundSold DEF BInv, LInv
  <1>2. /\ TypeOK /\ TypeOK' /\ DepositsTyped /\ r.deposit \in Nat
        /\ next_id.module \in ModuleIds
    BY FoundTyped, FoundApart, DepositsNat DEF BInv, LInv, Base, EInv, NewModule, Module
  <1>3. /\ \A i \in ModuleIds \ {next_id.module} : modules'[i] = modules[i]
        /\ modules[next_id.module] = None /\ modules'[next_id.module] = r /\ r # None
    BY FoundApart
  <1>4. Deposits(modules)[next_id.module] = 0 /\ Deposits(modules)'[next_id.module] = r.deposit
    BY <1>2, <1>3 DEF TypeOK, Deposits
  <1>5. ModuleDeposits' = ModuleDeposits + r.deposit
    BY <1>2, <1>3, <1>4, ModuleDepositsMove DEF DepositsTyped
  <1>6. UNCHANGED <<bookings, deliverers, vault>>
    BY DEF NewModule, bookingVars, xcavVars
  <1>7. BookingDeposits' = BookingDeposits /\ DelivererDeposits' = DelivererDeposits
    BY <1>6 DEF BookingDeposits, DelivererDeposits
  <1> QED BY <1>1, <1>2, <1>5, <1>6, <1>7 DEF Surplus, DepositsTyped
-----------------------------------------------------------------------------
(* The two components in one step *)

LEMMA InitSame == P!Init => PP!Init
  BY SameTypes DEF P!Init, PP!Init, P!ProposalIds, PP!ProposalIds

\* The delivery market leaves proposals alone: to them only time, parameters,
\* roles and the vault change.
LEMMA DeliverRests ==
  ASSUME TypeOK', PP!PInv, [Next]_vars, UNCHANGED proposalVars
  PROVE  PP!Rests
  <1>1. /\ now' \in Nat /\ config' \in Configs /\ roles' \subseteq Users \X RoleNames
        /\ vault' \in Nat /\ treasury' \in Nat
    BY DEF TypeOK
  <1>2. ProposalParams[config]' \in {ProposalParams[c] : c \in Configs}
    BY <1>1
  <1>3. votes \in [PP!ProposalIds -> [Users -> PP!VoteRecord \cup {None}]]
    BY DEF PP!PInv, PP!IInv, PP!TypeOK
  <1> QED BY <1>1, <1>2, <1>3, SameTypes DEF PP!Rests, PP!MoneyOK, proposalVars

LEMMA RestsSame == PP!PInv /\ PP!Rests => PP!PInv'
  BY PP!RestsWell, Assumed, WidthAssumption

\* An instruction on a proposal leaves the market alone but for the vault.
LEMMA ProposeApart ==
  ASSUME BInv, Sold, Propose, vault' \in Nat, treasury' \in Nat
  PROVE  /\ BInv' /\ Sold' /\ minted' = minted
         /\ UNCHANGED <<modules, bookings, deliverers>>
  <1>1. UNCHANGED <<now, config, roles, next_id, modules, module_vault, sponsorships,
                    sponsor_escrow, bookings, booking_escrow, stray, deliverers,
                    counters, cancellations, credentials>>
    BY DEF Propose, envVars, moduleVars, sponsorVars, bookingVars, cancelVars
  <1>2. TypeOK'
    BY <1>1 DEF BInv, LInv, Base, EInv, TypeOK
  <1>3. Fresh' /\ SamePrice'
    BY <1>1 DEF BInv, LInv, Base, EInv, Fresh, FreshSponsorship, FreshBooking,
                SamePrice, SamePriceAt
  <1>4. /\ \A s \in SponsorIds : SponsorExact(s)'
        /\ \A b \in BookingIds : BookingExact(b)'
    BY <1>1 DEF BInv, LInv, Base, EInv, SponsorExact, BookingExact
  <1>5. Shapes' /\ FreshModules' /\ SameSale' /\ Sold'
    BY <1>1 DEF BInv, LInv, Base, Shapes, FreshModules, SameSale, SameSaleAt, Sold, SoldAt
  <1>6. Ledger'
    BY <1>1 DEF BInv, LInv, Ledger, ClaimsHeld, Active, Student, School, Unsold, ClaimsOf,
                BookingsOf, Unclaimed, InDelivery, LiveBookings
  <1>7. minted' = minted
    <2>1. \A u \in Users, n \in TokenCounts :
            /\ \A role \in P!ProposerRoles :
                 P!CreateModuleProposal(u, role, n) => minted' = minted
            /\ \A a \in Assets : P!CreateSponsorProposal(u, n, a) => minted' = minted
      BY DEF P!CreateModuleProposal, P!CreateSponsorProposal
    <2>2. \A u \in Users, id \in P!ProposalIds :
            /\ P!ClaimProposal(u, id) => minted' = minted
            /\ P!UploadProposal(u, id) => minted' = minted
            /\ \A passed \in BOOLEAN : P!ReviewProposal(u, id, passed) => minted' = minted
            /\ P!ReclaimPreSponsor(u, id) => minted' = minted
            /\ P!UnlockProposalVote(u, id) => minted' = minted
      BY DEF P!ClaimProposal, P!UploadProposal, P!ReviewProposal, P!ReclaimPreSponsor,
             P!UnlockProposalVote
    <2>3. \A u \in Voters, id \in P!ProposalIds, vote \in P!Ballots, amount \in Powers :
            P!VoteOnProposal(u, id, vote, amount) => minted' = minted
      BY DEF P!VoteOnProposal
    <2>4. \A id \in P!ProposalIds :
            /\ P!FinalizeProposal(id) => minted' = minted
            /\ P!ReleaseClaim(id) => minted' = minted
            /\ P!ExpireProposal(id) => minted' = minted
            /\ P!ClearProposal(id) => minted' = minted
            /\ P!StrayTransfer(id) => minted' = minted
      BY DEF P!FinalizeProposal, P!ReleaseClaim, P!ExpireProposal, P!ClearProposal,
             P!StrayTransfer
    <2> QED BY <2>1, <2>2, <2>3, <2>4 DEF Propose
  <1> QED BY <1>1, <1>2, <1>3, <1>4, <1>5, <1>6, <1>7 DEF BInv, LInv, Base, EInv

\* What minting reads of an approved proposal.
LEMMA MintRecord ==
  ASSUME PP!PInv, NEW u \in Users, NEW id \in P!ProposalIds, P!Mint(u, id)
  PROVE  LET p == proposals[id]
             new == minted'[id]
         IN  /\ p \in PP!Proposal /\ p # None
             /\ new.creator = u /\ new.deposit = p.bond /\ new.terms = p.terms
             /\ new.total = new.sponsor_allocation + new.school_allocation
             /\ new.sponsor_allocation \in Nat
             /\ new.school_allocation = p.pre_sponsor_amount
             /\ new.price_per_token = p.pre_sponsor_price
             /\ new.sponsor_escrow = p.pre_sponsor_price * p.pre_sponsor_amount
             /\ p.pre_sponsor_amount > 0 => new.sponsor = p.proposer
             /\ PP!Quoted(p)
             /\ minted[id] = None /\ new # None
             /\ \A i \in P!ProposalIds : i # id => minted'[i] = minted[i]
             /\ UNCHANGED <<vault, treasury>>
  <1> DEFINE p == proposals[id]
             new == P!MintedModule(u, p)
  <1>1. /\ id \in PP!ProposalIds /\ p # None
        /\ minted' = [minted EXCEPT ![id] = new]
        /\ UNCHANGED <<vault, treasury>>
    BY SameTypes DEF P!Mint, P!xcavVars
  <1>2. /\ p \in PP!Proposal /\ minted \in [PP!ProposalIds -> PP!Minted \cup {None}]
        /\ PP!Kept(id) /\ PP!Covered(id)
    BY <1>1 DEF PP!PInv, PP!IInv, PP!TypeOK, PP!PreSponsorshipKept
  <1>3. minted[id] = None /\ p.pre_sponsor_amount <= p.amount /\ PP!Quoted(p)
    BY <1>1, <1>2 DEF PP!Kept, PP!Covered
  <1>4. minted'[id] = new /\ \A i \in P!ProposalIds : i # id => minted'[i] = minted[i]
    BY <1>1, <1>2, SameTypes
  <1>5. p.amount \in Nat /\ p.pre_sponsor_amount \in Nat /\ p.pre_sponsor_price \in Nat
    BY <1>2 DEF PP!Proposal
  <1>6. /\ new.creator = u /\ new.deposit = p.bond /\ new.terms = p.terms
        /\ new.total = p.amount
        /\ new.sponsor_allocation = IF p.pre_sponsor_amount <= p.amount
                                    THEN p.amount - p.pre_sponsor_amount ELSE 0
        /\ new.school_allocation = p.pre_sponsor_amount
        /\ new.price_per_token = p.pre_sponsor_price
        /\ new.sponsor_escrow = p.pre_sponsor_price * p.pre_sponsor_amount
        /\ new.sponsor = IF p.pre_sponsor_amount = 0 THEN None ELSE p.proposer
    BY DEF P!MintedModule, P!write_module, P!pre_sponsor_locked
  <1>7. new # None
    <2>1. p.bond \in Nat /\ p.terms \in PP!Terms /\ p.proposer \in Users
      BY <1>2 DEF PP!Proposal
    <2>2. p.pre_sponsor_price * p.pre_sponsor_amount \in Nat
      BY <1>5, ProductNat
    <2>3. new \in PP!Minted
      BY <1>3, <1>5, <2>1, <2>2
         DEF PP!Minted, P!MintedModule, P!write_module, P!pre_sponsor_locked
    <2> QED BY <2>3, Assumed
  <1> HIDE DEF new
  <1> QED BY <1>1, <1>2, <1>3, <1>4, <1>5, <1>6, <1>7

\* Minting founds a module with the bond as its deposit, and opens a sponsorship
\* for an advance payment.
LEMMA MintFounds ==
  ASSUME BInv, PP!PInv, NEW u \in Users, NEW id \in P!ProposalIds,
         MintProposedModule(u, id) \/ MintSponsoredModule(u, id)
  PROVE  \E r : NewModule(r) /\ Offered(r) /\ r.deposit = proposals[id].bond
  <1> DEFINE p == proposals[id]
             new == minted'[id]
             r == [creator |-> new.creator, deposit |-> new.deposit, terms |-> new.terms,
                   sponsor_allocation |-> new.sponsor_allocation,
                   school_allocation |-> new.school_allocation, student_allocation |-> 0]
  <1>1. P!Mint(u, id) /\ AddModule(id) /\ UNCHANGED envVars
    BY DEF MintProposedModule, MintSponsoredModule, P!MintProposedModule,
           P!MintSponsoredModule
  <1>2. TypeOK
    BY DEF BInv, LInv, Base, EInv
  <1>3. /\ p \in PP!Proposal /\ new.creator = u /\ new.deposit = p.bond
        /\ new.terms = p.terms
        /\ new.total = new.sponsor_allocation + new.school_allocation
        /\ new.sponsor_allocation \in Nat
        /\ new.school_allocation = p.pre_sponsor_amount
        /\ new.price_per_token = p.pre_sponsor_price
        /\ new.sponsor_escrow = p.pre_sponsor_price * p.pre_sponsor_amount
        /\ p.pre_sponsor_amount > 0 => new.sponsor = p.proposer
        /\ PP!Quoted(p)
        /\ UNCHANGED <<vault, treasury>>
    BY <1>1, MintRecord
  <1>4. /\ p.bond \in Nat /\ p.terms \in Terms /\ p.pre_sponsor_amount \in Nat
        /\ p.pre_sponsor_price \in Nat /\ p.proposer \in Users
    BY <1>3, SameTypes DEF PP!Proposal
  <1>5. /\ r \in Module /\ r.student_allocation = 0 /\ r.deposit = p.bond
        /\ r.terms = p.terms
        /\ r.sponsor_allocation + r.school_allocation = new.total
    <2>1. r = [creator |-> u, deposit |-> p.bond, terms |-> p.terms,
               sponsor_allocation |-> new.sponsor_allocation,
               school_allocation |-> p.pre_sponsor_amount, student_allocation |-> 0]
      BY <1>3
    <2> QED BY <1>3, <1>4, <2>1 DEF Module
  <1>6. /\ next_id.module < MaxModules
        /\ modules' = [modules EXCEPT ![next_id.module] = r]
        /\ module_vault' = [module_vault EXCEPT ![next_id.module] = new.total]
    BY <1>1 DEF AddModule
  <1>7. UNCHANGED <<envVars, bookingVars, stray, deliverers, cancelVars, credentials, xcavVars>>
    BY <1>1, <1>3 DEF MintProposedModule, MintSponsoredModule, xcavVars
  <1> HIDE DEF r
  <1>8. NewModule(r)
    BY <1>5, <1>6, <1>7 DEF NewModule
  <1>9. CASE MintProposedModule(u, id)
    BY <1>5, <1>8, <1>9 DEF MintProposedModule, Offered
  <1>10. CASE MintSponsoredModule(u, id)
    <2> DEFINE s == [module |-> next_id.module, sponsor |-> new.sponsor, asset |-> p.asset,
                     amount |-> new.school_allocation, active_bookings |-> 0,
                     price_per_token |-> new.price_per_token, sponsored_at |-> now]
    <2>1. /\ p.pre_sponsor_amount > 0
          /\ next_id.sponsor < MaxSponsorships
          /\ sponsorships' = [sponsorships EXCEPT ![next_id.sponsor] = s]
          /\ sponsor_escrow' = [sponsor_escrow EXCEPT ![next_id.sponsor] = new.sponsor_escrow]
          /\ next_id' = [next_id EXCEPT !.module = @ + 1, !.sponsor = @ + 1]
      BY <1>10 DEF MintSponsoredModule, P!MintSponsoredModule, AddSponsorship
    <2>2. /\ p.asset \in Assets /\ PriceFits(p.terms, Decimals[p.asset])
          /\ p.pre_sponsor_price = price_per_token(p.terms, Decimals[p.asset])
      BY <1>3, <2>1, PriceSame, FitsSame DEF PP!Quoted
    <2>3. next_id.module \in ModuleIds /\ now \in Nat
      BY <1>2, <1>6, BoundsAssumption DEF TypeOK, ModuleIds
    <2>4. s = [module |-> next_id.module, sponsor |-> p.proposer, asset |-> p.asset,
               amount |-> p.pre_sponsor_amount, active_bookings |-> 0,
               price_per_token |-> p.pre_sponsor_price, sponsored_at |-> now]
      BY <1>3, <2>1
    <2>5. /\ s \in Sponsorship /\ s.module = next_id.module /\ s.active_bookings = 0
          /\ s.asset = p.asset /\ s.price_per_token = p.pre_sponsor_price
          /\ s.amount = p.pre_sponsor_amount
      BY <1>4, <2>2, <2>3, <2>4 DEF Sponsorship
    <2> HIDE DEF s
    <2>6. NewOffer(r, s)
      BY <1>3, <1>5, <2>1, <2>2, <2>5 DEF NewOffer
    <2> QED BY <1>5, <1>8, <2>1, <2>6 DEF Offered
  <1> QED BY <1>9, <1>10

\* Minting, too, is an instruction of Proposals.
LEMMA MintIs ==
  ASSUME NEW u \in Users, NEW id \in P!ProposalIds,
         MintProposedModule(u, id) \/ MintSponsoredModule(u, id)
  PROVE  PP!Next
  <1>1. P!MintProposedModule(u, id) \/ P!MintSponsoredModule(u, id)
    BY DEF MintProposedModule, MintSponsoredModule
  <1>2. PP!MintProposedModule(u, id) \/ PP!MintSponsoredModule(u, id)
    BY <1>1, MintProposedSame, MintSponsoredSame
  <1> QED BY <1>2, SameTypes DEF PP!Next
-----------------------------------------------------------------------------
(* The vault both components keep their deposits in *)

\* What proposals have in the vault, by proposal; the part of it that is by now
\* the deposit of a module; and the votes.
Kept       == PP!SumFunction(PP!Deposits)
Founded    == [id \in PP!ProposalIds |-> PP!Deposited(id)]
FoundedSum == SumFunction(Founded)
Locked     == PP!SumFunction(PP!VoteLocks)

\* What the market does not account for is what proposals do, but for the deposits
\* of the modules they founded, which the market counts.
Shared == Surplus = (Kept - FoundedSum) + Locked

SharesTyped ==
  /\ PP!Deposits \in [PP!ProposalIds -> Nat] /\ Founded \in [PP!ProposalIds -> Nat]
  /\ Kept \in Nat /\ FoundedSum \in Nat /\ Locked \in Nat /\ FoundedSum <= Kept
  /\ \A id \in PP!ProposalIds :
       /\ PP!Staked(id) \in Nat /\ PP!Bonded(id) \in Nat /\ PP!Deposited(id) \in Nat
       /\ PP!Deposits[id] = PP!Staked(id) + PP!Bonded(id) + Founded[id]
       /\ Founded[id] = PP!Deposited(id)

LEMMA ProposalIdsFinite == IsFiniteSet(PP!ProposalIds)
  BY ProposalsAssumption, FS_Interval DEF PP!ProposalIds

LEMMA SharesNat == PP!PInv => SharesTyped
  <1> SUFFICES ASSUME PP!PInv PROVE SharesTyped
    OBVIOUS
  <1>1. PP!TypeOK
    BY DEF PP!PInv, PP!IInv
  <1>2. PP!Sums
    BY <1>1, PP!SumsTyped, Assumed, WidthAssumption
  <1>3. /\ PP!Deposits \in [PP!ProposalIds -> Nat] /\ Kept \in Nat /\ Locked \in Nat
    BY <1>2 DEF PP!Sums, Kept, Locked
  <1>4. ASSUME NEW id \in PP!ProposalIds
        PROVE  PP!Staked(id) \in Nat /\ PP!Bonded(id) \in Nat /\ PP!Deposited(id) \in Nat
    <2>1. PP!TypedParts(id)
      BY <1>1, PP!PartsTyped, Assumed, WidthAssumption
    <2> QED BY <2>1 DEF PP!TypedParts
  <1>5. Founded \in [PP!ProposalIds -> Nat]
    BY <1>4 DEF Founded
  <1>6. \A id \in PP!ProposalIds :
          /\ PP!Deposits[id] = PP!Staked(id) + PP!Bonded(id) + Founded[id]
          /\ Founded[id] = PP!Deposited(id)
    BY DEF PP!Deposits, Founded
  <1>7. \A id \in PP!ProposalIds : Founded[id] <= PP!Deposits[id]
    BY <1>4, <1>6
  <1>8. FoundedSum \in Nat
    BY <1>5, ProposalIdsFinite, TotalNat DEF FoundedSum
  <1>9. FoundedSum <= Kept
    BY <1>3, <1>5, <1>7, ProposalIdsFinite, TotalAtMost, SumSame DEF FoundedSum, Kept
  <1> QED BY <1>3, <1>4, <1>5, <1>6, <1>8, <1>9 DEF SharesTyped

LEMMA SharedInit == MarketInit => Shared
  <1> SUFFICES ASSUME MarketInit PROVE Shared
    OBVIOUS
  <1>1. PP!Init /\ Init /\ vault = 0
    BY InitSame DEF MarketInit, Init
  <1>2. Surplus = 0
    BY <1>1, SolventInit DEF Solvent
  <1>3. PP!PInv /\ PP!Backed
    BY <1>1, ProposalInit, PP!BackedInit, Assumed, WidthAssumption
  <1>4. SharesTyped
    BY <1>3, SharesNat
  <1>5. Kept + Locked = 0
    BY <1>1, <1>3 DEF PP!Backed, Kept, Locked
  <1> QED BY <1>2, <1>4, <1>5 DEF Shared, SharesTyped

LEMMA DeliverShared ==
  ASSUME BInv, BInv', Shared, [Next]_vars, UNCHANGED proposalVars
  PROVE  Shared'
  <1>1. SurplusKept
    BY SolventStep DEF BInv
  <1>2. /\ PP!Deposits' = PP!Deposits /\ Founded' = Founded /\ PP!VoteLocks' = PP!VoteLocks
    BY DEF PP!Deposits, PP!Staked, PP!Bonded, PP!Deposited, Founded, PP!VoteLocks,
           PP!VotesOn, proposalVars
  <1>3. Kept' = Kept /\ FoundedSum' = FoundedSum /\ Locked' = Locked
    BY <1>2 DEF Kept, FoundedSum, Locked
  <1> QED BY <1>1, <1>3 DEF Shared, SurplusKept

\* An instruction on a proposal moves the vault by what it locks or releases.
LEMMA SpareKept ==
  ASSUME PP!PInv, PP!Next
  PROVE  vault' - Kept' - Locked' = vault - Kept - Locked
  <1>1. PP!SpareKept
    BY PP!SpareStep, Assumed, WidthAssumption
  <1> QED BY <1>1 DEF PP!SpareKept, PP!Spare, Kept, Locked

LEMMA ProposeShared ==
  ASSUME BInv, Sold, Shared, PP!PInv, PP!PInv', Propose
  PROVE  BInv' /\ Sold' /\ Shared'
  <1>1. vault' \in Nat /\ treasury' \in Nat
    BY DEF PP!PInv, PP!IInv, PP!TypeOK
  <1>2. /\ BInv' /\ Sold' /\ minted' = minted
        /\ UNCHANGED <<modules, bookings, deliverers>>
    BY <1>1, ProposeApart
  <1>3. vault' - Kept' - Locked' = vault - Kept - Locked
    BY ProposeIs, SpareKept
  <1>4. FoundedSum' = FoundedSum
    BY <1>2 DEF FoundedSum, Founded, PP!Deposited
  <1>5. SharesTyped /\ SharesTyped'
    BY SharesNat, PTL
  <1>6. DepositsTyped
    BY DepositsNat DEF BInv, LInv, Base, EInv
  <1>7. /\ ModuleDeposits' = ModuleDeposits /\ BookingDeposits' = BookingDeposits
        /\ DelivererDeposits' = DelivererDeposits
    BY <1>2 DEF ModuleDeposits, BookingDeposits, DelivererDeposits
  <1>8. /\ Kept \in Nat /\ Locked \in Nat /\ FoundedSum \in Nat
        /\ Kept' \in Nat /\ Locked' \in Nat
    BY <1>5 DEF SharesTyped
  <1>9. ModuleDeposits \in Nat /\ BookingDeposits \in Nat /\ DelivererDeposits \in Nat
        /\ vault \in Nat /\ vault' \in Nat
    BY <1>1, <1>6 DEF DepositsTyped
  <1>10. vault - ModuleDeposits - BookingDeposits - DelivererDeposits
           = (Kept - FoundedSum) + Locked
    BY DEF Shared, Surplus
  <1>11. vault' - ModuleDeposits - BookingDeposits - DelivererDeposits
           = (Kept' - FoundedSum) + Locked'
    <2>1. PICK v \in Nat, k \in Nat, l \in Nat, w \in Nat, j \in Nat, m \in Nat, f \in Nat,
               a \in Nat, b \in Nat, c \in Nat :
            /\ v = vault /\ k = Kept /\ l = Locked
            /\ w = vault' /\ j = Kept' /\ m = Locked'
            /\ f = FoundedSum
            /\ a = ModuleDeposits /\ b = BookingDeposits /\ c = DelivererDeposits
      BY <1>8, <1>9
    <2>2. w - j - m = v - k - l
      BY <1>3, <2>1, Zenon
    <2>3. v - a - b - c = (k - f) + l
      BY <1>10, <2>1, Zenon
    <2>4. w - a - b - c = (j - f) + m
      BY <2>2, <2>3
    <2> QED BY <2>1, <2>4, Zenon
  <1>12. Shared'
    BY <1>4, <1>7, <1>11 DEF Shared, Surplus
  <1> QED BY <1>2, <1>12

LEMMA MintShared ==
  ASSUME BInv, Sold, Shared, PP!PInv, PP!PInv', NEW u \in Users, NEW id \in P!ProposalIds,
         MintProposedModule(u, id) \/ MintSponsoredModule(u, id)
  PROVE  BInv' /\ Sold' /\ Shared'
  <1>1. PICK r : NewModule(r) /\ Offered(r) /\ r.deposit = proposals[id].bond
    BY MintFounds
  <1>2. BInv' /\ Sold' /\ Surplus' = Surplus - r.deposit
    BY <1>1, FoundWell
  <1>3. P!Mint(u, id)
    BY DEF MintProposedModule, MintSponsoredModule, P!MintProposedModule,
           P!MintSponsoredModule
  <1>4. /\ minted[id] = None /\ minted'[id] # None /\ minted'[id].deposit = r.deposit
        /\ \A i \in P!ProposalIds : i # id => minted'[i] = minted[i]
        /\ UNCHANGED vault
    BY <1>1, <1>3, MintRecord
  <1>5. vault' - Kept' - Locked' = vault - Kept - Locked
    BY MintIs, SpareKept
  <1>6. SharesTyped /\ SharesTyped'
    BY SharesNat, PTL
  <1>7. id \in PP!ProposalIds /\ r.deposit \in Nat
    BY <1>1, SameTypes DEF NewModule, Module
  <1>8. /\ Founded[id] = 0 /\ Founded'[id] = r.deposit
        /\ \A i \in PP!ProposalIds \ {id} : Founded'[i] = Founded[i]
    BY <1>4, <1>7, SameTypes DEF Founded, PP!Deposited
  <1>9. FoundedSum' = FoundedSum + r.deposit
    <2>1. Founded \in [PP!ProposalIds -> Nat] /\ Founded' \in [PP!ProposalIds -> Nat]
      BY <1>6 DEF SharesTyped
    <2>2. SumFunction(Founded') = SumFunction(Founded) - Founded[id] + Founded'[id]
      BY <1>7, <1>8, <2>1, ProposalIdsFinite, TotalChange
    <2> QED BY <1>6, <1>7, <1>8, <2>2 DEF FoundedSum, SharesTyped
  <1>10. vault \in Nat /\ Surplus \in Int
    <2>1. DepositsTyped
      BY DepositsNat DEF BInv, LInv, Base, EInv
    <2> QED BY <2>1 DEF Surplus, DepositsTyped
  <1>11. Shared'
    BY <1>2, <1>4, <1>5, <1>6, <1>7, <1>9, <1>10 DEF Shared, SharesTyped
  <1> QED BY <1>2, <1>11

\* The inductive invariant of the whole program.
MInv == BInv /\ Sold /\ PP!PInv /\ Shared

LEMMA MInvInit == MarketInit => MInv
  <1> SUFFICES ASSUME MarketInit PROVE MInv
    OBVIOUS
  <1>1. Init /\ PP!Init
    BY InitSame DEF MarketInit
  <1>2. BInv /\ Sold
    BY <1>1, BInvInit DEF Sold, SoldAt, Init
  <1> QED BY <1>1, <1>2, ProposalInit, SharedInit DEF MInv

LEMMA MInvStep == MInv /\ [MarketNext]_marketVars => MInv'
  <1> SUFFICES ASSUME MInv, [MarketNext]_marketVars PROVE MInv'
    OBVIOUS
  <1>1. ASSUME [Next]_vars, UNCHANGED proposalVars PROVE MInv'
    <2>1. BInv' /\ TypeOK /\ TypeOK' /\ FreshModules
      BY <1>1, BInvStep DEF MInv, BInv, LInv, Base, EInv
    <2>2. Sold'
      BY <1>1, <2>1, SoldStep DEF MInv
    <2>3. PP!PInv'
      BY <1>1, <2>1, DeliverRests, RestsSame DEF MInv
    <2>4. Shared'
      BY <1>1, <2>1, DeliverShared DEF MInv
    <2> QED BY <2>1, <2>2, <2>3, <2>4 DEF MInv
  <1>2. ASSUME Propose PROVE MInv'
    <2>1. PP!PInv'
      BY <1>2, ProposeIs, ProposalStep DEF MInv
    <2> QED BY <1>2, <2>1, ProposeShared DEF MInv
  <1>3. ASSUME NEW u \in Users, NEW id \in P!ProposalIds,
               MintProposedModule(u, id) \/ MintSponsoredModule(u, id)
        PROVE  MInv'
    <2>1. PP!PInv'
      BY <1>3, MintIs, ProposalStep DEF MInv
    <2> QED BY <1>3, <2>1, MintShared DEF MInv
  <1>4. CASE UNCHANGED marketVars
    BY <1>1, <1>4 DEF marketVars
  <1>5. CASE Deliver
    BY <1>1, <1>5 DEF Deliver
  <1> QED BY <1>2, <1>3, <1>4, <1>5 DEF MarketNext
-----------------------------------------------------------------------------
LEMMA MInvPaid == MInv => PaidAtModulePrice
  BY DEF MInv, Sold, SoldAt, PaidAtModulePrice

\* Whether bought on the market or paid in advance with a proposal, a sponsorship
\* has paid the price of its module's own terms, whatever the configuration said
\* when the module was proposed, minted and sponsored.
THEOREM PaidTheorem == MarketSpec => []PaidAtModulePrice
  BY MInvInit, MInvStep, MInvPaid, PTL DEF MarketSpec

LEMMA MInvSound == MInv => FoundedModulesSound
  <1> SUFFICES ASSUME MInv PROVE FoundedModulesSound
    OBVIOUS
  <1>1. BInv /\ LInv /\ EInv
    BY DEF MInv, BInv, LInv, Base
  <1> QED BY <1>1, LInvTokens, BInvBacked, EInvExact DEF FoundedModulesSound

\* A module founded by a proposal, and its sponsorship, keep the accounts of the
\* market as those created on it do, through every sale, claim and settlement.
THEOREM FoundedTheorem == MarketSpec => []FoundedModulesSound
  BY MInvInit, MInvStep, MInvSound, PTL DEF MarketSpec

LEMMA MInvVault == MInv => VaultShared
  <1> SUFFICES ASSUME MInv PROVE VaultShared
    OBVIOUS
  <1>1. Shared /\ SharesTyped /\ DepositsTyped
    BY SharesNat, DepositsNat DEF MInv, BInv, LInv, Base, EInv
  <1>2. /\ P!ProposalIds = PP!ProposalIds
        /\ \A id \in PP!ProposalIds :
             Pledged[id] = PP!Staked(id) + PP!Bonded(id)
    BY SameTypes DEF Pledged, P!Staked, PP!Staked, P!Bonded, PP!Bonded
  <1>3. Pledged \in [PP!ProposalIds -> Nat]
    <2>1. \A id \in PP!ProposalIds : PP!Staked(id) + PP!Bonded(id) \in Nat
      BY <1>1 DEF SharesTyped
    <2>2. DOMAIN Pledged = PP!ProposalIds /\ Pledged = [id \in DOMAIN Pledged |-> Pledged[id]]
      BY <1>2 DEF Pledged
    <2> QED BY <1>2, <2>1, <2>2
  <1>4. Kept = SumFunction(Pledged) + FoundedSum
    <2>1. \A id \in PP!ProposalIds : PP!Deposits[id] = Pledged[id] + Founded[id]
      BY <1>1, <1>2 DEF SharesTyped
    <2>2. /\ PP!Deposits \in [PP!ProposalIds -> Nat]
          /\ Founded \in [PP!ProposalIds -> Nat]
      BY <1>1 DEF SharesTyped
    <2>3. SumFunction(PP!Deposits) = SumFunction(Pledged) + SumFunction(Founded)
      BY <1>3, <2>1, <2>2, ProposalIdsFinite, TotalAdd
    <2> QED BY <2>3, SumSame DEF Kept, FoundedSum
  <1>5. SumFunction(VotesOf) = Locked
    <2>1. \A id \in PP!ProposalIds : SumFunction(P!VotesOn(id)) = PP!SumFunction(PP!VotesOn(id))
      BY SumSame DEF P!VotesOn, PP!VotesOn
    <2>2. VotesOf = PP!VoteLocks
      BY <1>2, <2>1 DEF VotesOf, PP!VoteLocks
    <2> QED BY <2>2, SumSame DEF Locked
  <1>6. SumFunction(Pledged) \in Nat
    BY <1>3, ProposalIdsFinite, TotalNat
  <1>7. vault - ModuleDeposits - BookingDeposits - DelivererDeposits
          = SumFunction(Pledged) + Locked
    BY <1>1, <1>4, <1>6 DEF Shared, Surplus, SharesTyped
  <1>8. vault = ModuleDeposits + BookingDeposits + DelivererDeposits
                + SumFunction(Pledged) + Locked
    BY <1>1, <1>6, <1>7 DEF DepositsTyped, SharesTyped
  <1> QED BY <1>5, <1>8 DEF VaultShared, ModuleDeposits, BookingDeposits, DelivererDeposits

\* The one vault always holds exactly what proposals and the market keep in it:
\* neither pays out what the other has locked, and a bond becomes the deposit of
\* the module it built.
THEOREM VaultTheorem == MarketSpec => []VaultShared
  BY MInvInit, MInvStep, MInvVault, PTL DEF MarketSpec

LEMMA MInvCranks == MInv => CranksNeverRevert
  <1> SUFFICES ASSUME MInv PROVE CranksNeverRevert
    OBVIOUS
  <1>1. SharesTyped /\ Shared
    BY SharesNat DEF MInv
  <1>2. Surplus >= 0
    BY <1>1 DEF Shared, SharesTyped
  <1> QED BY <1>2, CrankInvReverts DEF MInv, CrankInv

\* Sharing the vault and the treasury with proposals makes no crank of a booking
\* fail, on modules that proposals founded as on the others.
THEOREM MarketCranksTheorem == MarketSpec => []CranksNeverRevert
  BY MInvInit, MInvStep, MInvCranks, PTL DEF MarketSpec
-----------------------------------------------------------------------------
(* Proposals move on *)

\* What an instruction of the market may do to the XCAV in the two token accounts
\* it shares: lock what a wallet covers, pay out or slash into the treasury, and
\* empty the treasury.
Transfers ==
  \/ UNCHANGED <<vault, treasury>>
  \/ \E n \in Nat : Lockable(n) /\ vault' = vault + n /\ treasury' = treasury
  \/ \E n \in Nat : vault' = vault - n /\ treasury' \in {treasury, treasury + n}
  \/ \E n \in Nat : vault' = vault /\ treasury' = treasury - n

LEMMA DeliverTransfers ==
  ASSUME TypeOK, [Next]_vars
  PROVE  Transfers /\ now' >= now
  <1>0. /\ now \in Nat /\ config \in ConfigParams
        /\ \A b \in BookingIds : bookings[b] # None => bookings[b].deposit \in Nat
        /\ \A u \in Users : deliverers[u] # None => deliverers[u].deposit \in Nat
        /\ \A m \in ModuleIds : modules[m] # None => modules[m].deposit \in Nat
    BY ConfigOK DEF TypeOK, Booking, Deliverer, Module
  <1>1. /\ config.module_deposit \in Nat /\ config.booking_deposit \in Nat
        /\ config.deliverer_deposit \in Nat
    BY <1>0 DEF ConfigParams
  <1>2. ASSUME NEW u \in Users, NEW n \in Amounts, CreateModule(u, n) PROVE Transfers /\ now' >= now
    BY <1>0, <1>1, <1>2 DEF CreateModule, Transfers, envVars
  <1>3. ASSUME NEW u \in Users, NEW m \in ModuleIds, RemoveModule(u, m)
        PROVE  Transfers /\ now' >= now
    BY <1>0, <1>3 DEF RemoveModule, Transfers, envVars
  <1>4. ASSUME NEW u \in Users, NEW s \in SponsorIds,
               NEW t \in now..(now + config.max_delivery_window), BookModule(u, s, t)
        PROVE  Transfers /\ now' >= now
    BY <1>0, <1>1, <1>4 DEF BookModule, Transfers, envVars
  <1>5. ASSUME NEW u \in Users, RegisterDeliverer(u) PROVE Transfers /\ now' >= now
    <2>1. PICK d : /\ d.deposit \in Nat /\ Lockable(TopUp(d))
                   /\ vault' = vault + TopUp(d) /\ treasury' = treasury /\ now' = now
      BY <1>0, <1>5 DEF RegisterDeliverer, envVars
    <2>2. TopUp(d) \in Nat
      BY <1>1, <2>1 DEF TopUp
    <2> QED BY <1>0, <2>1, <2>2 DEF Transfers
  <1>6. ASSUME NEW u \in Users, UnregisterDeliverer(u) PROVE Transfers /\ now' >= now
    BY <1>0, <1>6 DEF UnregisterDeliverer, Transfers
  <1>7. ASSUME NEW u \in Users, NEW b \in BookingIds, CancelClaim(u, b)
        PROVE  Transfers /\ now' >= now
    <2> DEFINE slash == IF deliverers[u].active_strikes + 1 >= config.max_strikes
                        THEN AtMost(slash_per_strike, deliverers[u].deposit) ELSE 0
    <2>1. /\ vault' = vault - slash /\ treasury' = treasury + slash
          /\ deliverers[u] # None /\ now' = now
      BY <1>7 DEF CancelClaim, envVars
    <2>2. slash \in Nat
      BY <1>0, <2>1, SlashNat DEF AtMost
    <2> HIDE DEF slash
    <2> QED BY <1>0, <2>1, <2>2 DEF Transfers
  <1>8. ASSUME NEW b \in BookingIds,
               \/ ExpireBooking(b) \/ FinishBooking(b)
               \/ \E u \in Users : CancelBooking(u, b)
        PROVE  Transfers /\ now' >= now
    <2>1. /\ bookings[b].deposit \in Nat /\ now' = now
          /\ vault' = vault - bookings[b].deposit
          /\ treasury' \in {treasury, treasury + bookings[b].deposit}
      BY <1>0, <1>8 DEF ExpireBooking, MayExpireBooking, FinishBooking, MayFinishBooking,
                        CancelBooking, MayCancelBooking, envVars
    <2> QED BY <1>0, <2>1 DEF Transfers
  <1>9. ASSUME NEW u \in Users, NEW m \in ModuleIds,
               \/ \E a \in Assets, n \in Amounts : SponsorModule(u, m, a, n)
               \/ \E n \in Amounts : BurnUnsponsored(u, m, n)
        PROVE  UNCHANGED <<vault, treasury, now>>
    BY <1>9 DEF SponsorModule, BurnUnsponsored, envVars, xcavVars
  <1>10. ASSUME NEW u \in Users, NEW s \in SponsorIds,
               \/ \E n \in Amounts : ReclaimSponsorship(u, s, n)
               \/ CloseSponsorship(u, s)
        PROVE  UNCHANGED <<vault, treasury, now>>
    BY <1>10 DEF ReclaimSponsorship, CloseSponsorship, envVars, xcavVars
  <1>11. ASSUME NEW u \in Users,
               \/ \E c \in cancellations : ClearOldCancellation(u, c)
               \/ \E r \in RoleNames : ChangeRole(u, r)
        PROVE  UNCHANGED <<vault, treasury, now>>
    BY <1>11 DEF ClearOldCancellation, ChangeRole, envVars, xcavVars
  <1>12. ASSUME NEW u \in Users, NEW b \in BookingIds,
               ClaimBooking(u, b) \/ FinalizeScore(u, b)
        PROVE  UNCHANGED <<vault, treasury, now>>
    BY <1>12 DEF ClaimBooking, FinalizeScore, envVars, xcavVars
  <1>13. ASSUME NEW u \in Users, NEW b \in BookingIds,
               \E score \in Scores : \/ SubmitImpactScore(u, b, score)
                                     \/ DisputeScore(u, b, score)
        PROVE  UNCHANGED <<vault, treasury, now>>
    BY <1>13 DEF SubmitImpactScore, DisputeScore, envVars, xcavVars
  <1>14. ASSUME NEW u \in Users, NEW b \in BookingIds,
               \/ \E accept \in BOOLEAN : ResolveDispute(u, b, accept)
               \/ \E kind \in Kinds, r \in Recipients : MintCredential(u, b, kind, r)
        PROVE  UNCHANGED <<vault, treasury, now>>
    BY <1>14 DEF ResolveDispute, MintCredential, envVars, xcavVars
  <1>15. ASSUME WithdrawTreasury PROVE Transfers /\ now' >= now
    <2>1. PICK n \in Nat : vault' = vault /\ treasury' = treasury - n /\ now' = now
      BY <1>15 DEF WithdrawTreasury, envVars
    <2> QED BY <1>0, <2>1 DEF Transfers
  <1>16. UNCHANGED <<vault, treasury, now>> => Transfers /\ now' >= now
    BY <1>0 DEF Transfers
  <1>17. ASSUME \/ \E b \in BookingIds : StrayToBookingEscrow(b)
                \/ \E s \in SponsorIds : StrayToSponsorEscrow(s)
                \/ UpdateConfig \/ Tick \/ UNCHANGED vars
         PROVE  Transfers /\ now' >= now
    BY <1>0, <1>17 DEF StrayToBookingEscrow, StrayToSponsorEscrow, UpdateConfig, Tick, vars,
                       Transfers, envVars, xcavVars
  <1> QED BY <1>2, <1>3, <1>4, <1>5, <1>6, <1>7, <1>8, <1>9, <1>10, <1>11, <1>12, <1>13, <1>14,
           <1>15, <1>16, <1>17 DEF Next

LEMMA DeliverSupplied ==
  ASSUME TypeOK, TypeOK', PP!Supplied, Transfers
  PROVE  PP!Supplied'
  <1>1. PICK v \in Nat, t \in Nat, w \in Nat, q \in Nat :
          v = vault /\ t = treasury /\ w = vault' /\ q = treasury'
    BY DEF TypeOK
  <1>2. v + t <= XcavSupply /\ XcavSupply \in Nat
    BY <1>1, BoundsAssumption DEF PP!Supplied
  <1>3. w + q <= XcavSupply
    <2>1. CASE UNCHANGED <<vault, treasury>>
      BY <1>1, <1>2, <2>1
    <2>2. ASSUME NEW n \in Nat, Lockable(n), vault' = vault + n, treasury' = treasury
          PROVE  w + q <= XcavSupply
      <3>1. v + t + n <= XcavSupply /\ w = v + n /\ q = t
        BY <1>1, <2>2 DEF Lockable
      <3> QED BY <3>1
    <2>3. ASSUME NEW n \in Nat, vault' = vault - n, treasury' \in {treasury, treasury + n}
          PROVE  w + q <= XcavSupply
      <3>1. w = v - n /\ (q = t \/ q = t + n)
        BY <1>1, <2>3
      <3> QED BY <1>2, <3>1
    <2>4. ASSUME NEW n \in Nat, vault' = vault, treasury' = treasury - n
          PROVE  w + q <= XcavSupply
      <3>1. w = v /\ q = t - n
        BY <1>1, <2>4
      <3> QED BY <1>2, <3>1
    <2> QED BY <2>1, <2>2, <2>3, <2>4 DEF Transfers
  <1> QED BY <1>1, <1>3 DEF PP!Supplied

\* Whatever the market keeps in the vault, enough is left for the proposals.
LEMMA MInvFunded == MInv => PP!Funded
  <1> SUFFICES ASSUME MInv PROVE PP!Funded
    OBVIOUS
  <1>1. Shared /\ SharesTyped /\ DepositsTyped /\ PP!TypeOK
    BY SharesNat, DepositsNat DEF MInv, BInv, LInv, Base, EInv, PP!PInv, PP!IInv
  <1>2. PP!Pledges \in [PP!ProposalIds -> Nat] /\ PP!SumFunction(PP!Pledges) \in Nat
    BY <1>1, PP!PledgesNat, Assumed, WidthAssumption DEF PP!PledgesTyped
  <1>3. Kept = PP!SumFunction(PP!Pledges) + FoundedSum
    <2>1. \A id \in PP!ProposalIds : PP!Deposits[id] = PP!Pledges[id] + Founded[id]
      BY <1>1 DEF SharesTyped, PP!Pledges
    <2>2. /\ PP!Deposits \in [PP!ProposalIds -> Nat]
          /\ Founded \in [PP!ProposalIds -> Nat]
      BY <1>1 DEF SharesTyped
    <2>3. SumFunction(PP!Deposits) = SumFunction(PP!Pledges) + SumFunction(Founded)
      BY <1>2, <2>1, <2>2, ProposalIdsFinite, TotalAdd
    <2> QED BY <2>3, SumSame DEF Kept, FoundedSum
  <1>4. vault >= PP!SumFunction(PP!Pledges) + Locked
    BY <1>1, <1>2, <1>3 DEF Shared, Surplus, SharesTyped, DepositsTyped
  <1> QED BY <1>4 DEF PP!Funded, Locked

\* The inductive invariant of proposals in the whole program: tallies are the votes
\* on record, and all the XCAV locked or slashed is within the supply.
TallyInv == MInv /\ PP!TInv

LEMMA TallyInvInit == MarketInit => TallyInv
  <1> SUFFICES ASSUME MarketInit PROVE TallyInv
    OBVIOUS
  <1>1. PP!Init
    BY InitSame DEF MarketInit
  <1> QED BY <1>1, MInvInit, PP!TInvInit, Assumed, WidthAssumption DEF TallyInv

LEMMA TallyInvStep == TallyInv /\ [MarketNext]_marketVars => TallyInv'
  <1> SUFFICES ASSUME TallyInv, [MarketNext]_marketVars PROVE TallyInv'
    OBVIOUS
  <1>1. MInv /\ MInv' /\ PP!Funded' /\ PP!TInv
    BY MInvStep, MInvFunded, PTL DEF TallyInv
  <1>2. TypeOK /\ TypeOK'
    BY <1>1 DEF MInv, BInv, LInv, Base, EInv
  <1>3. ASSUME PP!Next PROVE TallyInv'
    <2>1. PP!TInv'
      BY <1>1, <1>3, PP!TInvKept, Assumed, WidthAssumption
    <2> QED BY <1>1, <2>1 DEF TallyInv
  <1>4. ASSUME [Next]_vars, UNCHANGED proposalVars PROVE TallyInv'
    <2>1. PP!Rests
      BY <1>1, <1>2, <1>4, DeliverRests DEF MInv
    <2>2. Transfers /\ now' >= now
      BY <1>2, <1>4, DeliverTransfers
    <2>3. PP!Supplied'
      BY <1>1, <1>2, <2>2, DeliverSupplied DEF PP!TInv
    <2>4. UNCHANGED votes
      BY <1>4 DEF proposalVars
    <2>5. PP!TInv'
      BY <1>1, <2>1, <2>2, <2>3, <2>4, PP!TInvRests, Assumed, WidthAssumption
    <2> QED BY <1>1, <2>5 DEF TallyInv
  <1>5. CASE Deliver
    BY <1>4, <1>5 DEF Deliver
  <1>6. CASE Propose
    BY <1>3, <1>6, ProposeIs
  <1>7. ASSUME NEW u \in Users, NEW id \in P!ProposalIds,
               MintProposedModule(u, id) \/ MintSponsoredModule(u, id)
        PROVE  TallyInv'
    BY <1>3, <1>7, MintIs
  <1>8. CASE UNCHANGED marketVars
    BY <1>4, <1>8 DEF marketVars
  <1> QED BY <1>5, <1>6, <1>7, <1>8 DEF MarketNext

LEMMA TallyInvMoves == TallyInv => P!ProposalsMoveOn
  <1> SUFFICES ASSUME TallyInv PROVE P!ProposalsMoveOn
    OBVIOUS
  <1>1. PP!ProposalsMoveOn
    BY PP!MovesOn, Assumed, WidthAssumption DEF TallyInv
  <1>2. P!Live = PP!Live
    BY SameTypes DEF P!Live, PP!Live
  <1>3. ASSUME NEW id
        PROVE  /\ PP!MayFinalize(id) => P!MayFinalize(id)
               /\ PP!MayRelease(id) => P!MayRelease(id)
               /\ PP!MayExpire(id) => P!MayExpire(id)
               /\ PP!MayClear(id) => P!MayClear(id)
    BY DEF P!MayFinalize, PP!MayFinalize, P!MayRelease, PP!MayRelease, P!MayExpire,
           PP!MayExpire, P!MayClear, PP!MayClear, P!ExpiresAt, PP!ExpiresAt, P!Clearable,
           PP!Clearable
  <1>4. ASSUME NEW id, NEW u
        PROVE  /\ PP!MayReclaim(u, id) => P!MayReclaim(u, id)
               /\ PP!MayUnlock(u, id) => P!MayUnlock(u, id)
    BY DEF P!MayReclaim, PP!MayReclaim, P!MayUnlock, PP!MayUnlock, P!EscrowCloses,
           PP!EscrowCloses, P!pre_sponsor_locked, PP!pre_sponsor_locked
  <1>5. \A p : P!ExpiresAt(p) = PP!ExpiresAt(p)
    BY DEF P!ExpiresAt, PP!ExpiresAt
  <1> QED BY <1>1, <1>2, <1>3, <1>4, <1>5, SameTypes
          DEF P!ProposalsMoveOn, PP!ProposalsMoveOn

\* Nothing the delivery market does with the vault they share leaves a proposal
\* stuck: at its time each can be finalized, released, expired and cleared by
\* anybody, every vote unlocked, and a rejected advance payment reclaimed.
THEOREM MarketMovesOnTheorem == MarketSpec => []P!ProposalsMoveOn
  BY TallyInvInit, TallyInvStep, TallyInvMoves, PTL DEF MarketSpec

LEMMA TallyInvExact == TallyInv => P!TallyExact
  <1> SUFFICES ASSUME TallyInv PROVE P!TallyExact
    OBVIOUS
  <1>1. PP!TallyExact
    BY PP!TalliesExact, Assumed, WidthAssumption DEF TallyInv
  <1>2. P!Live = PP!Live
    BY SameTypes DEF P!Live, PP!Live
  <1>3. ASSUME NEW id, NEW vote
        PROVE  P!SumFunction(P!CastFor(id, vote)) = PP!SumFunction(PP!CastFor(id, vote))
    BY DEF P!CastFor, PP!CastFor, P!SumFunction, PP!SumFunction, P!SumFunctionOnSet,
           PP!SumFunctionOnSet, P!FoldFunctionOnSet, PP!FoldFunctionOnSet,
           P!MapThenFoldSet, PP!MapThenFoldSet
  <1> QED BY <1>1, <1>2, <1>3, SameTypes DEF P!TallyExact, PP!TallyExact

\* In the whole program, too, an open tally is ballot by ballot the sum of the
\* votes on record.
THEOREM MarketTallyTheorem == MarketSpec => []P!TallyExact
  BY TallyInvInit, TallyInvStep, TallyInvExact, PTL DEF MarketSpec
-----------------------------------------------------------------------------
(* Types and advance payments *)

\* The accounts of both components are well formed at all times.
LEMMA MInvTypes == MInv => TypeOK /\ P!TypeOK
  <1> SUFFICES ASSUME MInv PROVE TypeOK /\ P!TypeOK
    OBVIOUS
  <1>1. TypeOK /\ PP!TypeOK
    BY DEF MInv, BInv, LInv, Base, EInv, PP!PInv, PP!IInv
  <1>2. P!TypeOK
    BY <1>1, SameTypes DEF PP!TypeOK, P!TypeOK, P!RoleNames, PP!RoleNames
  <1> QED BY <1>1, <1>2

\* Every account of the program, of the market and of proposals, keeps its type
\* when the two run over one vault: no balance goes below zero.
THEOREM MarketTypesTheorem == MarketSpec => [](TypeOK /\ P!TypeOK)
  BY MInvInit, MInvStep, MInvTypes, PTL DEF MarketSpec

LEMMA MInvAdvances == MInv => P!PreSponsorshipKept
  <1> SUFFICES ASSUME MInv, NEW id \in P!ProposalIds PROVE P!Kept(id)
    BY DEF P!PreSponsorshipKept
  <1>1. PP!Kept(id)
    BY SameTypes DEF MInv, PP!PInv, PP!PreSponsorshipKept
  <1> QED BY <1>1 DEF PP!Kept, P!Kept, PP!pre_sponsor_locked, P!pre_sponsor_locked

\* An advance payment is in the escrow of its proposal or in the sponsorship that
\* was founded with it, through everything the market does meanwhile.
THEOREM AdvancesTheorem == MarketSpec => []P!PreSponsorshipKept
  BY MInvInit, MInvStep, MInvAdvances, PTL DEF MarketSpec
=============================================================================
