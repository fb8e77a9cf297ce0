# A verification project for xcavate-solana

The repository holds three Anchor (Solana) programs:

- `xcavate-roles` keeps who may act in which role;
- `education-regions` lets XCAV holders vote on regions and seats their operators;
- `real-x-education` is the market for learning modules: creators mint module tokens,
  sponsors pay for them, schools book them, lecturers deliver them, an agent scores the
  deliveries and the payment is split.

On Solana every instruction is an atomic transaction: it either runs to its end or leaves no
trace.  There is no concurrency inside an instruction; everything hard comes from the *order*
in which independent parties send instructions, from time passing between them, from
parameters and roles that change under open accounts, from accounts that are closed while
others still point at them, and from money kept in shared or program-owned token accounts.
In the models one action is therefore one instruction, a failing check is a guard, and the
interleavings are all interleavings of instructions.

## 1. Inventory

| component | state it keeps | operations |
|---|---|---|
| Pricing (`pricing.rs`, split in `score.rs`) | none | scale a price to an asset, four fees rounded up, the payout split rounded down |
| Configuration (`initialize.rs` of each program) | `Config`: parameters, id counters, authority | initialize, update, rotate authority, withdraw treasury |
| Modules (`create_module.rs`, `burn.rs`, `minting.rs`) | `Module` with three token allocations, the module's token vault | create, burn unsponsored tokens, remove |
| Sponsorships (`sponsor.rs`) | `Sponsorship`, a payment escrow each | sponsor, reclaim, close |
| Deliverers (`deliverer.rs`) | `Deliverer`: deposit, claims, strikes | register (top up), unregister |
| Bookings (`booking.rs`, `claim.rs`, `cancel.rs`) | `Booking`, a payment escrow each, `Cancellation` records and a counter per school | book, claim, cancel claim, cancel, expire, clear old cancellation, finish |
| Scoring (`score.rs`) | score, dispute and settlement fields of `Booking` | submit score, dispute, resolve, finalize |
| Credentials (`credential.rs`) | `Credential` | mint |
| Module proposals (`proposal.rs`) | `ModuleProposal`, vote records, a pre-sponsorship escrow | propose, vote, finalize, claim, upload, release, review, mint, unlock, expire, reclaim, clear |
| Regions (`education-regions`) | `RegionState`, `RegionProposal`, `VoteRecord`, `Region` | propose, vote, finalize, create, claim, resign, unlock, clear |
| Vaults (`vault.rs` of both programs) | one XCAV vault per program, a treasury | lock, release, close |
| Roles (`xcavate-roles`) | `Config`, `Admin`, `RoleAccount` | assign, remove, renounce, set permission, add and remove admins |
| Mint guards, dispatch, scripts | none | checks on mints, routing, start-up |

How they interact: the education programs read role accounts (they only ask whether the account
exists); `unregister_deliverer` closes one through a cross-program call; modules are minted into
a region whose operator is paid at settlement; sponsorship, booking, module and deliverer records
point at each other by id and keep counters of one another; all XCAV deposits of a program sit in
one token account.

What is hard, and the properties that make each component correct:

- **Pricing.**  Four roundings up when money is locked must cover five roundings down when it is
  paid out, or a booking can never settle.  *Settlement never reverts, no dust at a full score,
  a higher score pays nobody less.*
- **Modules, sponsorships, bookings.**  A token is counted in a module allocation, in a
  sponsorship, in a booking or as burned, and each instruction moves it between several of these.
  *Counters agree with the open accounts; escrows hold exactly what is owed; no account is closed
  while another needs it.*
- **Deliverers.**  Slashes, top-ups and role revocations happen while claims are open.  *Claims
  are counted, backed by the deposit, and paid only from one's own deposit.*
- **Scoring.**  Score, dispute, early confirmation, lapse of the window, expiry and cancellation
  race.  *The score changes at most once, the payment leaves once; whatever the parties do, the
  booking can be closed.*
- **Regions.**  Votes are replaced, unlocked before the tally is read, and candidacies follow one
  another on the same accounts.  *One candidacy per region; the tally is backed by locked tokens;
  the shared vault holds exactly what is owed; nothing stays locked.*
- **Proposals.**  Claims, late uploads, failed reviews, expiry and minting compete for one bond
  and one advance payment, by parties who need not cooperate, around two deadlines.  *Stake and
  bond leave the vault once; the pre-sponsorship is reclaimed or becomes a sponsorship, never both;
  a deadline granted is kept; nothing is stuck.*
- **Minting a proposal.**  A proposal becomes a module, its advance a sponsorship, its bond a
  deposit, after parameters may have changed several times.  *The module is as sound as one created
  directly: paid at its own price, backed in the shared vault.*
- **Mints, configurations, treasury.**  Two programs are set up one after the other over a mint
  whose extensions give others power over their accounts, and one pays into the other's treasury.
  *Deposits stay covered; nothing is stuck for want of a fitting account.*
- **Roles.**  Accounts are closed and reopened at the same address by sudo's admins, by holders and
  by `unregister_deliverer`.  *One role of one person changes at a time; a new one starts
  compliant.*

`PROJECT.json` lists the components with their status, and the hazards line by line.

## 2. Modules

| module | what it is |
|---|---|
| `Pricing` | the arithmetic of `pricing.rs` and of the split in `finalize_score`, as operators; every checked operation is a predicate `...Fits` |
| `MCPricing` | states are payments (terms, decimals, score); the properties of the arithmetic |
| `PricingLemmas`, `PricingProofs` | lemmas on the two roundings; the four properties proved |
| `BookingLifecycle` | abstract specification: what is promised about one booking (phases, lecturer, score, payment) |
| `Delivery` | the whole delivery market: 20 instructions and the environment |
| `MCDelivery` | its small instances, and what comments in the source say |
| `DeliveryProofs` | `Delivery`: type correctness, escrows, counters, tokens, deposits, cancellations, credentials, backing of claims, cranks that never revert, and the refinement of `BookingLifecycle` |
| `TotalLemmas` | how a sum over a finite set follows a change of one entry, and how sums add up and compare |
| `Regions`, `MCRegions` | region governance and ownership, and its instances |
| `RegionProofs` | type correctness, one candidacy per region, the vault, the tallies, and that nothing stays locked |
| `ProposalLifecycle` | abstract specification: what is promised about one proposal (phases, who builds, bans, bond, advance payment) |
| `Proposals`, `MCProposals` | the life of a module proposal, 14 instructions, and its instance, with unbounded time for liveness |
| `MCStall` | `MCProposals` with a history variable: when a proposal was approved |
| `ProposalProofs` | type correctness of `Proposals`, reservations, advance payments, upload deadlines, the vault, the tallies, that proposals move on, and the refinement of `ProposalLifecycle` |
| `Marketplace`, `MCMarketplace` | real-x-education as a whole: `Delivery` and `Proposals` over one clock, config, vault and treasury, and its instance |
| `MarketplaceProofs` | what both components promise alone, kept when they run together; the shared vault, and modules founded by a proposal |
| `Treasury` | mints and what their extensions allow, the mint guard, the two programs' configurations, vaults and the treasury |
| `RoleGate` | abstract specification: what the other programs rely on about roles |
| `Registry` | the xcavate-roles program |
| `MCAdministration` | a small instance of `Treasury` and of `Registry` |
| `AdministrationProofs` | type correctness of both, deposits covered, the treasury fits, funds movable, and the refinement of `RoleGate` |

`Delivery` extends `Pricing`, so the price a sponsor locks and the condition under which
`finalize_score` succeeds are the real ones, and shows through `Lifecycle == INSTANCE
BookingLifecycle WITH ...` that every booking follows the abstract lifecycle.  `Regions` shares no
state with `Delivery` except the role accounts, which each sees as an external set of role
holders, so the two are checked apart.  `Proposals` extends `Pricing` too: the price a sponsor
locks in advance is the one `Delivery` settles.  On its own it records what minting hands over
in `minted`; `Lifecycle == INSTANCE ProposalLifecycle WITH ...` shows that every proposal follows
its abstract lifecycle.

`Marketplace` composes the two: it extends `Delivery` and instantiates `Proposals` as `P`.  Every
instruction is that of its component with the other's accounts unchanged, except the two minting
instructions, which are `Proposals`' action joined with the creation of the module (`AddModule`) and
of the sponsorship (`AddSponsorship`) in `Delivery`'s variables.  A parameter set is the one
`Delivery` reads; `ProposalParams` gives what `Proposals` reads of the same set, and an assumption
says that they agree where both look.  The XCAV vault is one variable of both.

`Treasury` takes the other cut: the two programs with their configurations, what they owe in total
(`owed`) and where it is kept (`pots`), without what the deposits are for.  `Registry` is the third
program; `Gate == INSTANCE RoleGate WITH ...` shows it implements the environment that the
action `ChangeRole` of the other modules stands for: a pair of person and role appears or
disappears at any time, one at a time.

### How the state corresponds to the code

An account type is a record set, the accounts are functions from ids, users or region codes, and
`None` is an account that does not exist (or an unset `Option`).  In `Delivery`: `modules`,
`sponsorships`, `bookings`, `deliverers`, `counters`, `cancellations` and `credentials` are the
account types of `state.rs` without the fields no property reads (metadata, bumps, region);
`next_id` is the counters of `Config`; `module_vault`, `sponsor_escrow`, `booking_escrow`, `vault`
and `treasury` are token balances; `stray` is a history variable: what somebody sent to an escrow
unasked, which is the only reason an escrow can hold more than it owes.  `roles` is the set of
role accounts.  In `Regions`: `states`, `proposals`, `votes`, `regions` are the accounts of the
same name, `supply` the XCAV supply the bond is computed from.  In `Proposals`: `proposals` is
`ModuleProposal` with `None` for an unset claimant, `votes` the `ModuleProposalVote` accounts
(which outlive their proposal), `escrow` the pre-sponsorship escrows, `stray` again what was sent
to one unasked.  The list of banned creators is a set, since no one can be banned twice.
In `Treasury`: `mints` gives each address the features of the mint there, `configs` the two `Config`
accounts, `pots` the token accounts of the programs, `wallets` everybody else's tokens.  A freeze
authority is a field of the mint and not an extension, so the guard lets it in; `frozen` are the
accounts it has frozen, and `FundsMovable` speaks of the others.  `CloseMint`, `Seize`, `Pause`,
`Freeze` and `Stray` are what the token program lets others do.  `owed` counts what the
instructions of the other modules lock and return, by `Lock`, `Return` and `Slash`.  In `Registry`:
`authority` is `Config`, `admins` the `Admin` accounts, `assignments` the permission in each
`RoleAccount`.

An action is an instruction with everything it does; its guards are the account constraints
(`seeds`, `has_one`, `address`, `init`), the `require!`s, the checked arithmetic and the balances
the token program insists on.  Where a check cannot be expressed as a plain condition on existing
accounts it is an operator with the name of the idea (`SponsorshipSpent`, `NoShow`, `Undisputed`,
`Vacant`, `Passes`, `MayBuild`, `EscrowCloses`).  The whole condition under which an instruction
succeeds is an operator `May...` of its own where a property says that the instruction does succeed:
the action uses it as its guard, the property states that it holds.  An operator with a suffix
(`NoShow_OnlyClaimed`) and the comment *mutant* is a deliberately wrong version that a property must
reject; nothing uses it.

Abstracted in all: wallets (they share what is neither locked nor slashed, out of `XcavSupply`, the
most XCAV there may be, and `WithdrawTreasury`, an instruction of education-regions, gives them back
what was slashed; `Treasury` has them one by one), rent,
events, metadata, and the region of a module.  `Delivery`, `Proposals` and `Regions` take mints to
transfer one to one; that the guard ensures it is the subject of `Treasury`.

## 3. Runs

| run | question | bounds |
|---|---|---|
| `pricing` | can a locked price fail to settle, lose dust, or pay less for more? | prices {1,2,7,19,150}, fee rates {0,1,333,2500,10000} in every split up to 100 %, decimals 0..2, six scores around the cliff at 5000 |
| `bookings` | do counters agree with the accounts? claims counted and backed, vault exact | 1 module of 2 tokens, 2 sponsorships, 2 bookings, 2 people who each book and deliver, one deliverer role revoked and granted at any time, 6 XCAV against deposits of 1 and 2, a slash after 2 strikes, time 0..2 |
| `disputes` | the abstract lifecycle, credentials, and is every booking closed? | 1 booking, scores {0, 10000} (below and above the minimum), all disputes and amendments, 2 recipients |
| `cranks` | can a permissionless crank revert? are escrows exact? | 1 booking, one stray unit into each escrow, 2 parameter sets, roles revoked mid-claim |
| `regions` | candidacies, vault, tallies, nothing stuck, no seat unclaimable | 2 users, 1 region, 2 successive proposals, 2 supplies, 2 parameter sets |
| `proposals` | reservations, bond, pre-sponsorship, deadlines, the abstract lifecycle; does every proposal end? | 1 proposal, 2 creators and 1 person who sponsors, votes and reviews, a ban list for 1, 2 parameter sets (bond 2 or 1, price 1 or 2, upload period 2 or 1), one role revoked and granted at any time, one stray unit, clock 0..1 with ageing deadlines (below) |
| `marketplace` | is a founded module sound, paid at its price, and the shared vault exact? | 1 proposal, 1 module, 1 sponsorship, 1 booking, 2 parameter sets (deposit 2 or 1, price 1 or 2), time 0..2 |
| `administration` | deposits covered and movable; do roles behave as assumed? | 2 mint addresses, mints of 6 kinds (plain; with a freeze or a close authority, a fee, a delegate, a pause), supply 2, 2 authorities; 2 people, 2 roles, 1 admin |
| `in_flight_terms`, `slash_window`, `own_stall`, `stranded` | disagreements between a comment and the code | see section 6 |

Why the bounds are enough: every relation checked is between one account and its neighbours, so two
of each kind on one module shows the sharing (two sponsorships of one module, two bookings of one
sponsorship, two claims of one deposit, two candidacies of one region on the same seat).  A token
costs 2 and a strike 1 of a deposit of 2, so that price, fee, deposit and slash are distinct amounts
and a deposit covers two claims, not three.  Durations are 1, deadlines are hit exactly, passed, and
not reached.  One proposal is enough in `proposals` because proposals share only the vault, which
the stake, the bonds of successive claimants, a vote and the deposit of the minted module already
share within one; the theorems hold for any number.  An upload period of 2 against a claim period of
1 lets an upload deadline run past the build deadline, and `I64Max` = 2 lets a deadline saturate.
In `marketplace` a proposal is opened at time 0, so that voting, claiming, minting, booking and
settling all fit before time 2; parameters may change between any two of them.  In `administration`
the two halves share no variable and no property reads both, so each runs only while the other has
not started.  `Horizon` stops new timers early enough for the clock to pass them, so the last phases
are reached; it bounds the exploration and stands for nothing in the code.  The widths (`U8Max`,
`U64Max`, ...) are small so that their limits are met: with `U8Max` = 1 a second strike overflows.

`CHECK_DEADLOCK FALSE`: the programs only react, and with bounded ids and a bounded clock a state
in which nobody can do anything is reached by construction.  That nothing is *stuck* is stated
directly by `CranksNeverRevert`, `NothingStaysLocked`, `ProposalsMoveOn` and
`EveryBookingCloses`, `EveryProposalEnds` and `FundsMovable`.

### Fairness

`FairSpec` assumes that time passes and that someone eventually sends each permissionless crank
(`expire_booking`, `finalize_score` by anyone, `finish_booking_process`) while it would succeed;
the code makes these permissionless for exactly this purpose.  No school, lecturer, agent or admin
is obliged to do anything.  In particular an unclaimed or unscored booking closes
only because of `expire_booking`, and a pending dispute only because its window lapses.

`AgingSpec` assumes the same of proposals: time passes, and someone sends `finalize_proposal`,
`release_claim`, `expire_proposal` and `clear_proposal` while they would succeed.  The clock is not
bounded there: the program only compares the clock with deadlines, so instead of the clock
advancing (beyond `MaxTime`) all deadlines draw nearer (`Age`), which keeps the states finite.
Under this fairness not every proposal ends: after the build deadline claims and releases can
alternate for ever, an expiry being possible only from the end of an upload period to the next
claim.  The supply does not stop that, since `withdraw_treasury` puts slashed XCAV back into
circulation (`WithdrawTreasury`).  `EveryProposalEnds` therefore says what is true: a proposal
ends, or bonds are slashed on it for ever; with no more claims, or none who is willing to pay
again, it ends.  Strong fairness of `expire_proposal` would make every proposal end, but nothing in
the program puts an expiry before a claim, so it is not assumed.  The mutant that refunds the bond
lets a proposal go on at no cost, and makes the property fail.

### Mutants

Each property of a passing run has a mutant: a plausible slip at the line the property protects
(a saturating for a checked subtraction, a close without the check for a remainder, a forgotten
counter in a condition) under which the same run fails.

## 4. What each property says

`bookings`: `TypeOK` (no balance or counter goes below zero), `BookingsBacked` (a booking's
sponsorship is open, at its price, and counts it), `TokensAccounted` (vault of a module =
allocations + tokens in delivery), `SchoolAllocationFunded`, `CancellationsCounted`,
`ClaimsCounted`, `ClaimsBacked`, `VaultSolvent` (the shared XCAV vault is exactly the sum of the
open deposits).  `ClaimsBacked` holds with fixed parameters only: an authority that raises the
deposit leaves claims backed at the old rate.
`disputes`: `ImplementsLifecycle`, `CredentialsAgree`, `EveryBookingCloses`.
`cranks`: `CranksNeverRevert` (at its time, an expiry, a settlement, a finish or a cancellation is
not stopped by a count of open accounts, a balance or a changed parameter), `EscrowsExact`.
`regions`: `OneCandidacy`, `VaultBacked` (the shared vault is exactly bonds + collaterals + votes
not unlocked), `TallyBacked`, `NothingStaysLocked` (also: a seat whose term is over can be claimed
by any operator who can pay, whatever supply and roles have done, and its holder is paid out; a
passed vote and a claim need `TermFits`, that the end of the new term fits the clock, which
`validate` does not ensure).
`proposals`: `ReservationsWhole` (claimant, bond, upload deadline and status agree, and the claimant
is one who may build), `PreSponsorshipKept` (the advance payment is in its escrow or in the
sponsorship it became, exactly), `DepositsBacked` (the vault is exactly stakes + bonds + votes +
deposits of minted modules), `TallyExact` (an open tally is, ballot by ballot, the votes on record),
`UploadDeadlineHonoured` (no step takes a reservation before its deadline), `ProposalsMoveOn` (each
crank succeeds at its time; a sponsor's reclaim where nothing strayed into the escrow),
`ImplementsProposalLifecycle` (bond and advance go whole into the module, or the bond is settled
once and the advance returned; nobody inherits an earlier builder's failures), `EveryProposalEnds`
(minted, closed, or rejected with only the sponsor's own reclaim left; or a bond slashed again and
again).
`marketplace`: `PaidAtModulePrice` (a sponsorship, bought or founded, paid the price of its module's
own terms, which settlement relies on), `VaultShared` (the vault is exactly what both components
keep in it; a bond becomes a deposit to the unit), `FoundedModulesSound`.
`administration`: `DepositsCovered` (no power a mint gives to others, and no second mint at a closed
one's address, takes from the deposits), `FundsMovable` (what is owed can be returned or slashed,
the treasury emptied), `RolesGated` (`Registry` implements `RoleGate`).

## 5. Proofs

All theorems hold for every value of the constants under the assumptions named in the modules:
`WidthAssumption` (a u64 times 10000 fits a u128), `BoundsAssumption` and `InputsAssumption` (bounds
are numbers, inputs and parameter sets are what `validate` accepts), `NoneAssumption` (an absent
account is not an account), `RegistryAssumption`, `SupplyAssumption` (the XCAV supply is a u64, as a
mint's is), `ParamsAssumption` and `ProposalsAssumption` (one `Config` is read by both components of
`Marketplace`), `UsersAssumption` and `FiniteAssumption` (finitely many users and regions: only so
are there sums over their accounts) and `DecimalsAssumption` (a power of ten is a number and, in
`Delivery`, not zero: the provers know nothing about powers).  TLC evaluates each of them in the
runs.

Each theorem below follows the same line: an inductive invariant, whose conjuncts TLC checked
before, and one lemma per instruction.  What makes the invariants necessary:

- **Settlement (`PricingProofs`).**  `SettlementTheorem`: no checked operation of the split can fail
  for a price that was accepted at sponsoring.  The argument: each part scaled down by the score is
  at most the part, the parts add up to the price exactly, so the clamp is never active and the
  refund never negative.  `RoundingTheorem`, `FullScoreTheorem`, `HigherScoreTheorem`: the
  roundings, no dust at a full score, and monotonicity in the score.  The invariant is `TypeOK`
  alone; the work is in the lemmas of `PricingLemmas` on division.
- **Type correctness** (`TypeCorrect` of the four other proof modules on components).  `TypeOK` is
  inductive as it stands, but for `Treasury` and `Proposals`, where it needs the invariants below:
  each subtraction is protected by a guard of the same instruction.
- **Escrows (`DeliveryProofs!EscrowTheorem`).**  `EscrowsExact` is not inductive: cancelling returns
  a booking's payment to a sponsorship's escrow, which is right only if the sponsorship has the
  booking's price.  `EInv` adds `SamePrice` (an open sponsorship a booking names was opened before
  it, at its price) and `Fresh` (an id not handed out has no account, no escrow and nothing
  strayed); `Shapes` adds which fields of a booking are set together (a settled booking is scored, a
  score has a lecturer and a time, an amendment has a disputer), so that an unscored booking is
  unsettled and its payment still there.
- **Counters (`DeliveryProofs!ClaimsTheorem`, `TokensTheorem`).**  A counter kept on one account
  counts other accounts, by cardinality.  `Holder`, `Waiting`, `Delivering` and `Backing` name the
  account that counts a booking; an instruction moves one booking, and each counter follows it from
  its old owner to its new one.  `Ledger` states all four counters at once, since one instruction
  changes several of them and the guard that protects one reads another (a module is removed only
  when its allocations are zero, a deliverer only without claims); `FreshModules` gives a new module
  an id nobody counts for yet.
- **Bookings backed (`BackedTheorem`).**  Adds `SameSale`: a booking and its sponsorship are of one
  module and asset.  That the sponsorship is open follows from the count of its bookings: a positive
  counter keeps it from being closed.
- **Sums (`FundedTheorem`, `SolvencyTheorem`, `RegionProofs!VaultTheorem`,
  `ProposalProofs!DepositsTheorem`).**  The library offers no theorem about sums and induction is
  out of reach, so `TotalLemmas` shows that a sum of natural numbers over a finite set is the number
  of its units, `<<i, 1>> .. <<i, f[i]>>` for each `i`, and from that how it follows a change of one
  entry (`SumChange`).  The vault theorems then say per instruction which one entry changes and by
  how much.  A release can pay only what the record says, so none of them needs more than `TypeOK`
  and the facts above; in `Proposals` the stake must be gone from the sum as soon as the vote is
  decided, and the bond must pass into the deposit of the minted module.  Votes are a sum of sums.
- **Tallies (`RegionProofs!TallyTheorem`).**  `TInv`: ballot by ballot, the tally of a proposal is
  the sum of the recorded powers while the vote is open and at least that afterwards, each vote
  record has the deadline of its proposal (so none is unlocked while the tally is open), and an id
  not handed out has no votes.
- **Cancellations and credentials (`CancellationsTheorem`, `CredentialsTheorem`).**  A record's key
  is new when it is written, because a booking id is used once and closed when cancelled (`CInv`).
  A credential is minted at the settled score of an open booking, which nothing changes after
  settlement; `KInv` also covers the bookings closed since, whose ids never come back.
- **Backing of claims (`BackingTheorem`).**  Proved under `[][config' = config]_vars`: an authority
  that raises the deposit leaves claims backed at the old rate, which the code accepts.
- **Cranks (`DeliveryProofs!CranksTheorem`).**  An expiry, a settlement, a finish or a cancellation
  could fail on a counter too small, an escrow or vault too poor, or a split that does not fit.
  `CrankInv` is `BInv` (all the counters and escrows above), `Sold` (an open sponsorship is at the
  price its module's terms give, which was found in range, so the split at settlement fits: the
  argument of `PricingProofs`), and that the vault's `Surplus` over the market's deposits is not
  negative.  Terms never change and a price is accepted at sponsoring, so both survive parameter
  updates.
- **Tallies and progress of proposals (`ProposalProofs!TallyTheorem`, `MoveOnTheorem`).**  `TInv`
  adds to `PInv` that open tallies are the votes on record (`Tallied`), that an id not handed out
  has none (`Unvoted`), that vault and treasury together are within the supply (`Supplied`) and that
  the vault funds what proposals owe (`Funded`).  A tally that could overflow a u64 would stop
  finalization for ever; it cannot, because the powers on record are locked in the vault and the
  supply is a u64.  Each claim, stake, vote or bond is one term of the vault's sum, so it can be
  paid.
- **Nothing stays locked (`RegionProofs!UnstuckTheorem`).**  `NInv` adds the same argument for
  regions: the tally of an open or decided vote fits, the supply is a u64, and the vault pays each
  of its terms.
- **Candidacies (`RegionProofs!CandidacyTheorem`).**  `OneCandidacy` needs `Fresh`: a new proposal
  takes an id that no other has.  Split into what it says of a region (`Seatless`, `Tallied`) and of
  a proposal (`Attached`), with one lemma per instruction that touches either.
- **Proposals (`ProposalProofs`).**  `TypeOK` and `ReservationsWhole` are inductive together
  (`IInv`): what a new status must find is what the previous one left.  `PreSponsorshipTheorem`
  needs two more facts (`PInv`): `Fresh`, an id not handed out has neither proposal, escrow nor
  module, and `Covered`, no proposal is paid in advance for more tokens than it has, which makes the
  saturating subtraction in `write_module` exact.  Every instruction is one of four shapes for this
  invariant: it opens a proposal, rewrites one without touching its payment, closes one, or leaves
  all of them alone; a lemma per shape, then one step per instruction.  `UploadDeadlineTheorem` is
  an action property: only upload, release, review and expiry act on a claimed proposal, and each
  either keeps claimant and bond or has waited for the deadline.
- **Refinements (`LifecycleTheorem`, `ProposalLifecycleTheorem`, `RoleGateTheorem`).**  The initial
  states map to initial states, and each instruction to one step of the abstract specification or a
  stutter.  An instruction changes one booking (one proposal, one assignment), so every mapped
  variable changes in one entry: a lemma says so once, and the steps then only name the abstract
  action.  `BookingLifecycle` needs `EInv` (what it calls the payment is what the escrow holds,
  without what strayed in) and `Priced` (no payment is zero); `ProposalLifecycle` needs `PInv`;
  `RoleGate` only types, and that permissions are not `None`.
- **Deposits (`AdministrationProofs!DepositsTheorem`, `TreasuryTheorem`).**  `DepositsCovered` needs
  to know what mint a vault is of.  `IInv` adds `Standing` (a program not initialized owes nothing
  and has no vault; the vault of one that is holds its mint, which has none of the rejected
  features), `TreasurySetUp` (the treasury exists as soon as education-regions is initialized, of
  its mint) and `OneMint` (both programs stake the same mint).  So a transfer delivers what it
  takes, nobody can seize from a vault or close its mint, and each of the three deposit steps moves
  `owed` and the vault alike.  That the treasury fits every slash follows from the last two.
- **Funds movable (`AdministrationProofs!MovableTheorem`).**  With `IInv`, each program's deposit
  can be returned or slashed and the treasury emptied, unless an account involved is frozen.  It
  needs `SwitchKept`: transfers are held up only of a mint that has a switch for it, and such a mint
  the guard has not let in.
- **The whole program (`MarketplaceProofs`).**  What is proved of each component alone assumes that
  nobody else touches its vault.  `MInv` is `BInv` and `Sold` of the market, `PInv` of proposals,
  and `Shared`, which couples them: what the vault holds beyond the market's deposits is the votes
  and what proposals keep there, less the deposits of modules they founded, which the market counts
  already.  Three lemmas carry it.  A step of the market changes nothing `PInv` reads but clock,
  parameters, roles and vault (`DeliverRests`); a step of a proposal no account of the market
  (`ProposeApart`); and minting founds a module and a sponsorship as sound as those created directly
  (`FoundWell`), since the proposal kept the terms it was opened with and its advance is the
  accepted price.  `ProposalProofs` is instantiated with the constants and variables `Marketplace`
  gives `Proposals`, so its lemmas are cited, not repeated.  It follows that every sponsorship paid
  its module's price (`PaidTheorem`), founded modules keep every account of the market
  (`FoundedTheorem`), the vault is exact (`VaultTheorem`), and what each component promises alone
  still holds: no crank reverts, no balance goes below zero, advances are kept, and, with `TallyInv`
  (`MInv` and `TInv`), tallies are exact and proposals move on although the market pays out of the
  same vault (`MarketCranksTheorem`, `MarketTypesTheorem`, `AdvancesTheorem`, `MarketTallyTheorem`,
  `MarketMovesOnTheorem`).

Only model-checked: liveness under fairness (`EveryBookingCloses`, `EveryProposalEnds`), which is
outside the prover's reach.  What it rests on is proved: each crank it assumes someone sends
succeeds when its time has come.  `ClaimsBacked`
is proved, as it is checked, for parameters that stay fixed.

## 6. Where a comment and the code disagree

- `in_flight_terms`: `update_config` says in-flight bookings keep their values, but the dispute
  window and the no-show grace are read live.
- `slash_window`: `max_cancellations` is documented as counting cancellations within the window,
  but the counter falls only when the school itself clears an old record.
- `own_stall`: `expire_proposal` calls an approved but unminted build the claimant's own stall and
  slashes the bond; a build approved at or after its build deadline can be expired in the same
  instant, so that its claimant had no time to mint.  While it waited for the reviewer the bond
  would have been refunded.
- `stranded`: `expire_proposal` says it rejects a proposal so that the pre-sponsorship can be
  recovered; `reclaim_pre_sponsor` closes the escrow without looking whether the locked amount was
  all there was in it, so after an unsolicited transfer it reverts (as minting does), and nothing
  removes the surplus.  The escrows of sponsorships and bookings are closed only if empty.

One more is read off a single handler and gets no run: `no_show_grace` (`state.rs:50`) is documented
as ending with a strike for the absent lecturer, and `expire_booking` gives none.  Nor does the
build window end with its deadline: `claim_proposal` does not look at `build_deadline`, and each
claim after it puts the expiry off by an upload period (section 3, fairness).

Three comments are out of step with the code they describe, and other comments agree with the code,
so no run is spent on them: the regions' `quorum` is documented at its field (`state.rs:52`) as
total voting power while only Yes is compared, as `finalize.rs:92` says; `claim_bond`
(`state.rs:326`) is documented as refunded at upload, while it rides on to the module's deposit, as
`proposal.rs:762` says; the header of `ExpireProposal` (`proposal.rs:1463`) says that any deposit is
slashed, while one whose content is under review is refunded, as `proposal.rs:1535` says.

None of these makes a property of the passing runs fail; whether code or comment should change is
for its authors.

## 7. Not modelled

Event and error text, metadata, PDA derivation, rent and transaction limits: no state that a
property reads.  The payout address `protocol_authority` is set by the authority and only compared
with a recipient at settlement.  The guard is also applied to payment assets; `Treasury` models it
for the XCAV mint, and the other modules take assets to be plain.

Two counters of events have no width in `Delivery`: `successful_deliveries` of a lecturer
(`score.rs:401`) and the cancellation count of a school (`cancel.rs:143`) are u32 in the code and
incremented with `checked_add`.  After 2^32 events on one account a settlement or a cancellation
would revert for that account; `CranksNeverRevert` holds up to there.

The scripts call the same instructions once at start-up.  `scripts/bootstrap` was written for
an earlier version of the programs: its `ConfigParams` lacks `max_delivery_window` and
`dispute_window` and has fields the programs no longer have, and it calls instructions that no
longer exist, so there is no behaviour of it with this code to model.

## 8. Plan

Done, in order: `Pricing`, `Delivery` with `BookingLifecycle`, their proofs, `Regions` and its
proofs, `Proposals` and its proofs, `ProposalLifecycle`, liveness of proposals, `Marketplace`,
`Treasury` and its proofs, `Registry` with `RoleGate`; then the properties that say nothing is
stuck, by the guards they stand for, and the proofs of `Marketplace`.  Every instruction of the three
programs is an action, and every safety property, action property and refinement the runs check is
a theorem.

Worth adding if the code grows that way:

1. The regions in the same composition, once modules carry the region whose operator is paid.
2. A bound on `owner_change_period` in the model as soon as `validate` has one: `TermFits` then
   becomes an invariant and leaves `NothingStaysLocked`.
3. Wallets with balances in `Delivery` and `Proposals`, instead of the supply alone, if a property
   is to speak of what a person can afford.
