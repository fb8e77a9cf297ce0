------------------------------ MODULE Delivery ------------------------------
(***************************************************************************)
(* The delivery market of the real-x-education program: modules, the       *)
(* sponsorships that fund them, the bookings schools make, the lecturers   *)
(* who claim them, scoring and disputes, settlement, cancellation, expiry  *)
(* and credentials.  One action is one instruction; a transaction that     *)
(* fails changes nothing, so a failing require!, checked_* call or token   *)
(* transfer is a guard.  Account constraints (seeds, has_one, address) are *)
(* guards too: an account that must exist is one whose entry is not None.  *)
(*                                                                         *)
(* Abstracted: wallets outside the program (only the XCAV supply bounds    *)
(* what they can lock), rent, metadata, events, the region of a module (a  *)
(* region account is never closed, and names only a payout destination).   *)
(***************************************************************************)
EXTENDS Pricing, FiniteSets, Functions

CONSTANTS
  Users, None,
  Assets, Decimals,          \* payment mints and their decimals
  Configs,                   \* parameter sets an authority may install
  InitialRoles, RoleChanges, \* role accounts at start, and those admins touch
  Amounts, Scores, Recipients, \* token counts, scores and credential holders
                               \* callers may pass
  XcavSupply, U8Max,         \* most XCAV there may be; width of the strike counter
  MaxModules, MaxSponsorships, MaxBookings, MaxStray,     \* bounds on ids and
  MaxTime, Horizon           \* time; timers are started only up to Horizon

RoleNames == {"ModuleCreator", "ModuleSponsor", "ModuleBooker",
              "ModuleDeliverer", "ModuleAIAgent"}
Kinds     == {"Sponsor", "School", "Lecturer", "Student"}

ModuleIds  == 0..MaxModules-1
SponsorIds == 0..MaxSponsorships-1
BookingIds == 0..MaxBookings-1

\* ConfigParams::validate, with the parameters this component reads.
ConfigParams ==
  [module_deposit : Nat \ {0}, booking_deposit : Nat \ {0},
   deliverer_deposit : Nat \ {0}, max_module_tokens : Nat \ {0}, terms : Terms,
   min_impact_score_bps : Bps, strike_slash_bps : Bps \ {0},
   sponsorship_window : Nat \ {0}, cancellation_window : Nat \ {0},
   no_show_grace : Nat \ {0}, max_delivery_window : Nat \ {0},
   dispute_window : Nat, max_cancellations : Nat \ {0}, max_strikes : Nat \ {0},
   deliveries_per_strike_reduction : Nat, accepted_assets : SUBSET Assets]

ASSUME BoundsAssumption ==
  /\ {MaxModules, MaxSponsorships, MaxBookings, MaxStray} \subseteq Nat
  /\ {MaxTime, Horizon, XcavSupply, U8Max} \subseteq Nat
ASSUME UsersAssumption == IsFiniteSet(Users)    \* a key has 32 bytes
ASSUME InputsAssumption ==
  /\ Amounts \subseteq 1..U64Max /\ Scores \subseteq Bps
  /\ InitialRoles \subseteq Users \X RoleNames
  /\ RoleChanges \subseteq Users \X RoleNames
  /\ Configs # {} /\ Configs \subseteq ConfigParams
ASSUME DecimalsAssumption ==
  /\ Decimals \in [Assets -> Nat]
  /\ \A a \in Assets : 10^Decimals[a] \in Nat \ {0}
VARIABLES
  now,             \* Clock::unix_timestamp
  config,          \* the protocol parameters, read live
  roles,           \* <<user, role>> pairs with a role account
  next_id,         \* the id counters of Config
  modules, module_vault,
  sponsorships, sponsor_escrow,
  bookings, booking_escrow,
  stray,           \* unsolicited transfers into an open escrow, by escrow
  deliverers,
  counters,        \* CancellationCounter::count, by school
  cancellations,   \* Cancellation records
  credentials,
  vault, treasury  \* XCAV locked, XCAV slashed

moduleVars  == <<modules, module_vault>>
sponsorVars == <<sponsorships, sponsor_escrow>>
bookingVars == <<bookings, booking_escrow>>
cancelVars  == <<counters, cancellations>>
xcavVars    == <<vault, treasury>>
envVars     == <<now, config, roles>>
vars == <<envVars, next_id, moduleVars, sponsorVars, bookingVars, stray,
          deliverers, cancelVars, credentials, xcavVars>>
-----------------------------------------------------------------------------
Module ==
  [creator : Users, deposit : Nat, terms : Terms, sponsor_allocation : Nat,
   school_allocation : Nat, student_allocation : Nat]

Sponsorship ==
  [module : ModuleIds, sponsor : Users, asset : Assets, amount : Nat,
   active_bookings : Nat, price_per_token : Nat, sponsored_at : Nat]

Booking ==
  [module : ModuleIds, sponsorship : SponsorIds, school : Users,
   lecturer : Users \cup {None}, asset : Assets, price_per_token : Nat,
   score : Bps \cup {None}, score_at : Nat \cup {None}, settled : BOOLEAN,
   disputer : Users \cup {None}, proposed_score : Bps \cup {None},
   deposit : Nat, delivery_at : Nat]

Deliverer ==
  [deposit : Nat, active_claims : Nat, active_strikes : Nat,
   successful_deliveries : Nat]

Cancellation == [school : Users, booking : BookingIds, created_at : Nat]

Credential ==
  [booking : BookingIds, kind : Kinds, recipient : Recipients,
   score : Bps \cup {None}]

\* None stands for an account that does not exist, or an Option that is unset.
ASSUME NoneAssumption ==
  None \notin Users \cup Nat \cup Module \cup Sponsorship \cup Booking \cup Deliverer

TypeOK ==
  /\ now \in Nat /\ config \in Configs /\ roles \subseteq Users \X RoleNames
  /\ next_id \in [module : Nat, sponsor : Nat, booking : Nat]
  /\ modules \in [ModuleIds -> Module \cup {None}]
  /\ module_vault \in [ModuleIds -> Nat]
  /\ sponsorships \in [SponsorIds -> Sponsorship \cup {None}]
  /\ sponsor_escrow \in [SponsorIds -> Nat \cup {None}]
  /\ bookings \in [BookingIds -> Booking \cup {None}]
  /\ booking_escrow \in [BookingIds -> Nat \cup {None}]
  /\ stray \in [sponsor : [SponsorIds -> Nat], booking : [BookingIds -> Nat]]
  /\ deliverers \in [Users -> Deliverer \cup {None}]
  /\ counters \in [Users -> Nat]
  /\ cancellations \subseteq Cancellation
  /\ credentials \subseteq Credential
  /\ vault \in Nat /\ treasury \in Nat

\* initialize_config has run, with parameters it accepts; nothing else has.
Init ==
  /\ now = 0 /\ config \in Configs /\ roles = InitialRoles
  /\ next_id = [module |-> 0, sponsor |-> 0, booking |-> 0]
  /\ modules = [m \in ModuleIds |-> None]
  /\ module_vault = [m \in ModuleIds |-> 0]
  /\ sponsorships = [s \in SponsorIds |-> None]
  /\ sponsor_escrow = [s \in SponsorIds |-> None]
  /\ bookings = [b \in BookingIds |-> None]
  /\ booking_escrow = [b \in BookingIds |-> None]
  /\ stray = [sponsor |-> [s \in SponsorIds |-> 0],
              booking |-> [b \in BookingIds |-> 0]]
  /\ deliverers = [u \in Users |-> None]
  /\ counters = [u \in Users |-> 0]
  /\ cancellations = {} /\ credentials = {}
  /\ vault = 0 /\ treasury = 0
-----------------------------------------------------------------------------
HasRole(u, r) == <<u, r>> \in roles

\* lock_to_vault: the signer's wallet can cover the amount.  Wallets share what is
\* neither locked nor slashed; WithdrawTreasury gives them back what was slashed.
Lockable(amount) == vault + treasury + amount <= XcavSupply

\* An emptied escrow is closed; a stray balance keeps it open.
CloseIfEmpty_Always(balance) == None    \* mutant
CloseIfEmpty(balance) == IF balance = 0 THEN None ELSE balance

\* saturating_sub(1)
Decrement_Wraps(n)  == n - 1            \* mutant
Decrement_Resets(n) == 0                \* mutant
Decrement(n) == IF n = 0 THEN 0 ELSE n - 1

AtMost(x, y) == IF x <= y THEN x ELSE y

slash_per_strike == fee_ceil(config.deliverer_deposit, config.strike_slash_bps)

\* A sponsorship may be closed when nothing can be booked from it or returned
\* to it any more.
SponsorshipSpent_IgnoresBookings(p) == p.amount = 0     \* mutant
SponsorshipSpent(p) == p.amount = 0 /\ p.active_bookings = 0

\* remove_module's condition: every token burned.
FullyBurned_ByAllocations(m) ==         \* mutant
  /\ modules[m].sponsor_allocation = 0 /\ modules[m].school_allocation = 0
  /\ modules[m].student_allocation = 0
FullyBurned(m) == module_vault[m] = 0

\* What register_deliverer has to lock on top of what the record holds.
TopUp_Full(d) == config.deliverer_deposit               \* mutant
TopUp(d) == IF config.deliverer_deposit > d.deposit
            THEN config.deliverer_deposit - d.deposit ELSE 0

MayUnregister_Always(d) == TRUE         \* mutant
MayUnregister(d) == d.active_claims = 0

\* Each concurrent claim, the new one included, is backed by one strike.
BacksOneMore_OffByOne(d) == d.deposit >= slash_per_strike * d.active_claims  \* mutant
BacksOneMore(d) == d.deposit >= slash_per_strike * (d.active_claims + 1)

\* The module and the sponsorship after a booking is undone.  The token of a
\* claimed booking is in no allocation, that of an unclaimed one in the
\* student allocation.
ModuleAfterReturn_AlwaysStudent(mod, claimed) ==        \* mutant
  [mod EXCEPT !.school_allocation = @ + 1, !.student_allocation = Decrement(@)]
ModuleAfterReturn(mod, claimed) ==
  [mod EXCEPT !.school_allocation = @ + 1,
              !.student_allocation = IF claimed THEN @ ELSE @ - 1]

SponsorshipAfterReturn_NotBookable(p) ==                \* mutant
  [p EXCEPT !.active_bookings = @ - 1]
SponsorshipAfterReturn(p) ==
  [p EXCEPT !.amount = @ + 1, !.active_bookings = @ - 1]

\* expire_booking's condition: past the scheduled delivery and the grace.
NoShow_OnlyClaimed(k) ==                \* mutant
  k.lecturer # None /\ now > k.delivery_at + config.no_show_grace
NoShow(k) == now > k.delivery_at + config.no_show_grace

\* The one allowed dispute has not been raised.
Undisputed_NonePending(k) == k.proposed_score = None    \* mutant
Undisputed(k) == k.disputer = None

\* mint_credential's condition: the result is final.
Attestable_OnceScored(k) == k.score # None              \* mutant
Attestable(k) == k.settled
-----------------------------------------------------------------------------
(* Modules and sponsorships *)

CreateModule(u, n) ==
  /\ HasRole(u, "ModuleCreator")
  /\ n <= config.max_module_tokens
  /\ Lockable(config.module_deposit)
  /\ next_id.module < MaxModules
  /\ modules' = [modules EXCEPT ![next_id.module] =
       [creator |-> u, deposit |-> config.module_deposit, terms |-> config.terms,
        sponsor_allocation |-> n, school_allocation |-> 0,
        student_allocation |-> 0]]
  /\ module_vault' = [module_vault EXCEPT ![next_id.module] = n]
  /\ next_id' = [next_id EXCEPT !.module = @ + 1]
  /\ vault' = vault + config.module_deposit
  /\ UNCHANGED <<envVars, sponsorVars, bookingVars, stray, deliverers,
                 cancelVars, credentials, treasury>>

SponsorModule(u, m, a, n) ==
  LET price == price_per_token(modules[m].terms, Decimals[a])
      s     == next_id.sponsor
  IN
  /\ HasRole(u, "ModuleSponsor")
  /\ modules[m] # None
  /\ a \in config.accepted_assets
  /\ n <= modules[m].sponsor_allocation
  /\ PriceFits(modules[m].terms, Decimals[a]) /\ price * n <= U64Max
  /\ s < MaxSponsorships
  /\ sponsorships' = [sponsorships EXCEPT ![s] =
       [module |-> m, sponsor |-> u, asset |-> a, amount |-> n,
        active_bookings |-> 0, price_per_token |-> price, sponsored_at |-> now]]
  /\ sponsor_escrow' = [sponsor_escrow EXCEPT ![s] = price * n]
  /\ modules' = [modules EXCEPT ![m].sponsor_allocation = @ - n,
                                ![m].school_allocation = @ + n]
  /\ next_id' = [next_id EXCEPT !.sponsor = @ + 1]
  /\ UNCHANGED <<envVars, module_vault, bookingVars, stray, deliverers,
                 cancelVars, credentials, xcavVars>>

ReclaimSponsorship(u, s, n) ==
  LET p == sponsorships[s] IN
  /\ p # None
  /\ p.sponsor = u
  /\ modules[p.module] # None
  /\ n <= p.amount
  /\ now > p.sponsored_at + config.sponsorship_window
  /\ sponsor_escrow[s] # None /\ sponsor_escrow[s] >= p.price_per_token * n
  /\ modules[p.module].school_allocation >= n
  /\ sponsor_escrow' = [sponsor_escrow EXCEPT ![s] = @ - p.price_per_token * n]
  /\ modules' = [modules EXCEPT ![p.module].school_allocation = @ - n,
                                ![p.module].sponsor_allocation = @ + n]
  /\ sponsorships' = [sponsorships EXCEPT ![s].amount = @ - n]
  /\ UNCHANGED <<envVars, next_id, module_vault, bookingVars, stray, deliverers,
                 cancelVars, credentials, xcavVars>>

CloseSponsorship(u, s) ==
  /\ sponsorships[s] # None
  /\ sponsorships[s].sponsor = u
  /\ SponsorshipSpent(sponsorships[s])
  /\ sponsor_escrow[s] # None
  /\ sponsor_escrow' = [sponsor_escrow EXCEPT ![s] = CloseIfEmpty(@)]
  /\ sponsorships' = [sponsorships EXCEPT ![s] = None]
  /\ UNCHANGED <<envVars, next_id, moduleVars, bookingVars, stray, deliverers,
                 cancelVars, credentials, xcavVars>>

BurnUnsponsored(u, m, n) ==
  /\ HasRole(u, "ModuleCreator")
  /\ modules[m] # None
  /\ modules[m].creator = u
  /\ n <= modules[m].sponsor_allocation
  /\ module_vault[m] >= n
  /\ module_vault' = [module_vault EXCEPT ![m] = @ - n]
  /\ modules' = [modules EXCEPT ![m].sponsor_allocation = @ - n]
  /\ UNCHANGED <<envVars, next_id, sponsorVars, bookingVars, stray, deliverers,
                 cancelVars, credentials, xcavVars>>

RemoveModule(u, m) ==
  /\ HasRole(u, "ModuleCreator")
  /\ modules[m] # None
  /\ modules[m].creator = u
  /\ FullyBurned(m)
  /\ vault >= modules[m].deposit
  /\ vault' = vault - modules[m].deposit
  /\ modules' = [modules EXCEPT ![m] = None]
  /\ UNCHANGED <<envVars, next_id, module_vault, sponsorVars, bookingVars, stray,
                 deliverers, cancelVars, credentials, treasury>>
-----------------------------------------------------------------------------
(* Deliverers *)

RegisterDeliverer(u) ==
  LET old == IF deliverers[u] = None
             THEN [deposit |-> 0, active_claims |-> 0, active_strikes |-> 0,
                   successful_deliveries |-> 0]
             ELSE deliverers[u]
      additional == TopUp(old)
  IN
  /\ HasRole(u, "ModuleDeliverer")
  /\ Lockable(additional)
  /\ deliverers' = [deliverers EXCEPT ![u] =
                      [old EXCEPT !.deposit = IF additional > 0
                                               THEN config.deliverer_deposit ELSE @]]
  /\ vault' = vault + additional
  /\ UNCHANGED <<envVars, next_id, moduleVars, sponsorVars, bookingVars, stray,
                 cancelVars, credentials, treasury>>

UnregisterDeliverer(u) ==
  /\ deliverers[u] # None
  /\ MayUnregister(deliverers[u])
  /\ vault >= deliverers[u].deposit
  /\ vault' = vault - deliverers[u].deposit
  /\ roles' = roles \ {<<u, "ModuleDeliverer">>}
  /\ deliverers' = [deliverers EXCEPT ![u] = None]
  /\ UNCHANGED <<now, config, next_id, moduleVars, sponsorVars, bookingVars,
                 stray, cancelVars, credentials, treasury>>
-----------------------------------------------------------------------------
(* Bookings *)

BookModule(u, s, delivery_at) ==
  LET p == sponsorships[s]
      b == next_id.booking
  IN
  /\ HasRole(u, "ModuleBooker")
  /\ p # None
  /\ modules[p.module] # None
  /\ modules[p.module].school_allocation >= 1
  /\ p.amount > 0
  /\ delivery_at \in now..(now + config.max_delivery_window)
  /\ Lockable(config.booking_deposit)
  /\ sponsor_escrow[s] # None /\ sponsor_escrow[s] >= p.price_per_token
  /\ b < MaxBookings /\ now <= Horizon
  /\ bookings' = [bookings EXCEPT ![b] =
       [module |-> p.module, sponsorship |-> s, school |-> u, lecturer |-> None,
        asset |-> p.asset, price_per_token |-> p.price_per_token,
        score |-> None, score_at |-> None, settled |-> FALSE,
        disputer |-> None, proposed_score |-> None,
        deposit |-> config.booking_deposit, delivery_at |-> delivery_at]]
  /\ booking_escrow' = [booking_escrow EXCEPT ![b] = p.price_per_token]
  /\ sponsor_escrow' = [sponsor_escrow EXCEPT ![s] = @ - p.price_per_token]
  /\ sponsorships' = [sponsorships EXCEPT ![s].amount = @ - 1,
                                          ![s].active_bookings = @ + 1]
  /\ modules' = [modules EXCEPT ![p.module].school_allocation = @ - 1,
                                ![p.module].student_allocation = @ + 1]
  /\ next_id' = [next_id EXCEPT !.booking = @ + 1]
  /\ vault' = vault + config.booking_deposit
  /\ UNCHANGED <<envVars, module_vault, stray, deliverers, cancelVars,
                 credentials, treasury>>

ClaimBooking(u, b) ==
  LET k == bookings[b] IN
  /\ HasRole(u, "ModuleDeliverer")
  /\ k # None /\ deliverers[u] # None
  /\ modules[k.module] # None
  /\ k.lecturer = None
  /\ k.school # u
  /\ BacksOneMore(deliverers[u])
  /\ modules[k.module].student_allocation >= 1
  /\ modules' = [modules EXCEPT ![k.module].student_allocation = @ - 1]
  /\ bookings' = [bookings EXCEPT ![b].lecturer = u]
  /\ deliverers' = [deliverers EXCEPT ![u].active_claims = @ + 1]
  /\ UNCHANGED <<envVars, next_id, module_vault, sponsorVars, booking_escrow,
                 stray, cancelVars, credentials, xcavVars>>

CancelClaim(u, b) ==
  LET k == bookings[b]
      strikes == deliverers[u].active_strikes + 1
      slash == IF strikes >= config.max_strikes
               THEN AtMost(slash_per_strike, deliverers[u].deposit) ELSE 0
  IN
  /\ HasRole(u, "ModuleDeliverer")
  /\ k # None /\ deliverers[u] # None
  /\ modules[k.module] # None
  /\ k.lecturer = u
  /\ k.score = None
  /\ strikes <= U8Max
  /\ vault >= slash
  /\ deliverers[u].active_claims >= 1
  /\ vault' = vault - slash
  /\ treasury' = treasury + slash
  /\ bookings' = [bookings EXCEPT ![b].lecturer = None]
  /\ deliverers' = [deliverers EXCEPT ![u].deposit = @ - slash,
                                      ![u].active_strikes = strikes,
                                      ![u].active_claims = @ - 1]
  /\ modules' = [modules EXCEPT ![k.module].student_allocation = @ + 1]
  /\ UNCHANGED <<envVars, next_id, module_vault, sponsorVars, booking_escrow,
                 stray, cancelVars, credentials>>

\* What cancelling and expiring an unscored booking share: the payment goes
\* back to the sponsor escrow, the token to the school allocation, a claim is
\* released without a strike, and the booking is closed.
MayReturnToken(b) ==
  LET k == bookings[b]
      s == k.sponsorship
      m == k.module
      u == k.lecturer
  IN
  /\ modules[m] # None /\ sponsorships[s] # None
  /\ sponsor_escrow[s] # None
  /\ booking_escrow[b] # None /\ booking_escrow[b] >= k.price_per_token
  /\ sponsorships[s].active_bookings >= 1
  /\ IF u = None THEN modules[m].student_allocation >= 1
                 ELSE deliverers[u] # None /\ deliverers[u].active_claims >= 1

ReturnToken(b) ==
  LET k == bookings[b]
      s == k.sponsorship
      m == k.module
      u == k.lecturer
  IN
  /\ MayReturnToken(b)
  /\ sponsor_escrow' = [sponsor_escrow EXCEPT ![s] = @ + k.price_per_token]
  /\ booking_escrow' = [booking_escrow EXCEPT
                          ![b] = CloseIfEmpty(@ - k.price_per_token)]
  /\ sponsorships' = [sponsorships EXCEPT ![s] = SponsorshipAfterReturn(@)]
  /\ modules' = [modules EXCEPT ![m] = ModuleAfterReturn(@, u # None)]
  /\ bookings' = [bookings EXCEPT ![b] = None]
  /\ \/ /\ u = None
        /\ UNCHANGED deliverers
     \/ /\ u # None
        /\ deliverers' = [deliverers EXCEPT ![u].active_claims = @ - 1]

MayCancelBooking(u, b) ==
  LET k == bookings[b] IN
  /\ k # None
  /\ k.school = u
  /\ k.score = None
  /\ MayReturnToken(b)
  /\ vault >= k.deposit

CancelBooking(u, b) ==
  LET k == bookings[b]
      count == counters[u] + 1
  IN
  /\ MayCancelBooking(u, b)
  /\ ReturnToken(b)
  /\ vault' = vault - k.deposit
  /\ treasury' = IF count >= config.max_cancellations
                 THEN treasury + k.deposit ELSE treasury
  /\ counters' = [counters EXCEPT ![u] = count]
  /\ cancellations' = cancellations \cup
                        {[school |-> u, booking |-> b, created_at |-> now]}
  /\ UNCHANGED <<envVars, next_id, module_vault, stray, credentials>>

ClearOldCancellation(u, c) ==
  /\ c \in cancellations
  /\ c.school = u
  /\ now - c.created_at > config.cancellation_window
  /\ counters' = [counters EXCEPT ![u] = Decrement(@)]
  /\ cancellations' = cancellations \ {c}
  /\ UNCHANGED <<envVars, next_id, moduleVars, sponsorVars, bookingVars, stray,
                 deliverers, credentials, xcavVars>>

MayExpireBooking(b) ==
  LET k == bookings[b] IN
  /\ k # None
  /\ k.score = None
  /\ NoShow(k)
  /\ MayReturnToken(b)
  /\ vault >= k.deposit

ExpireBooking(b) ==
  /\ MayExpireBooking(b)
  /\ ReturnToken(b)
  /\ vault' = vault - bookings[b].deposit
  /\ UNCHANGED <<envVars, next_id, module_vault, stray, cancelVars, credentials,
                 treasury>>
-----------------------------------------------------------------------------
(* Scoring and settlement *)

SubmitImpactScore(u, b, score) ==
  LET k == bookings[b] IN
  /\ HasRole(u, "ModuleAIAgent")
  /\ k # None
  /\ k.lecturer # None
  /\ k.score = None
  /\ now >= k.delivery_at /\ now <= Horizon
  /\ bookings' = [bookings EXCEPT ![b].score = score, ![b].score_at = now]
  /\ UNCHANGED <<envVars, next_id, moduleVars, sponsorVars, booking_escrow,
                 stray, deliverers, cancelVars, credentials, xcavVars>>

DisputeScore(u, b, proposed) ==
  LET k == bookings[b] IN
  /\ k # None
  /\ ~k.settled
  /\ k.score_at # None
  /\ Undisputed(k)
  /\ u \in {k.school, k.lecturer}
  /\ now < k.score_at + config.dispute_window
  /\ bookings' = [bookings EXCEPT ![b].disputer = u,
                                  ![b].proposed_score = proposed]
  /\ UNCHANGED <<envVars, next_id, moduleVars, sponsorVars, booking_escrow,
                 stray, deliverers, cancelVars, credentials, xcavVars>>

ResolveDispute(u, b, accept) ==
  LET k == bookings[b] IN
  /\ k # None
  /\ ~k.settled
  /\ k.proposed_score # None /\ k.disputer # None /\ k.lecturer # None
  /\ u = IF k.disputer = k.school THEN k.lecturer ELSE k.school
  /\ bookings' = [bookings EXCEPT
                    ![b].score = IF accept THEN k.proposed_score ELSE @,
                    ![b].proposed_score = None]
  /\ UNCHANGED <<envVars, next_id, moduleVars, sponsorVars, booking_escrow,
                 stray, deliverers, cancelVars, credentials, xcavVars>>

\* The deliverer record after a settlement: the claim ends whether or not it
\* paid; a paid delivery counts, and may retire a strike.
AfterDelivery(d, paid) ==
  LET done == d.successful_deliveries + (IF paid THEN 1 ELSE 0)
      every == config.deliveries_per_strike_reduction
  IN  [d EXCEPT !.active_claims = @ - 1,
                !.successful_deliveries = done,
                !.active_strikes = IF paid /\ every > 0 /\ done % every = 0
                                   THEN Decrement(@) ELSE @]

MayFinalizeScore(u, b) ==
  LET k == bookings[b]
      m == k.module
      d == k.lecturer
      min == config.min_impact_score_bps
      window_over == now >= k.score_at + config.dispute_window
  IN
  /\ k # None
  /\ ~k.settled
  /\ k.lecturer # None /\ k.score # None /\ k.score_at # None
  /\ modules[m] # None /\ deliverers[d] # None
  /\ k.proposed_score # None => window_over
  /\ \/ window_over
     \/ u \in {k.school, k.lecturer}
     \/ k.disputer # None
  /\ PayoutFits(scale_to_asset(modules[m].terms.price, Decimals[k.asset]),
                modules[m].terms.fees, k.price_per_token, k.score, min)
  /\ deliverers[d].active_claims >= 1
  /\ booking_escrow[b] # None /\ booking_escrow[b] >= k.price_per_token
  /\ module_vault[m] >= 1

FinalizeScore(u, b) ==
  LET k == bookings[b]
      m == k.module
      d == k.lecturer
      min == config.min_impact_score_bps
  IN
  /\ MayFinalizeScore(u, b)
  /\ deliverers' = [deliverers EXCEPT ![d] = AfterDelivery(@, k.score >= min)]
  /\ booking_escrow' = [booking_escrow EXCEPT ![b] = @ - k.price_per_token]
  /\ module_vault' = [module_vault EXCEPT ![m] = @ - 1]
  /\ bookings' = [bookings EXCEPT ![b].proposed_score = None,
                                  ![b].settled = TRUE]
  /\ UNCHANGED <<envVars, next_id, modules, sponsorVars, stray, cancelVars,
                 credentials, xcavVars>>

MayFinishBooking(b) ==
  LET k == bookings[b]
      s == k.sponsorship
  IN
  /\ k # None
  /\ k.settled
  /\ sponsorships[s] # None /\ sponsorships[s].active_bookings >= 1
  /\ booking_escrow[b] # None
  /\ vault >= k.deposit

FinishBooking(b) ==
  LET k == bookings[b]
      s == k.sponsorship
  IN
  /\ MayFinishBooking(b)
  /\ vault' = vault - k.deposit
  /\ sponsorships' = [sponsorships EXCEPT ![s].active_bookings = @ - 1]
  /\ booking_escrow' = [booking_escrow EXCEPT ![b] = CloseIfEmpty(@)]
  /\ bookings' = [bookings EXCEPT ![b] = None]
  /\ UNCHANGED <<envVars, next_id, moduleVars, sponsor_escrow, stray, deliverers,
                 cancelVars, credentials, treasury>>

MintCredential(u, b, kind, recipient) ==
  LET k == bookings[b] IN
  /\ HasRole(u, "ModuleAIAgent")
  /\ k # None
  /\ modules[k.module] # None
  /\ Attestable(k)
  /\ \A c \in credentials : <<c.booking, c.kind, c.recipient>> # <<b, kind, recipient>>
  /\ credentials' = credentials \cup
       {[booking |-> b, kind |-> kind, recipient |-> recipient,
         score |-> IF kind = "Student" THEN k.score ELSE None]}
  /\ UNCHANGED <<envVars, next_id, moduleVars, sponsorVars, bookingVars, stray,
                 deliverers, cancelVars, xcavVars>>
-----------------------------------------------------------------------------
(* The authority, the roles program and the rest of the chain *)

UpdateConfig ==
  /\ config' \in Configs
  /\ UNCHANGED <<now, roles, next_id, moduleVars, sponsorVars, bookingVars,
                 stray, deliverers, cancelVars, credentials, xcavVars>>

\* withdraw_treasury of education-regions: slashed XCAV returns to the wallets.
WithdrawTreasury ==
  /\ \E amount \in 1..treasury : treasury' = treasury - amount
  /\ UNCHANGED <<envVars, next_id, moduleVars, sponsorVars, bookingVars,
                 stray, deliverers, cancelVars, credentials, vault>>

\* assign_role, remove_role and renounce_role of xcavate-roles, as this program
\* sees them: a role account appears or disappears.
ChangeRole(u, r) ==
  /\ <<u, r>> \in RoleChanges
  /\ roles' = IF HasRole(u, r) THEN roles \ {<<u, r>>} ELSE roles \cup {<<u, r>>}
  /\ UNCHANGED <<now, config, next_id, moduleVars, sponsorVars, bookingVars,
                 stray, deliverers, cancelVars, credentials, xcavVars>>

\* Anyone may transfer tokens into an escrow account that is open.
StrayToSponsorEscrow(s) ==
  /\ sponsor_escrow[s] # None
  /\ stray.sponsor[s] < MaxStray
  /\ sponsor_escrow' = [sponsor_escrow EXCEPT ![s] = @ + 1]
  /\ stray' = [stray EXCEPT !.sponsor[s] = @ + 1]
  /\ UNCHANGED <<envVars, next_id, moduleVars, sponsorships, bookingVars,
                 deliverers, cancelVars, credentials, xcavVars>>

StrayToBookingEscrow(b) ==
  /\ booking_escrow[b] # None
  /\ stray.booking[b] < MaxStray
  /\ booking_escrow' = [booking_escrow EXCEPT ![b] = @ + 1]
  /\ stray' = [stray EXCEPT !.booking[b] = @ + 1]
  /\ UNCHANGED <<envVars, next_id, moduleVars, sponsorVars, bookings,
                 deliverers, cancelVars, credentials, xcavVars>>

Tick ==
  /\ now < MaxTime
  /\ now' = now + 1
  /\ UNCHANGED <<config, roles, next_id, moduleVars, sponsorVars, bookingVars,
                 stray, deliverers, cancelVars, credentials, xcavVars>>

Next ==
  \/ \E u \in Users :
       \/ \E n \in Amounts : CreateModule(u, n)
       \/ \E m \in ModuleIds :
            \/ \E a \in Assets, n \in Amounts : SponsorModule(u, m, a, n)
            \/ \E n \in Amounts : BurnUnsponsored(u, m, n)
            \/ RemoveModule(u, m)
       \/ \E s \in SponsorIds :
            \/ \E n \in Amounts : ReclaimSponsorship(u, s, n)
            \/ CloseSponsorship(u, s)
            \/ \E t \in now..(now + config.max_delivery_window) : BookModule(u, s, t)
       \/ RegisterDeliverer(u)
       \/ UnregisterDeliverer(u)
       \/ \E b \in BookingIds :
            \/ ClaimBooking(u, b)
            \/ CancelClaim(u, b)
            \/ CancelBooking(u, b)
            \/ \E score \in Scores : SubmitImpactScore(u, b, score)
                                      \/ DisputeScore(u, b, score)
            \/ \E accept \in BOOLEAN : ResolveDispute(u, b, accept)
            \/ FinalizeScore(u, b)
            \/ \E kind \in Kinds, r \in Recipients : MintCredential(u, b, kind, r)
       \/ \E c \in cancellations : ClearOldCancellation(u, c)
       \/ \E r \in RoleNames : ChangeRole(u, r)
  \/ \E b \in BookingIds : ExpireBooking(b) \/ FinishBooking(b)
                             \/ StrayToBookingEscrow(b)
  \/ \E s \in SponsorIds : StrayToSponsorEscrow(s)
  \/ UpdateConfig
  \/ WithdrawTreasury
  \/ Tick

Spec == Init /\ [][Next]_vars

\* Time passes, and someone sends each permissionless crank while it would
\* succeed.  Nothing obliges a school, a lecturer, the agent or an admin to act.
Fairness ==
  /\ WF_vars(Tick)
  /\ \A b \in BookingIds : /\ WF_vars(ExpireBooking(b))
                          /\ WF_vars(\E u \in Users : FinalizeScore(u, b))
                          /\ WF_vars(FinishBooking(b))

FairSpec == Spec /\ Fairness
-----------------------------------------------------------------------------
(* What the bookkeeping means *)

LiveBookings == {b \in BookingIds : bookings[b] # None}

\* Bookings an open sponsorship still has to answer for.
BookingsOf(s) == {b \in LiveBookings : bookings[b].sponsorship = s}

\* Bookings of a module that no lecturer has claimed, and those claimed but not
\* settled, whose token is in no allocation.
Unclaimed(m)  == {b \in LiveBookings : /\ bookings[b].module = m
                                       /\ bookings[b].lecturer = None}
InDelivery(m) == {b \in LiveBookings : /\ bookings[b].module = m
                                       /\ bookings[b].lecturer # None
                                       /\ ~bookings[b].settled}

ClaimsOf(u) == {b \in LiveBookings : /\ bookings[b].lecturer = u
                                     /\ ~bookings[b].settled}

\* Every booking's sponsorship is still open, on the same module at the same
\* price, and counts it: close_sponsorship can never leave a booking whose
\* payment has no escrow to return to.
BookingsBacked ==
  /\ \A b \in LiveBookings :
       LET k == bookings[b]
           p == sponsorships[k.sponsorship]
       IN  /\ p # None
           /\ p.module = k.module /\ p.asset = k.asset
           /\ p.price_per_token = k.price_per_token
           /\ k.settled => k.lecturer # None /\ k.score # None
           /\ k.score # None => k.lecturer # None
           /\ ~k.settled => modules[k.module] # None
  /\ \A s \in SponsorIds : sponsorships[s] # None =>
       sponsorships[s].active_bookings = Cardinality(BookingsOf(s))

\* An escrow holds exactly what is owed from it plus what was sent to it
\* unasked: a sponsorship's bookable tokens, a booking's payment until it is
\* settled; once its account is closed nothing but stray tokens is left.
EscrowsExact ==
  /\ \A s \in SponsorIds :
       IF sponsorships[s] = None
       THEN sponsor_escrow[s] = IF stray.sponsor[s] = 0 THEN None ELSE stray.sponsor[s]
       ELSE sponsor_escrow[s] = sponsorships[s].price_per_token * sponsorships[s].amount
                                + stray.sponsor[s]
  /\ \A b \in BookingIds :
       IF bookings[b] = None
       THEN booking_escrow[b] = IF stray.booking[b] = 0 THEN None ELSE stray.booking[b]
       ELSE booking_escrow[b] = stray.booking[b] +
              (IF bookings[b].settled THEN 0 ELSE bookings[b].price_per_token)

\* A module's token vault holds its three allocations plus the tokens out for
\* delivery, and the student allocation is the unclaimed bookings: no token is
\* lost, duplicated, or burned twice, and an emptied vault means nothing is
\* outstanding when remove_module closes the module.
TokensAccounted ==
  \A m \in ModuleIds :
    IF modules[m] = None
    THEN module_vault[m] = 0
    ELSE /\ modules[m].student_allocation = Cardinality(Unclaimed(m))
         /\ module_vault[m] = modules[m].sponsor_allocation
                              + modules[m].school_allocation
                              + modules[m].student_allocation
                              + Cardinality(InDelivery(m))

\* A lecturer's active_claims is the number of bookings they have claimed that
\* are not settled, and while there is one they cannot unregister: the claim
\* release of cancel, expire and finalize never underflows or lacks its account.
ClaimsCounted ==
  \A u \in Users :
    IF deliverers[u] = None
    THEN ClaimsOf(u) = {}
    ELSE deliverers[u].active_claims = Cardinality(ClaimsOf(u))

\* A school's counter is the number of its uncleared cancellation records, so
\* the saturating decrement of clear_old_cancellation never saturates.
CancellationsCounted ==
  \A u \in Users :
    counters[u] = Cardinality({c \in cancellations : c.school = u})

\* With fixed parameters a lecturer's deposit backs one slash for every claim
\* they hold, whatever slashes, top-ups and settlements came before.
ClaimsBacked ==
  \A u \in Users : deliverers[u] # None =>
    deliverers[u].deposit >= slash_per_strike * deliverers[u].active_claims

\* The deposit each entry of f holds; an account that does not exist holds none.
Deposits(f) == [i \in DOMAIN f |-> IF f[i] = None THEN 0 ELSE f[i].deposit]

\* The shared XCAV vault holds exactly the deposits of the accounts that are
\* open: no refund or slash pays out another account's deposit.
VaultSolvent ==
  vault = SumFunction(Deposits(modules)) + SumFunction(Deposits(bookings))
          + SumFunction(Deposits(deliverers))

\* What each sponsorship still offers of a module's tokens.
Offers(m) ==
  [s \in SponsorIds |-> IF sponsorships[s] # None /\ sponsorships[s].module = m
                        THEN sponsorships[s].amount ELSE 0]

\* A module's school allocation is what its sponsorships still offer.
SchoolAllocationFunded ==
  \A m \in ModuleIds : modules[m] # None =>
    modules[m].school_allocation = SumFunction(Offers(m))

\* Credentials attest one result: those of a booking's students carry the same
\* score, the score the booking settled at, even after it is closed.
CredentialsAgree ==
  /\ \A c \in credentials : bookings[c.booking] # None =>
       /\ bookings[c.booking].settled
       /\ c.score \in {None, bookings[c.booking].score}
  /\ \A c, d \in credentials :
       c.booking = d.booking /\ c.kind = d.kind => c.score = d.score

\* The phase of a booking, read off its record.
Phase(b) ==
  LET k == bookings[b] IN
  IF b >= next_id.booking        THEN "None"
  ELSE IF k = None               THEN "Closed"
  ELSE IF k.settled              THEN "Settled"
  ELSE IF k.proposed_score # None THEN "Disputed"
  ELSE IF k.disputer # None      THEN "Resolved"
  ELSE IF k.score # None         THEN "Scored"
  ELSE IF k.lecturer # None      THEN "Claimed"
  ELSE "Open"

\* A field of a booking, None without a booking.
OfBooking(b, field) == IF bookings[b] = None THEN None ELSE bookings[b][field]

\* What a booking's escrow holds of its payment.
Held(b) == (IF booking_escrow[b] = None THEN 0 ELSE booking_escrow[b])
             - stray.booking[b]

Lifecycle == INSTANCE BookingLifecycle WITH
  phase     <- [b \in BookingIds |-> Phase(b)],
  school    <- [b \in BookingIds |-> OfBooking(b, "school")],
  lecturer  <- [b \in BookingIds |-> OfBooking(b, "lecturer")],
  score     <- [b \in BookingIds |-> OfBooking(b, "score")],
  amendment <- [b \in BookingIds |-> OfBooking(b, "proposed_score")],
  held      <- [b \in BookingIds |-> Held(b)]

\* Every booking follows the lifecycle of BookingLifecycle: it is scored once
\* and only while claimed, disputed at most once, its score changes only to the
\* amendment on the table and never after the dispute, and its payment leaves
\* once, either settled at the score or returned, and never returned once scored.
ImplementsLifecycle == Lifecycle!Spec

\* No booking is ever stuck: whenever the waiting time of a crank is over, the
\* crank succeeds, whoever sends it and whatever else has happened; and a school
\* can always back out before a score.
CranksNeverRevert ==
  \A b \in LiveBookings :
    LET k == bookings[b] IN
    /\ k.score = None => MayCancelBooking(k.school, b)
    /\ k.score = None /\ NoShow(k) => MayExpireBooking(b)
    /\ k.score # None /\ ~k.settled /\ now >= k.score_at + config.dispute_window =>
         \A u \in Users : MayFinalizeScore(u, b)
    /\ k.settled => MayFinishBooking(b)

\* Every booking is eventually closed and its deposit and payment let go.
EveryBookingCloses ==
  \A b \in BookingIds : bookings[b] # None ~> bookings[b] = None
=============================================================================
