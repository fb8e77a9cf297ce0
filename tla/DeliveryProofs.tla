--------------------------- MODULE DeliveryProofs ---------------------------
(***************************************************************************)
(* Delivery, for any number of users, assets, modules, sponsorships and    *)
(* bookings and any parameters the program accepts.                        *)
(*                                                                         *)
(* First the accounts one by one: each keeps its type, a booking's         *)
(* optional fields are set together (Shapes), and the payment escrows hold *)
(* exactly what is owed from them.  One lemma per action, with one step    *)
(* per variable it changes.                                                *)
(*                                                                         *)
(* Then the bookkeeping between them, from Base on: every counter kept on  *)
(* one account is the number of the accounts it counts, the tokens of a    *)
(* module and the deposits in the vault add up, cancellations are counted, *)
(* credentials agree, claims stay covered while the parameters stay, every *)
(* booking goes through the phases of BookingLifecycle, and no instruction *)
(* that only time should allow finds an account, a counter or a balance it *)
(* takes from too small.  A booking belongs to at most one of the sets a   *)
(* counter counts: Holder, Waiting, Delivering and Backing name the owner  *)
(* of that counter.  One instruction moves one booking, so it is enough    *)
(* that each counter follows the booking from its old owner to its new one *)
(* (Ledger).  The sums of deposits and of offers follow in the same way    *)
(* the one entry that an instruction changes (TotalLemmas).                *)
(***************************************************************************)
EXTENDS Delivery, PricingLemmas, TotalLemmas

USE DEF CloseIfEmpty, Decrement, AtMost

LEMMA ConfigOK ==
  ASSUME TypeOK PROVE config \in ConfigParams
  BY InputsAssumption DEF TypeOK

LEMMA AmountNat ==
  ASSUME NEW n \in Amounts PROVE n \in Nat
  BY InputsAssumption, WidthAssumption

LEMMA PriceNat ==
  ASSUME NEW terms \in Terms, NEW a \in Assets
  PROVE  price_per_token(terms, Decimals[a]) \in Nat
  <1>1. terms.price * 10^Decimals[a] \in Nat
    BY DecimalsAssumption, WidthAssumption, ProductNat DEF Terms
  <1>2. 0 \in Bps /\ terms.fees \in Fees
    BY DEF Bps, Terms
  <1> QED BY <1>1, <1>2, SharesBounded DEF price_per_token, scale_to_asset

LEMMA SlashNat ==
  ASSUME TypeOK PROVE slash_per_strike \in Nat
  BY ConfigOK, FeeNat DEF slash_per_strike, ConfigParams

\* A module keeps its type when its allocations change to numbers.
LEMMA SellsToSchools ==
  ASSUME NEW x \in Module, NEW n \in Nat, n <= x.sponsor_allocation
  PROVE  [x EXCEPT !.sponsor_allocation = @ - n, !.school_allocation = @ + n] \in Module
  <1>1. ASSUME NEW v \in Nat, NEW w \in Nat
        PROVE  [x EXCEPT !.sponsor_allocation = v, !.school_allocation = w] \in Module
    BY <1>1 DEF Module
  <1>2. x.sponsor_allocation - n \in Nat /\ x.school_allocation + n \in Nat
    BY DEF Module
  <1> QED BY <1>1, <1>2

LEMMA BooksOne ==
  ASSUME NEW x \in Module, x.school_allocation >= 1
  PROVE  [x EXCEPT !.school_allocation = @ - 1, !.student_allocation = @ + 1] \in Module
  <1>1. ASSUME NEW v \in Nat, NEW w \in Nat
        PROVE  [x EXCEPT !.school_allocation = v, !.student_allocation = w] \in Module
    BY <1>1 DEF Module
  <1>2. x.school_allocation - 1 \in Nat /\ x.student_allocation + 1 \in Nat
    BY DEF Module
  <1> QED BY <1>1, <1>2

LEMMA SpendsOne ==
  ASSUME NEW x \in Sponsorship, x.amount > 0
  PROVE  [x EXCEPT !.amount = @ - 1, !.active_bookings = @ + 1] \in Sponsorship
  <1>1. ASSUME NEW v \in Nat, NEW w \in Nat
        PROVE  [x EXCEPT !.amount = v, !.active_bookings = w] \in Sponsorship
    BY <1>1 DEF Sponsorship
  <1>2. x.amount - 1 \in Nat /\ x.active_bookings + 1 \in Nat
    BY DEF Sponsorship
  <1> QED BY <1>1, <1>2

LEMMA InitOK == Init => TypeOK
  BY InputsAssumption DEF Init, TypeOK
-----------------------------------------------------------------------------
LEMMA CreateModuleOK ==
  ASSUME TypeOK, NEW u \in Users, NEW n \in Amounts, CreateModule(u, n)
  PROVE  TypeOK'
  <1>1. n \in Nat BY AmountNat
  <1>2. config \in ConfigParams BY ConfigOK
  <1>3. next_id.module \in ModuleIds
    BY BoundsAssumption DEF TypeOK, CreateModule, ModuleIds
  <1>4. modules' \in [ModuleIds -> Module \cup {None}]
    BY <1>1, <1>2, <1>3 DEF CreateModule, TypeOK, Module, ConfigParams
  <1>5. module_vault' \in [ModuleIds -> Nat]
    BY <1>1, <1>3 DEF CreateModule, TypeOK
  <1>6. next_id' \in [module : Nat, sponsor : Nat, booking : Nat]
    BY DEF CreateModule, TypeOK
  <1>7. vault' \in Nat
    BY <1>2 DEF CreateModule, TypeOK, ConfigParams
  <1>8. UNCHANGED <<envVars, sponsorVars, bookingVars, stray, deliverers,
                    cancelVars, credentials, treasury>>
    BY DEF CreateModule
  <1> QED BY <1>4, <1>5, <1>6, <1>7, <1>8
          DEF TypeOK, envVars, sponsorVars, bookingVars, cancelVars

LEMMA SponsorModuleOK ==
  ASSUME TypeOK, NEW u \in Users, NEW m \in ModuleIds, NEW a \in Assets,
         NEW n \in Amounts, SponsorModule(u, m, a, n)
  PROVE  TypeOK'
  <1> DEFINE price == price_per_token(modules[m].terms, Decimals[a])
  <1>1. n \in Nat BY AmountNat
  <1>2. modules[m] \in Module /\ n <= modules[m].sponsor_allocation
    BY DEF TypeOK, SponsorModule
  <1>3. price \in Nat
    BY <1>2, PriceNat DEF Module
  <1>4. price * n \in Nat
    BY <1>1, <1>3, ProductNat
  <1>5. next_id.sponsor \in SponsorIds
    BY BoundsAssumption DEF TypeOK, SponsorModule, SponsorIds
  <1>6. sponsorships' = [sponsorships EXCEPT ![next_id.sponsor] =
          [module |-> m, sponsor |-> u, asset |-> a, amount |-> n,
           active_bookings |-> 0, price_per_token |-> price, sponsored_at |-> now]]
    BY DEF SponsorModule
  <1>7. sponsor_escrow' = [sponsor_escrow EXCEPT ![next_id.sponsor] = price * n]
    BY DEF SponsorModule
  <1> HIDE DEF price
  <1>8. sponsorships' \in [SponsorIds -> Sponsorship \cup {None}]
    BY <1>1, <1>3, <1>5, <1>6 DEF TypeOK, Sponsorship
  <1>9. sponsor_escrow' \in [SponsorIds -> Nat \cup {None}]
    BY <1>4, <1>5, <1>7 DEF TypeOK
  <1>10. modules' \in [ModuleIds -> Module \cup {None}]
    <2>1. modules' = [modules EXCEPT ![m].sponsor_allocation = @ - n,
                                     ![m].school_allocation = @ + n]
      BY DEF SponsorModule
    <2>2. [modules[m] EXCEPT !.sponsor_allocation = @ - n,
                             !.school_allocation = @ + n] \in Module
      BY <1>1, <1>2, SellsToSchools
    <2>3. modules' = [modules EXCEPT ![m] =
            [modules[m] EXCEPT !.sponsor_allocation = @ - n,
                               !.school_allocation = @ + n]]
      BY <2>1 DEF TypeOK
    <2> QED BY <2>2, <2>3 DEF TypeOK
  <1>11. next_id' \in [module : Nat, sponsor : Nat, booking : Nat]
    BY DEF SponsorModule, TypeOK
  <1>12. UNCHANGED <<envVars, module_vault, bookingVars, stray, deliverers,
                     cancelVars, credentials, xcavVars>>
    BY DEF SponsorModule
  <1> QED BY <1>8, <1>9, <1>10, <1>11, <1>12
          DEF TypeOK, envVars, bookingVars, cancelVars, xcavVars

LEMMA ReclaimSponsorshipOK ==
  ASSUME TypeOK, NEW u \in Users, NEW s \in SponsorIds, NEW n \in Amounts,
         ReclaimSponsorship(u, s, n)
  PROVE  TypeOK'
  <1> DEFINE cost == sponsorships[s].price_per_token * n
  <1>1. n \in Nat BY AmountNat
  <1>2. sponsorships[s] \in Sponsorship /\ n <= sponsorships[s].amount
    BY DEF TypeOK, ReclaimSponsorship
  <1>3. /\ sponsorships[s].module \in ModuleIds
        /\ modules[sponsorships[s].module] \in Module
        /\ modules[sponsorships[s].module].school_allocation >= n
    BY <1>2 DEF TypeOK, ReclaimSponsorship, Sponsorship
  <1>4. cost \in Nat
    BY <1>1, <1>2, ProductNat DEF Sponsorship
  <1>5. /\ sponsor_escrow[s] \in Nat /\ sponsor_escrow[s] >= cost
        /\ sponsor_escrow' = [sponsor_escrow EXCEPT ![s] = @ - cost]
    BY DEF TypeOK, ReclaimSponsorship
  <1> HIDE DEF cost
  <1>6. sponsor_escrow' \in [SponsorIds -> Nat \cup {None}]
    BY <1>4, <1>5 DEF TypeOK
  <1>7. modules' \in [ModuleIds -> Module \cup {None}]
    BY <1>1, <1>3 DEF ReclaimSponsorship, TypeOK, Module
  <1>8. sponsorships' \in [SponsorIds -> Sponsorship \cup {None}]
    BY <1>1, <1>2 DEF ReclaimSponsorship, TypeOK, Sponsorship
  <1>9. UNCHANGED <<envVars, next_id, module_vault, bookingVars, stray, deliverers,
                    cancelVars, credentials, xcavVars>>
    BY DEF ReclaimSponsorship
  <1> QED BY <1>6, <1>7, <1>8, <1>9
          DEF TypeOK, envVars, bookingVars, cancelVars, xcavVars

LEMMA CloseSponsorshipOK ==
  ASSUME TypeOK, NEW u \in Users, NEW s \in SponsorIds, CloseSponsorship(u, s)
  PROVE  TypeOK'
  <1>1. sponsor_escrow' \in [SponsorIds -> Nat \cup {None}]
    BY DEF CloseSponsorship, TypeOK
  <1>2. sponsorships' \in [SponsorIds -> Sponsorship \cup {None}]
    BY DEF CloseSponsorship, TypeOK
  <1>3. UNCHANGED <<envVars, next_id, moduleVars, bookingVars, stray, deliverers,
                    cancelVars, credentials, xcavVars>>
    BY DEF CloseSponsorship
  <1> QED BY <1>1, <1>2, <1>3
          DEF TypeOK, envVars, moduleVars, bookingVars, cancelVars, xcavVars

LEMMA BurnUnsponsoredOK ==
  ASSUME TypeOK, NEW u \in Users, NEW m \in ModuleIds, NEW n \in Amounts,
         BurnUnsponsored(u, m, n)
  PROVE  TypeOK'
  <1>1. n \in Nat BY AmountNat
  <1>2. modules' \in [ModuleIds -> Module \cup {None}]
    BY <1>1 DEF BurnUnsponsored, TypeOK, Module
  <1>3. module_vault' \in [ModuleIds -> Nat]
    BY <1>1 DEF BurnUnsponsored, TypeOK
  <1>4. UNCHANGED <<envVars, next_id, sponsorVars, bookingVars, stray, deliverers,
                    cancelVars, credentials, xcavVars>>
    BY DEF BurnUnsponsored
  <1> QED BY <1>2, <1>3, <1>4
          DEF TypeOK, envVars, sponsorVars, bookingVars, cancelVars, xcavVars

LEMMA RemoveModuleOK ==
  ASSUME TypeOK, NEW u \in Users, NEW m \in ModuleIds, RemoveModule(u, m)
  PROVE  TypeOK'
  <1>1. modules' \in [ModuleIds -> Module \cup {None}]
    BY DEF RemoveModule, TypeOK
  <1>2. vault' \in Nat
    BY DEF RemoveModule, TypeOK, Module
  <1>3. UNCHANGED <<envVars, next_id, module_vault, sponsorVars, bookingVars, stray,
                    deliverers, cancelVars, credentials, treasury>>
    BY DEF RemoveModule
  <1> QED BY <1>1, <1>2, <1>3
          DEF TypeOK, envVars, sponsorVars, bookingVars, cancelVars
-----------------------------------------------------------------------------
LEMMA RegisterDelivererOK ==
  ASSUME TypeOK, NEW u \in Users, RegisterDeliverer(u)
  PROVE  TypeOK'
  <1> DEFINE old == IF deliverers[u] = None
                    THEN [deposit |-> 0, active_claims |-> 0, active_strikes |-> 0,
                          successful_deliveries |-> 0]
                    ELSE deliverers[u]
             additional == TopUp(old)
             required == config.deliverer_deposit
  <1>1. required \in Nat
    BY ConfigOK DEF ConfigParams
  <1>2. old \in Deliverer
    BY DEF TypeOK, Deliverer
  <1>3. /\ deliverers' = [deliverers EXCEPT ![u] =
              [old EXCEPT !.deposit = IF additional > 0 THEN required ELSE @]]
        /\ vault' = vault + additional
    BY DEF RegisterDeliverer
  <1>4. UNCHANGED <<envVars, next_id, moduleVars, sponsorVars, bookingVars, stray,
                    cancelVars, credentials, treasury>>
    BY DEF RegisterDeliverer
  <1> HIDE DEF old
  <1>5. additional \in Nat
    BY <1>1, <1>2 DEF TopUp, Deliverer
  <1> HIDE DEF additional, required
  <1>6. [old EXCEPT !.deposit = IF additional > 0 THEN required ELSE @] \in Deliverer
    BY <1>1, <1>2 DEF Deliverer
  <1>7. deliverers' \in [Users -> Deliverer \cup {None}]
    BY <1>3, <1>6 DEF TypeOK
  <1>8. vault' \in Nat
    BY <1>3, <1>5 DEF TypeOK
  <1> QED BY <1>4, <1>7, <1>8
          DEF TypeOK, envVars, moduleVars, sponsorVars, bookingVars, cancelVars

LEMMA UnregisterDelivererOK ==
  ASSUME TypeOK, NEW u \in Users, UnregisterDeliverer(u)
  PROVE  TypeOK'
  <1>1. vault' \in Nat
    BY DEF UnregisterDeliverer, TypeOK, Deliverer
  <1>2. roles' \subseteq Users \X RoleNames
    BY DEF UnregisterDeliverer, TypeOK
  <1>3. deliverers' \in [Users -> Deliverer \cup {None}]
    BY DEF UnregisterDeliverer, TypeOK
  <1>4. UNCHANGED <<now, config, next_id, moduleVars, sponsorVars, bookingVars,
                    stray, cancelVars, credentials, treasury>>
    BY DEF UnregisterDeliverer
  <1> QED BY <1>1, <1>2, <1>3, <1>4
          DEF TypeOK, moduleVars, sponsorVars, bookingVars, cancelVars
-----------------------------------------------------------------------------
LEMMA BookModuleOK ==
  ASSUME TypeOK, NEW u \in Users, NEW s \in SponsorIds,
         NEW t \in now..(now + config.max_delivery_window), BookModule(u, s, t)
  PROVE  TypeOK'
  <1> DEFINE p == sponsorships[s]
             b == next_id.booking
             k == [module |-> p.module, sponsorship |-> s, school |-> u,
                   lecturer |-> None, asset |-> p.asset,
                   price_per_token |-> p.price_per_token,
                   score |-> None, score_at |-> None, settled |-> FALSE,
                   disputer |-> None, proposed_score |-> None,
                   deposit |-> config.booking_deposit, delivery_at |-> t]
  <1>1. config.booking_deposit \in Nat
    BY ConfigOK DEF ConfigParams
  <1>2. p \in Sponsorship /\ p.amount > 0
    BY DEF TypeOK, BookModule
  <1>3. /\ p.module \in ModuleIds /\ modules[p.module] \in Module
        /\ modules[p.module].school_allocation >= 1
    BY <1>2 DEF TypeOK, BookModule, Sponsorship
  <1>4. b \in BookingIds
    BY BoundsAssumption DEF TypeOK, BookModule, BookingIds
  <1>5. /\ bookings' = [bookings EXCEPT ![b] = k]
        /\ booking_escrow' = [booking_escrow EXCEPT ![b] = p.price_per_token]
        /\ sponsor_escrow' = [sponsor_escrow EXCEPT ![s] = @ - p.price_per_token]
        /\ sponsor_escrow[s] # None /\ sponsor_escrow[s] >= p.price_per_token
        /\ sponsorships' = [sponsorships EXCEPT ![s] =
             [p EXCEPT !.amount = @ - 1, !.active_bookings = @ + 1]]
        /\ modules' = [modules EXCEPT ![p.module] =
             [modules[p.module] EXCEPT !.school_allocation = @ - 1,
                                       !.student_allocation = @ + 1]]
    BY DEF BookModule, TypeOK
  <1>6. t \in Nat
    BY DEF TypeOK
  <1>7. k \in Booking
    BY <1>1, <1>2, <1>6 DEF Booking, Sponsorship
  <1>8. bookings' \in [BookingIds -> Booking \cup {None}]
    <2> HIDE DEF k, b
    <2> QED BY <1>4, <1>5, <1>7 DEF TypeOK
  <1>9. booking_escrow' \in [BookingIds -> Nat \cup {None}]
    BY <1>2, <1>4, <1>5 DEF TypeOK, Sponsorship
  <1>10. sponsor_escrow' \in [SponsorIds -> Nat \cup {None}]
    BY <1>2, <1>5 DEF TypeOK, Sponsorship
  <1>11. sponsorships' \in [SponsorIds -> Sponsorship \cup {None}]
    <2>1. [p EXCEPT !.amount = @ - 1, !.active_bookings = @ + 1] \in Sponsorship
      BY <1>2, SpendsOne
    <2> QED BY <1>5, <2>1 DEF TypeOK
  <1>12. modules' \in [ModuleIds -> Module \cup {None}]
    <2>1. [modules[p.module] EXCEPT !.school_allocation = @ - 1,
                                    !.student_allocation = @ + 1] \in Module
      BY <1>3, BooksOne
    <2> QED BY <1>5, <2>1 DEF TypeOK
  <1>13. next_id' \in [module : Nat, sponsor : Nat, booking : Nat]
    BY DEF BookModule, TypeOK
  <1>14. vault' \in Nat
    BY <1>1 DEF BookModule, TypeOK
  <1>15. UNCHANGED <<envVars, module_vault, stray, deliverers, cancelVars,
                     credentials, treasury>>
    BY DEF BookModule
  <1> HIDE DEF k, b, p
  <1> QED BY <1>8, <1>9, <1>10, <1>11, <1>12, <1>13, <1>14, <1>15
          DEF TypeOK, envVars, cancelVars

LEMMA ClaimBookingOK ==
  ASSUME TypeOK, NEW u \in Users, NEW b \in BookingIds, ClaimBooking(u, b)
  PROVE  TypeOK'
  <1>1. bookings[b] \in Booking /\ bookings[b].module \in ModuleIds
    BY DEF TypeOK, ClaimBooking, Booking
  <1>2. modules' \in [ModuleIds -> Module \cup {None}]
    BY <1>1 DEF ClaimBooking, TypeOK, Module
  <1>3. bookings' \in [BookingIds -> Booking \cup {None}]
    BY <1>1 DEF ClaimBooking, TypeOK, Booking
  <1>4. deliverers' \in [Users -> Deliverer \cup {None}]
    BY DEF ClaimBooking, TypeOK, Deliverer
  <1>5. UNCHANGED <<envVars, next_id, module_vault, sponsorVars, booking_escrow,
                    stray, cancelVars, credentials, xcavVars>>
    BY DEF ClaimBooking
  <1> QED BY <1>2, <1>3, <1>4, <1>5
          DEF TypeOK, envVars, sponsorVars, cancelVars, xcavVars

LEMMA CancelClaimOK ==
  ASSUME TypeOK, NEW u \in Users, NEW b \in BookingIds, CancelClaim(u, b)
  PROVE  TypeOK'
  <1> DEFINE d == deliverers[u]
             strikes == d.active_strikes + 1
             slash == IF strikes >= config.max_strikes
                      THEN AtMost(slash_per_strike, d.deposit) ELSE 0
             after == [d EXCEPT !.deposit = @ - slash, !.active_strikes = strikes,
                                !.active_claims = @ - 1]
  <1>1. bookings[b] \in Booking /\ bookings[b].module \in ModuleIds
    BY DEF TypeOK, CancelClaim, Booking
  <1>2. d \in Deliverer /\ d.active_claims >= 1
    BY DEF TypeOK, CancelClaim
  <1>3. slash \in Nat /\ slash <= d.deposit
    BY <1>2, SlashNat DEF Deliverer
  <1>4. /\ vault >= slash /\ vault' = vault - slash /\ treasury' = treasury + slash
        /\ deliverers' = [deliverers EXCEPT ![u] = after]
        /\ bookings' = [bookings EXCEPT ![b].lecturer = None]
        /\ modules' = [modules EXCEPT ![bookings[b].module].student_allocation = @ + 1]
        /\ modules[bookings[b].module] # None
    BY DEF CancelClaim, TypeOK
  <1> HIDE DEF slash
  <1>5. vault' \in Nat /\ treasury' \in Nat
    BY <1>3, <1>4 DEF TypeOK
  <1>6. bookings' \in [BookingIds -> Booking \cup {None}]
    BY <1>1, <1>4 DEF TypeOK, Booking
  <1>7. deliverers' \in [Users -> Deliverer \cup {None}]
    <2>1. d.deposit - slash \in Nat /\ strikes \in Nat /\ d.active_claims - 1 \in Nat
      BY <1>2, <1>3 DEF Deliverer
    <2>2. \A x, y, z \in Nat :
            [d EXCEPT !.deposit = x, !.active_strikes = y, !.active_claims = z] \in Deliverer
      BY <1>2 DEF Deliverer
    <2>3. after \in Deliverer
      <3> HIDE DEF strikes, d
      <3> QED BY <2>1, <2>2
    <2> QED BY <1>4, <2>3 DEF TypeOK
  <1>8. modules' \in [ModuleIds -> Module \cup {None}]
    BY <1>1, <1>4 DEF TypeOK, Module
  <1>9. UNCHANGED <<envVars, next_id, module_vault, sponsorVars, booking_escrow,
                    stray, cancelVars, credentials>>
    BY DEF CancelClaim
  <1> QED BY <1>5, <1>6, <1>7, <1>8, <1>9
          DEF TypeOK, envVars, sponsorVars, cancelVars

\* The part of the state that undoing a booking changes keeps its type.
LEMMA ReturnTokenOK ==
  ASSUME TypeOK, NEW b \in BookingIds, bookings[b] # None, ReturnToken(b)
  PROVE  /\ sponsorships' \in [SponsorIds -> Sponsorship \cup {None}]
         /\ sponsor_escrow' \in [SponsorIds -> Nat \cup {None}]
         /\ bookings' \in [BookingIds -> Booking \cup {None}]
         /\ booking_escrow' \in [BookingIds -> Nat \cup {None}]
         /\ modules' \in [ModuleIds -> Module \cup {None}]
         /\ deliverers' \in [Users -> Deliverer \cup {None}]
  <1> DEFINE k == bookings[b]
             s == k.sponsorship
             m == k.module
             u == k.lecturer
  <1>1. k \in Booking /\ s \in SponsorIds /\ m \in ModuleIds /\ k.price_per_token \in Nat
    BY DEF TypeOK, Booking
  <1>2. sponsorships[s] \in Sponsorship /\ sponsorships[s].active_bookings >= 1
    BY <1>1 DEF TypeOK, ReturnToken, MayReturnToken
  <1>3. modules[m] \in Module /\ (u = None => modules[m].student_allocation >= 1)
    BY <1>1 DEF TypeOK, ReturnToken, MayReturnToken
  <1>4. sponsorships' \in [SponsorIds -> Sponsorship \cup {None}]
    <2>1. SponsorshipAfterReturn(sponsorships[s]) \in Sponsorship
      <3>1. \A x, y \in Nat :
              [sponsorships[s] EXCEPT !.amount = x, !.active_bookings = y] \in Sponsorship
        BY <1>2 DEF Sponsorship
      <3>2. sponsorships[s].amount + 1 \in Nat /\ sponsorships[s].active_bookings - 1 \in Nat
        BY <1>2 DEF Sponsorship
      <3> QED BY <3>1, <3>2 DEF SponsorshipAfterReturn
    <2>2. sponsorships' = [sponsorships EXCEPT ![s] = SponsorshipAfterReturn(@)]
      BY DEF ReturnToken
    <2> QED BY <2>1, <2>2 DEF TypeOK
  <1>5. sponsor_escrow' \in [SponsorIds -> Nat \cup {None}]
    BY <1>1 DEF TypeOK, ReturnToken, MayReturnToken
  <1>6. bookings' \in [BookingIds -> Booking \cup {None}]
    BY DEF TypeOK, ReturnToken
  <1>7. booking_escrow' \in [BookingIds -> Nat \cup {None}]
    BY <1>1 DEF TypeOK, ReturnToken, MayReturnToken
  <1>8. modules' \in [ModuleIds -> Module \cup {None}]
    <2>1. ModuleAfterReturn(modules[m], u # None) \in Module
      <3>1. \A x, y \in Nat :
              [modules[m] EXCEPT !.school_allocation = x, !.student_allocation = y] \in Module
        BY <1>3 DEF Module
      <3>2. modules[m].school_allocation + 1 \in Nat
        BY <1>3 DEF Module
      <3>3. (IF u # None THEN modules[m].student_allocation
                         ELSE modules[m].student_allocation - 1) \in Nat
        BY <1>3 DEF Module
      <3> QED BY <3>1, <3>2, <3>3 DEF ModuleAfterReturn
    <2>2. modules' = [modules EXCEPT ![m] = ModuleAfterReturn(@, u # None)]
      BY DEF ReturnToken
    <2> QED BY <2>1, <2>2 DEF TypeOK
  <1>9. deliverers' \in [Users -> Deliverer \cup {None}]
    BY <1>1 DEF TypeOK, ReturnToken, MayReturnToken, Deliverer, Booking
  <1> QED BY <1>4, <1>5, <1>6, <1>7, <1>8, <1>9

LEMMA CancelBookingOK ==
  ASSUME TypeOK, NEW u \in Users, NEW b \in BookingIds, CancelBooking(u, b)
  PROVE  TypeOK'
  <1>1. bookings[b] \in Booking /\ bookings[b] # None /\ ReturnToken(b)
    BY DEF TypeOK, CancelBooking, MayCancelBooking
  <1>2. vault' \in Nat /\ treasury' \in Nat
    BY <1>1 DEF TypeOK, CancelBooking, MayCancelBooking, Booking
  <1>3. counters' \in [Users -> Nat]
    BY DEF TypeOK, CancelBooking
  <1>4. cancellations' \subseteq Cancellation
    BY DEF TypeOK, CancelBooking, Cancellation
  <1>5. UNCHANGED <<envVars, next_id, module_vault, stray, credentials>>
    BY DEF CancelBooking
  <1> QED BY <1>1, <1>2, <1>3, <1>4, <1>5, ReturnTokenOK DEF TypeOK, envVars

LEMMA ClearOldCancellationOK ==
  ASSUME TypeOK, NEW u \in Users, NEW c \in cancellations, ClearOldCancellation(u, c)
  PROVE  TypeOK'
  <1>1. counters' \in [Users -> Nat]
    BY DEF TypeOK, ClearOldCancellation
  <1>2. cancellations' \subseteq Cancellation
    BY DEF TypeOK, ClearOldCancellation
  <1>3. UNCHANGED <<envVars, next_id, moduleVars, sponsorVars, bookingVars, stray,
                    deliverers, credentials, xcavVars>>
    BY DEF ClearOldCancellation
  <1> QED BY <1>1, <1>2, <1>3
          DEF TypeOK, envVars, moduleVars, sponsorVars, bookingVars, xcavVars

LEMMA ExpireBookingOK ==
  ASSUME TypeOK, NEW b \in BookingIds, ExpireBooking(b)
  PROVE  TypeOK'
  <1>1. bookings[b] \in Booking /\ bookings[b] # None /\ ReturnToken(b)
    BY DEF TypeOK, ExpireBooking, MayExpireBooking
  <1>2. vault' \in Nat
    BY <1>1 DEF TypeOK, ExpireBooking, MayExpireBooking, Booking
  <1>3. UNCHANGED <<envVars, next_id, module_vault, stray, cancelVars, credentials,
                    treasury>>
    BY DEF ExpireBooking
  <1> QED BY <1>1, <1>2, <1>3, ReturnTokenOK DEF TypeOK, envVars, cancelVars
-----------------------------------------------------------------------------
\* Submitting, disputing and resolving touch one booking and nothing else.
LEMMA OnlyBookings ==
  ASSUME TypeOK, bookings' \in [BookingIds -> Booking \cup {None}],
         UNCHANGED <<envVars, next_id, moduleVars, sponsorVars, booking_escrow,
                     stray, deliverers, cancelVars, credentials, xcavVars>>
  PROVE  TypeOK'
  BY DEF TypeOK, envVars, moduleVars, sponsorVars, cancelVars, xcavVars

LEMMA SubmitImpactScoreOK ==
  ASSUME TypeOK, NEW u \in Users, NEW b \in BookingIds, NEW score \in Scores,
         SubmitImpactScore(u, b, score)
  PROVE  TypeOK'
  <1>1. bookings[b] \in Booking /\ score \in Bps /\ now \in Nat
    BY InputsAssumption DEF TypeOK, SubmitImpactScore
  <1>2. [bookings[b] EXCEPT !.score = score, !.score_at = now] \in Booking
    BY <1>1 DEF Booking
  <1>3. bookings' \in [BookingIds -> Booking \cup {None}]
    BY <1>2 DEF TypeOK, SubmitImpactScore
  <1> QED BY <1>3, OnlyBookings DEF SubmitImpactScore

LEMMA DisputeScoreOK ==
  ASSUME TypeOK, NEW u \in Users, NEW b \in BookingIds, NEW score \in Scores,
         DisputeScore(u, b, score)
  PROVE  TypeOK'
  <1>1. bookings[b] \in Booking /\ score \in Bps
    BY InputsAssumption DEF TypeOK, DisputeScore
  <1>2. [bookings[b] EXCEPT !.disputer = u, !.proposed_score = score] \in Booking
    BY <1>1 DEF Booking
  <1>3. bookings' \in [BookingIds -> Booking \cup {None}]
    BY <1>2 DEF TypeOK, DisputeScore
  <1> QED BY <1>3, OnlyBookings DEF DisputeScore

LEMMA ResolveDisputeOK ==
  ASSUME TypeOK, NEW u \in Users, NEW b \in BookingIds, NEW accept \in BOOLEAN,
         ResolveDispute(u, b, accept)
  PROVE  TypeOK'
  <1> DEFINE k == bookings[b]
  <1>1. k \in Booking /\ k.proposed_score # None
    BY DEF TypeOK, ResolveDispute
  <1>2. [k EXCEPT !.score = IF accept THEN k.proposed_score ELSE @,
                  !.proposed_score = None] \in Booking
    <2>1. \A x \in Bps \cup {None} :
            [k EXCEPT !.score = x, !.proposed_score = None] \in Booking
      BY <1>1 DEF Booking
    <2>2. (IF accept THEN k.proposed_score ELSE k.score) \in Bps \cup {None}
      BY <1>1 DEF Booking
    <2> QED BY <2>1, <2>2
  <1>3. bookings' \in [BookingIds -> Booking \cup {None}]
    BY <1>2 DEF TypeOK, ResolveDispute
  <1> QED BY <1>3, OnlyBookings DEF ResolveDispute

LEMMA FinalizeScoreOK ==
  ASSUME TypeOK, NEW u \in Users, NEW b \in BookingIds, FinalizeScore(u, b)
  PROVE  TypeOK'
  <1> DEFINE k == bookings[b]
             d == k.lecturer
  <1>1. k \in Booking /\ d \in Users /\ k.module \in ModuleIds /\ k.price_per_token \in Nat
    BY DEF TypeOK, FinalizeScore, MayFinalizeScore, Booking
  <1>2. deliverers[d] \in Deliverer /\ deliverers[d].active_claims >= 1
    BY <1>1 DEF TypeOK, FinalizeScore, MayFinalizeScore
  <1>3. deliverers' \in [Users -> Deliverer \cup {None}]
    <2>1. \A paid \in BOOLEAN : AfterDelivery(deliverers[d], paid) \in Deliverer
      <3> SUFFICES ASSUME NEW paid \in BOOLEAN
                   PROVE  AfterDelivery(deliverers[d], paid) \in Deliverer
        OBVIOUS
      <3> DEFINE x == deliverers[d]
                 done == x.successful_deliveries + (IF paid THEN 1 ELSE 0)
                 every == config.deliveries_per_strike_reduction
                 strikes == IF paid /\ every > 0 /\ done % every = 0
                            THEN Decrement(x.active_strikes) ELSE x.active_strikes
                 claims == x.active_claims - 1
      <3>1. claims \in Nat /\ done \in Nat /\ strikes \in Nat
        BY <1>2 DEF Deliverer
      <3>2. \A i, j, l \in Nat :
              [x EXCEPT !.active_claims = i, !.successful_deliveries = j,
                        !.active_strikes = l] \in Deliverer
        BY <1>2 DEF Deliverer
      <3>3. AfterDelivery(x, paid) =
              [x EXCEPT !.active_claims = claims,
                        !.successful_deliveries = done, !.active_strikes = strikes]
        BY DEF AfterDelivery
      <3> HIDE DEF x, done, strikes, claims
      <3>4. [x EXCEPT !.active_claims = claims, !.successful_deliveries = done,
                      !.active_strikes = strikes] \in Deliverer
        BY <3>1, <3>2
      <3>5. AfterDelivery(x, paid) \in Deliverer
        BY <3>3, <3>4
      <3> QED BY <3>5 DEF x
    <2>2. deliverers' = [deliverers EXCEPT ![d] =
                           AfterDelivery(@, k.score >= config.min_impact_score_bps)]
      BY DEF FinalizeScore
    <2>3. (k.score >= config.min_impact_score_bps) \in BOOLEAN
      OBVIOUS
    <2> QED BY <2>1, <2>2, <2>3 DEF TypeOK
  <1>4. booking_escrow' \in [BookingIds -> Nat \cup {None}]
    BY <1>1 DEF TypeOK, FinalizeScore, MayFinalizeScore
  <1>5. module_vault' \in [ModuleIds -> Nat]
    BY <1>1 DEF TypeOK, FinalizeScore, MayFinalizeScore
  <1>6. bookings' \in [BookingIds -> Booking \cup {None}]
    <2>1. [k EXCEPT !.proposed_score = None, !.settled = TRUE] \in Booking
      BY <1>1 DEF Booking
    <2> QED BY <2>1 DEF TypeOK, FinalizeScore
  <1>7. UNCHANGED <<envVars, next_id, modules, sponsorVars, stray, cancelVars,
                    credentials, xcavVars>>
    BY DEF FinalizeScore
  <1> QED BY <1>3, <1>4, <1>5, <1>6, <1>7
          DEF TypeOK, envVars, sponsorVars, cancelVars, xcavVars

LEMMA FinishBookingOK ==
  ASSUME TypeOK, NEW b \in BookingIds, FinishBooking(b)
  PROVE  TypeOK'
  <1>1. bookings[b] \in Booking /\ bookings[b].sponsorship \in SponsorIds
    BY DEF TypeOK, FinishBooking, MayFinishBooking, Booking
  <1>2. vault' \in Nat
    BY <1>1 DEF TypeOK, FinishBooking, MayFinishBooking, Booking
  <1>3. sponsorships' \in [SponsorIds -> Sponsorship \cup {None}]
    BY <1>1 DEF TypeOK, FinishBooking, MayFinishBooking, Sponsorship
  <1>4. booking_escrow' \in [BookingIds -> Nat \cup {None}]
    BY DEF TypeOK, FinishBooking
  <1>5. bookings' \in [BookingIds -> Booking \cup {None}]
    BY DEF TypeOK, FinishBooking
  <1>6. UNCHANGED <<envVars, next_id, moduleVars, sponsor_escrow, stray, deliverers,
                    cancelVars, credentials, treasury>>
    BY DEF FinishBooking
  <1> QED BY <1>2, <1>3, <1>4, <1>5, <1>6
          DEF TypeOK, envVars, moduleVars, cancelVars

LEMMA MintCredentialOK ==
  ASSUME TypeOK, NEW u \in Users, NEW b \in BookingIds, NEW kind \in Kinds,
         NEW r \in Recipients, MintCredential(u, b, kind, r)
  PROVE  TypeOK'
  <1>1. bookings[b] \in Booking
    BY DEF TypeOK, MintCredential
  <1>2. credentials' \subseteq Credential
    BY <1>1 DEF TypeOK, MintCredential, Booking, Credential
  <1>3. UNCHANGED <<envVars, next_id, moduleVars, sponsorVars, bookingVars, stray,
                    deliverers, cancelVars, xcavVars>>
    BY DEF MintCredential
  <1> QED BY <1>2, <1>3
          DEF TypeOK, envVars, moduleVars, sponsorVars, bookingVars, cancelVars, xcavVars
-----------------------------------------------------------------------------
LEMMA EnvironmentOK ==
  ASSUME TypeOK,
         \/ UpdateConfig
         \/ WithdrawTreasury
         \/ \E u \in Users, r \in RoleNames : ChangeRole(u, r)
         \/ \E s \in SponsorIds : StrayToSponsorEscrow(s)
         \/ \E b \in BookingIds : StrayToBookingEscrow(b)
         \/ Tick
         \/ UNCHANGED vars
  PROVE  TypeOK'
  <1>1. CASE UpdateConfig
    BY <1>1 DEF TypeOK, UpdateConfig, moduleVars, sponsorVars, bookingVars,
                cancelVars, xcavVars
  <1>2. CASE \E u \in Users, r \in RoleNames : ChangeRole(u, r)
    <2>1. roles' \subseteq Users \X RoleNames
      BY <1>2 DEF TypeOK, ChangeRole
    <2>2. UNCHANGED <<now, config, next_id, moduleVars, sponsorVars, bookingVars,
                      stray, deliverers, cancelVars, credentials, xcavVars>>
      BY <1>2 DEF ChangeRole
    <2> QED BY <2>1, <2>2
            DEF TypeOK, moduleVars, sponsorVars, bookingVars, cancelVars, xcavVars
  <1>3. CASE \E s \in SponsorIds : StrayToSponsorEscrow(s)
    <2> PICK s \in SponsorIds : StrayToSponsorEscrow(s)
      BY <1>3
    <2>1. sponsor_escrow' \in [SponsorIds -> Nat \cup {None}]
      BY DEF TypeOK, StrayToSponsorEscrow
    <2>2. stray' \in [sponsor : [SponsorIds -> Nat], booking : [BookingIds -> Nat]]
      BY DEF TypeOK, StrayToSponsorEscrow
    <2>3. UNCHANGED <<envVars, next_id, moduleVars, sponsorships, bookingVars,
                      deliverers, cancelVars, credentials, xcavVars>>
      BY DEF StrayToSponsorEscrow
    <2> QED BY <2>1, <2>2, <2>3
            DEF TypeOK, envVars, moduleVars, bookingVars, cancelVars, xcavVars
  <1>4. CASE \E b \in BookingIds : StrayToBookingEscrow(b)
    <2> PICK b \in BookingIds : StrayToBookingEscrow(b)
      BY <1>4
    <2>1. booking_escrow' \in [BookingIds -> Nat \cup {None}]
      BY DEF TypeOK, StrayToBookingEscrow
    <2>2. stray' \in [sponsor : [SponsorIds -> Nat], booking : [BookingIds -> Nat]]
      BY DEF TypeOK, StrayToBookingEscrow
    <2>3. UNCHANGED <<envVars, next_id, moduleVars, sponsorVars, bookings,
                      deliverers, cancelVars, credentials, xcavVars>>
      BY DEF StrayToBookingEscrow
    <2> QED BY <2>1, <2>2, <2>3
            DEF TypeOK, envVars, moduleVars, sponsorVars, cancelVars, xcavVars
  <1>5. CASE Tick
    BY <1>5 DEF TypeOK, Tick, moduleVars, sponsorVars, bookingVars, cancelVars, xcavVars
  <1>6. CASE UNCHANGED vars
    BY <1>6 DEF TypeOK, vars, envVars, moduleVars, sponsorVars, bookingVars,
                cancelVars, xcavVars
  <1>7. CASE WithdrawTreasury
    <2>1. treasury' \in Nat
      BY <1>7 DEF TypeOK, WithdrawTreasury
    <2>2. UNCHANGED <<envVars, next_id, moduleVars, sponsorVars, bookingVars,
                      stray, deliverers, cancelVars, credentials, vault>>
      BY <1>7 DEF WithdrawTreasury
    <2> QED BY <2>1, <2>2
            DEF TypeOK, envVars, moduleVars, sponsorVars, bookingVars, cancelVars
  <1> QED BY <1>1, <1>2, <1>3, <1>4, <1>5, <1>6, <1>7

\* Every step of the program keeps every account well formed: no counter, deposit
\* or escrow goes below zero and no field takes a value outside its type.
LEMMA StepOK == TypeOK /\ [Next]_vars => TypeOK'
  <1> SUFFICES ASSUME TypeOK, [Next]_vars PROVE TypeOK'
    OBVIOUS
  <1>1. ASSUME NEW u \in Users, NEW n \in Amounts, CreateModule(u, n) PROVE TypeOK'
    BY <1>1, CreateModuleOK
  <1>2. ASSUME NEW u \in Users, NEW m \in ModuleIds, NEW a \in Assets, NEW n \in Amounts,
               SponsorModule(u, m, a, n)
        PROVE  TypeOK'
    BY <1>2, SponsorModuleOK
  <1>3. ASSUME NEW u \in Users, NEW m \in ModuleIds, NEW n \in Amounts,
               BurnUnsponsored(u, m, n)
        PROVE  TypeOK'
    BY <1>3, BurnUnsponsoredOK
  <1>4. ASSUME NEW u \in Users, NEW m \in ModuleIds, RemoveModule(u, m) PROVE TypeOK'
    BY <1>4, RemoveModuleOK
  <1>5. ASSUME NEW u \in Users, NEW s \in SponsorIds, NEW n \in Amounts,
               ReclaimSponsorship(u, s, n)
        PROVE  TypeOK'
    BY <1>5, ReclaimSponsorshipOK
  <1>6. ASSUME NEW u \in Users, NEW s \in SponsorIds, CloseSponsorship(u, s) PROVE TypeOK'
    BY <1>6, CloseSponsorshipOK
  <1>7. ASSUME NEW u \in Users, NEW s \in SponsorIds,
               NEW t \in now..(now + config.max_delivery_window), BookModule(u, s, t)
        PROVE  TypeOK'
    BY <1>7, BookModuleOK
  <1>8. ASSUME NEW u \in Users, RegisterDeliverer(u) \/ UnregisterDeliverer(u) PROVE TypeOK'
    BY <1>8, RegisterDelivererOK, UnregisterDelivererOK
  <1>9. ASSUME NEW u \in Users, NEW b \in BookingIds,
               \/ ClaimBooking(u, b) \/ CancelClaim(u, b)
               \/ CancelBooking(u, b) \/ FinalizeScore(u, b)
        PROVE  TypeOK'
    BY <1>9, ClaimBookingOK, CancelClaimOK, CancelBookingOK, FinalizeScoreOK
  <1>10. ASSUME NEW u \in Users, NEW b \in BookingIds, NEW score \in Scores,
                SubmitImpactScore(u, b, score) \/ DisputeScore(u, b, score)
         PROVE  TypeOK'
    BY <1>10, SubmitImpactScoreOK, DisputeScoreOK
  <1>11. ASSUME NEW u \in Users, NEW b \in BookingIds, NEW accept \in BOOLEAN,
                ResolveDispute(u, b, accept)
         PROVE  TypeOK'
    BY <1>11, ResolveDisputeOK
  <1>12. ASSUME NEW u \in Users, NEW b \in BookingIds, NEW kind \in Kinds,
                NEW r \in Recipients, MintCredential(u, b, kind, r)
         PROVE  TypeOK'
    BY <1>12, MintCredentialOK
  <1>13. ASSUME NEW u \in Users, NEW c \in cancellations, ClearOldCancellation(u, c)
         PROVE  TypeOK'
    BY <1>13, ClearOldCancellationOK
  <1>14. ASSUME NEW b \in BookingIds, ExpireBooking(b) \/ FinishBooking(b) PROVE TypeOK'
    BY <1>14, ExpireBookingOK, FinishBookingOK
  <1> QED BY <1>1, <1>2, <1>3, <1>4, <1>5, <1>6, <1>7, <1>8, <1>9, <1>10, <1>11,
             <1>12, <1>13, <1>14, EnvironmentOK DEF Next

\* Every account of the delivery market stays well formed through every
\* instruction: no deposit, counter, allocation or escrow goes below zero.
THEOREM TypeCorrect == Spec => []TypeOK
  BY InitOK, StepOK, PTL DEF Spec
-----------------------------------------------------------------------------
(* Which combinations of a booking's optional fields exist.  The           *)
(* instructions test one field each (cancel and expire the score, claim    *)
(* the lecturer, finalize settled) and rely on what it says of the others. *)

\* A scored booking has its lecturer and its timestamp; only a scored booking is
\* disputed or settled; an amendment is on the table only during a dispute and
\* never after the settlement.
Shape(k) ==
  /\ k.score # None => k.lecturer # None
  /\ k.score # None <=> k.score_at # None
  /\ k.settled => k.score # None /\ k.proposed_score = None
  /\ k.disputer # None => k.score # None
  /\ k.proposed_score # None => k.disputer # None

Shapes == \A b \in BookingIds : bookings[b] # None => Shape(bookings[b])

LEMMA OneShape ==
  ASSUME TypeOK, Shapes, NEW b0 \in BookingIds, NEW k,
         bookings' = [bookings EXCEPT ![b0] = k], k = None \/ Shape(k)
  PROVE  Shapes'
  <1> SUFFICES ASSUME NEW b \in BookingIds, bookings'[b] # None
               PROVE  Shape(bookings'[b])
    BY DEF Shapes, Shape
  <1>1. CASE b = b0
    BY <1>1 DEF TypeOK
  <1>2. CASE b # b0
    <2>1. bookings'[b] = bookings[b]
      BY <1>2 DEF TypeOK
    <2> QED BY <2>1 DEF Shapes
  <1> QED BY <1>1, <1>2

LEMMA BookModuleShape ==
  ASSUME TypeOK, Shapes, NEW u \in Users, NEW s \in SponsorIds,
         NEW t \in now..(now + config.max_delivery_window), BookModule(u, s, t)
  PROVE  Shapes'
  <1> DEFINE p == sponsorships[s]
             k == [module |-> p.module, sponsorship |-> s, school |-> u,
                   lecturer |-> None, asset |-> p.asset,
                   price_per_token |-> p.price_per_token,
                   score |-> None, score_at |-> None, settled |-> FALSE,
                   disputer |-> None, proposed_score |-> None,
                   deposit |-> config.booking_deposit, delivery_at |-> t]
  <1>1. bookings' = [bookings EXCEPT ![next_id.booking] = k]
    BY DEF BookModule
  <1>2. next_id.booking \in BookingIds
    BY BoundsAssumption DEF TypeOK, BookModule, BookingIds
  <1>3. Shape(k)
    BY DEF Shape
  <1> HIDE DEF k
  <1>4. PICK b \in BookingIds : b = next_id.booking
    BY <1>2
  <1> QED BY <1>1, <1>3, <1>4, OneShape

LEMMA ClaimShape ==
  ASSUME TypeOK, Shapes, NEW u \in Users, NEW b \in BookingIds,
         ClaimBooking(u, b) \/ CancelClaim(u, b)
  PROVE  Shapes'
  <1> DEFINE k == bookings[b]
  <1>1. k # None /\ k \in Booking /\ k.score = None
    BY DEF TypeOK, ClaimBooking, CancelClaim, Shapes, Shape
  <1>2. ASSUME NEW l \in Users \cup {None}, bookings' = [bookings EXCEPT ![b].lecturer = l]
        PROVE  Shapes'
    <2>1. bookings' = [bookings EXCEPT ![b] = [k EXCEPT !.lecturer = l]]
      BY <1>2 DEF TypeOK
    <2>2. Shape([k EXCEPT !.lecturer = l])
      BY <1>1 DEF Shapes, Shape, Booking
    <2> QED BY <2>1, <2>2, OneShape
  <1> QED BY <1>2 DEF ClaimBooking, CancelClaim

LEMMA SubmitShape ==
  ASSUME TypeOK, Shapes, NEW u \in Users, NEW b \in BookingIds, NEW score \in Scores,
         SubmitImpactScore(u, b, score)
  PROVE  Shapes'
  <1> DEFINE k == bookings[b]
             scored == [k EXCEPT !.score = score, !.score_at = now]
  <1>1. k \in Booking /\ k.lecturer # None /\ k.score = None /\ Shape(k)
    BY DEF TypeOK, SubmitImpactScore, Shapes
  <1>2. score # None /\ now # None
    <2>1. score \in Nat /\ now \in Nat
      BY InputsAssumption DEF TypeOK, Bps
    <2> QED BY <2>1, NoneAssumption
  <1>3. bookings' = [bookings EXCEPT ![b] = scored]
    BY DEF SubmitImpactScore, TypeOK
  <1>4. Shape(scored)
    BY <1>1, <1>2 DEF Shape, Booking
  <1> QED BY <1>3, <1>4, OneShape

LEMMA DisputeShape ==
  ASSUME TypeOK, Shapes, NEW u \in Users, NEW b \in BookingIds, NEW score \in Scores,
         DisputeScore(u, b, score)
  PROVE  Shapes'
  <1> DEFINE k == bookings[b]
             disputed == [k EXCEPT !.disputer = u, !.proposed_score = score]
  <1>1. k \in Booking /\ k.score # None /\ ~k.settled /\ Shape(k)
    BY DEF TypeOK, DisputeScore, Shapes, Shape
  <1>2. u # None
    BY NoneAssumption
  <1>3. bookings' = [bookings EXCEPT ![b] = disputed]
    BY DEF DisputeScore, TypeOK
  <1>4. Shape(disputed)
    BY <1>1, <1>2 DEF Shape, Booking
  <1> QED BY <1>3, <1>4, OneShape

LEMMA ResolveShape ==
  ASSUME TypeOK, Shapes, NEW u \in Users, NEW b \in BookingIds, NEW accept \in BOOLEAN,
         ResolveDispute(u, b, accept)
  PROVE  Shapes'
  <1> DEFINE k == bookings[b]
             score == IF accept THEN k.proposed_score ELSE k.score
             resolved == [k EXCEPT !.score = score, !.proposed_score = None]
  <1>1. k \in Booking /\ k.proposed_score # None /\ ~k.settled /\ Shape(k)
    BY DEF TypeOK, ResolveDispute, Shapes
  <1>2. bookings' = [bookings EXCEPT ![b] = resolved]
    BY DEF ResolveDispute, TypeOK
  <1>3. Shape(resolved)
    BY <1>1 DEF Shape, Booking
  <1> QED BY <1>2, <1>3, OneShape

LEMMA FinalizeShape ==
  ASSUME TypeOK, Shapes, NEW u \in Users, NEW b \in BookingIds, FinalizeScore(u, b)
  PROVE  Shapes'
  <1> DEFINE k == bookings[b]
             settled == [k EXCEPT !.proposed_score = None, !.settled = TRUE]
  <1>1. k \in Booking /\ k.score # None /\ Shape(k)
    BY DEF TypeOK, FinalizeScore, MayFinalizeScore, Shapes
  <1>2. bookings' = [bookings EXCEPT ![b] = settled]
    BY DEF FinalizeScore, TypeOK
  <1>3. Shape(settled)
    BY <1>1 DEF Shape, Booking
  <1> QED BY <1>2, <1>3, OneShape

LEMMA CloseShape ==
  ASSUME TypeOK, Shapes, NEW b \in BookingIds,
         \/ \E u \in Users : CancelBooking(u, b)
         \/ ExpireBooking(b) \/ FinishBooking(b)
  PROVE  Shapes'
  <1>1. bookings' = [bookings EXCEPT ![b] = None]
    BY DEF CancelBooking, ExpireBooking, FinishBooking, ReturnToken
  <1> QED BY <1>1, OneShape

LEMMA SameShape ==
  ASSUME Shapes, UNCHANGED bookings PROVE Shapes'
  BY DEF Shapes, Shape

\* No step leaves a booking with a combination of fields outside Shape.
LEMMA ShapeStep == TypeOK /\ Shapes /\ [Next]_vars => Shapes'
  <1> SUFFICES ASSUME TypeOK, Shapes, [Next]_vars PROVE Shapes'
    OBVIOUS
  <1>1. ASSUME NEW u \in Users, NEW s \in SponsorIds,
               NEW t \in now..(now + config.max_delivery_window), BookModule(u, s, t)
        PROVE  Shapes'
    BY <1>1, BookModuleShape
  <1>2. ASSUME NEW u \in Users, NEW b \in BookingIds,
               ClaimBooking(u, b) \/ CancelClaim(u, b) \/ FinalizeScore(u, b)
        PROVE  Shapes'
    BY <1>2, ClaimShape, FinalizeShape
  <1>3. ASSUME NEW u \in Users, NEW b \in BookingIds, NEW score \in Scores,
               SubmitImpactScore(u, b, score) \/ DisputeScore(u, b, score)
        PROVE  Shapes'
    BY <1>3, SubmitShape, DisputeShape
  <1>4. ASSUME NEW u \in Users, NEW b \in BookingIds, NEW accept \in BOOLEAN,
               ResolveDispute(u, b, accept)
        PROVE  Shapes'
    BY <1>4, ResolveShape
  <1>5. ASSUME NEW b \in BookingIds,
               \/ \E u \in Users : CancelBooking(u, b)
               \/ ExpireBooking(b) \/ FinishBooking(b)
        PROVE  Shapes'
    BY <1>5, CloseShape
  <1>6. ASSUME UNCHANGED bookings PROVE Shapes'
    BY <1>6, SameShape
  <1>7. ASSUME NEW u \in Users,
               \/ \E n \in Amounts : CreateModule(u, n)
               \/ \E m \in ModuleIds, a \in Assets, n \in Amounts : SponsorModule(u, m, a, n)
               \/ \E m \in ModuleIds, n \in Amounts : BurnUnsponsored(u, m, n)
               \/ \E m \in ModuleIds : RemoveModule(u, m)
        PROVE  UNCHANGED bookings
    BY <1>7 DEF CreateModule, BurnUnsponsored, RemoveModule, SponsorModule, bookingVars
  <1>8. ASSUME NEW u \in Users,
               \/ \E s \in SponsorIds, n \in Amounts : ReclaimSponsorship(u, s, n)
               \/ \E s \in SponsorIds : CloseSponsorship(u, s)
               \/ RegisterDeliverer(u) \/ UnregisterDeliverer(u)
        PROVE  UNCHANGED bookings
    BY <1>8 DEF ReclaimSponsorship, CloseSponsorship, RegisterDeliverer,
                UnregisterDeliverer, bookingVars
  <1>9. ASSUME NEW u \in Users,
               \/ \E b \in BookingIds, kind \in Kinds, r \in Recipients :
                    MintCredential(u, b, kind, r)
               \/ \E c \in cancellations : ClearOldCancellation(u, c)
               \/ \E r \in RoleNames : ChangeRole(u, r)
        PROVE  UNCHANGED bookings
    BY <1>9 DEF MintCredential, ClearOldCancellation, ChangeRole, bookingVars
  <1>10. ASSUME \/ \E b \in BookingIds : StrayToBookingEscrow(b)
                \/ \E s \in SponsorIds : StrayToSponsorEscrow(s)
                \/ UpdateConfig \/ WithdrawTreasury \/ Tick \/ UNCHANGED vars
         PROVE  UNCHANGED bookings
    BY <1>10 DEF StrayToBookingEscrow, StrayToSponsorEscrow, UpdateConfig,
                 WithdrawTreasury, Tick,
                 bookingVars, vars
  <1>11. ASSUME NEW u \in Users, NEW b \in BookingIds, CancelBooking(u, b)
         PROVE  Shapes'
    BY <1>11, <1>5
  <1> QED BY <1>1, <1>2, <1>3, <1>4, <1>5, <1>6, <1>7, <1>8, <1>9, <1>10, <1>11 DEF Next

LEMMA ShapeInit == Init => Shapes
  BY DEF Init, Shapes
-----------------------------------------------------------------------------
(* The escrows.  EscrowsExact is not inductive alone.  Returning a booking's *)
(* payment adds the booking's price to the sponsorship's escrow, so the two  *)
(* prices must agree (SamePrice); they keep agreeing because ids are never   *)
(* used again, so a booking never meets another sponsorship under its id     *)
(* (Fresh).                                                                  *)

\* Nothing exists, and nothing ever existed, under an id not yet given out.
FreshSponsorship(s) == s >= next_id.sponsor =>
  sponsorships[s] = None /\ sponsor_escrow[s] = None /\ stray.sponsor[s] = 0
FreshBooking(b) == b >= next_id.booking =>
  bookings[b] = None /\ booking_escrow[b] = None /\ stray.booking[b] = 0

Fresh ==
  /\ \A s \in SponsorIds : FreshSponsorship(s)
  /\ \A b \in BookingIds : FreshBooking(b)

\* A live booking's sponsorship was opened before it, at the same price.
SamePriceAt(b) ==
  bookings[b] # None =>
    LET p == sponsorships[bookings[b].sponsorship]
    IN  /\ bookings[b].sponsorship < next_id.sponsor
        /\ p # None => p.price_per_token = bookings[b].price_per_token

SamePrice == \A b \in BookingIds : SamePriceAt(b)

SponsorExact(s) ==
  IF sponsorships[s] = None
  THEN sponsor_escrow[s] = CloseIfEmpty(stray.sponsor[s])
  ELSE sponsor_escrow[s] = sponsorships[s].price_per_token * sponsorships[s].amount
                           + stray.sponsor[s]

BookingExact(b) ==
  IF bookings[b] = None
  THEN booking_escrow[b] = CloseIfEmpty(stray.booking[b])
  ELSE booking_escrow[b] = stray.booking[b] +
         (IF bookings[b].settled THEN 0 ELSE bookings[b].price_per_token)

EInv ==
  /\ TypeOK
  /\ Fresh
  /\ SamePrice
  /\ \A s \in SponsorIds : SponsorExact(s)
  /\ \A b \in BookingIds : BookingExact(b)

LEMMA EInvExact == EInv => EscrowsExact
  BY DEF EInv, EscrowsExact, SponsorExact, BookingExact

LEMMA EInvInit == Init => EInv
  <1> SUFFICES ASSUME Init PROVE EInv
    OBVIOUS
  <1>1. TypeOK
    BY InitOK
  <1>2. Fresh /\ SamePrice
    BY DEF Init, Fresh, FreshSponsorship, FreshBooking, SamePrice, SamePriceAt
  <1>3. \A s \in SponsorIds : SponsorExact(s)
    <2>1. ASSUME NEW s \in SponsorIds
          PROVE  sponsorships[s] = None /\ sponsor_escrow[s] = None /\ stray.sponsor[s] = 0
      BY DEF Init
    <2> QED BY <2>1 DEF SponsorExact
  <1>4. \A b \in BookingIds : BookingExact(b)
    <2>1. ASSUME NEW b \in BookingIds
          PROVE  bookings[b] = None /\ booking_escrow[b] = None /\ stray.booking[b] = 0
      BY DEF Init
    <2> QED BY <2>1 DEF BookingExact
  <1> QED BY <1>1, <1>2, <1>3, <1>4 DEF EInv
-----------------------------------------------------------------------------
\* An action that does not touch a sponsorship or its escrow keeps them exact.
LEMMA SponsorKept ==
  ASSUME EInv, TypeOK', NEW s \in SponsorIds,
         sponsorships'[s] = sponsorships[s], sponsor_escrow'[s] = sponsor_escrow[s],
         stray'.sponsor[s] = stray.sponsor[s], next_id'.sponsor >= next_id.sponsor
  PROVE  FreshSponsorship(s)' /\ SponsorExact(s)'
  <1>1. FreshSponsorship(s) /\ SponsorExact(s)
    BY DEF EInv, Fresh
  <1>2. s \in Nat /\ next_id.sponsor \in Nat /\ next_id'.sponsor \in Nat
    BY DEF EInv, TypeOK, SponsorIds
  <1>3. FreshSponsorship(s)'
    BY <1>1, <1>2 DEF FreshSponsorship
  <1>4. SponsorExact(s)'
    BY <1>1 DEF SponsorExact
  <1> QED BY <1>3, <1>4

\* ... and a booking, of which only the fields that money depends on count.
LEMMA BookingKept ==
  ASSUME EInv, TypeOK', NEW b \in BookingIds,
         booking_escrow'[b] = booking_escrow[b], stray'.booking[b] = stray.booking[b],
         next_id'.booking >= next_id.booking,
         bookings'[b] = None <=> bookings[b] = None,
         bookings[b] # None => bookings'[b].settled = bookings[b].settled
                               /\ bookings'[b].price_per_token = bookings[b].price_per_token
  PROVE  FreshBooking(b)' /\ BookingExact(b)'
  <1>1. FreshBooking(b) /\ BookingExact(b)
    BY DEF EInv, Fresh
  <1>2. b \in Nat /\ next_id.booking \in Nat /\ next_id'.booking \in Nat
    BY DEF EInv, TypeOK, BookingIds
  <1>3. FreshBooking(b)'
    BY <1>1, <1>2 DEF FreshBooking
  <1>4. BookingExact(b)'
    BY <1>1 DEF BookingExact
  <1> QED BY <1>3, <1>4

\* Prices keep agreeing while sponsorships only close or change their counts.
LEMMA SamePriceKept ==
  ASSUME EInv, next_id'.sponsor = next_id.sponsor,
         \A b \in BookingIds : bookings'[b] # None =>
           /\ bookings[b] # None
           /\ bookings'[b].sponsorship = bookings[b].sponsorship
           /\ bookings'[b].price_per_token = bookings[b].price_per_token,
         \A s \in SponsorIds : sponsorships'[s] # None =>
           /\ sponsorships[s] # None
           /\ sponsorships'[s].price_per_token = sponsorships[s].price_per_token
  PROVE  SamePrice'
  <1> SUFFICES ASSUME NEW b \in BookingIds, bookings'[b] # None
               PROVE  SamePriceAt(b)'
    BY DEF SamePrice, SamePriceAt
  <1>1. bookings[b] \in Booking /\ bookings[b].sponsorship \in SponsorIds
    BY DEF EInv, TypeOK, Booking
  <1>2. SamePriceAt(b)
    BY DEF EInv, SamePrice
  <1> QED BY <1>1, <1>2 DEF SamePriceAt
-----------------------------------------------------------------------------
\* Instructions that move no payment.
LEMMA NoPaymentMoves ==
  ASSUME EInv, TypeOK',
         UNCHANGED <<sponsorVars, booking_escrow, stray>>,
         next_id'.sponsor = next_id.sponsor, next_id'.booking = next_id.booking,
         \A b \in BookingIds :
           /\ bookings'[b] = None <=> bookings[b] = None
           /\ bookings[b] # None =>
                /\ bookings'[b].settled = bookings[b].settled
                /\ bookings'[b].price_per_token = bookings[b].price_per_token
                /\ bookings'[b].sponsorship = bookings[b].sponsorship
  PROVE  EInv'
  <1>0. next_id.sponsor \in Nat /\ next_id.booking \in Nat
    BY DEF EInv, TypeOK
  <1>1. \A s \in SponsorIds : FreshSponsorship(s)' /\ SponsorExact(s)'
    BY <1>0, SponsorKept DEF sponsorVars
  <1>2. \A b \in BookingIds : FreshBooking(b)' /\ BookingExact(b)'
    BY <1>0, BookingKept
  <1>3. SamePrice'
    BY SamePriceKept DEF sponsorVars
  <1> QED BY <1>1, <1>2, <1>3 DEF EInv, Fresh
-----------------------------------------------------------------------------
LEMMA SponsorModuleExact ==
  ASSUME EInv, TypeOK', NEW u \in Users, NEW m \in ModuleIds, NEW a \in Assets,
         NEW n \in Amounts, SponsorModule(u, m, a, n)
  PROVE  EInv'
  <1> DEFINE new == next_id.sponsor
             price == price_per_token(modules[m].terms, Decimals[a])
             record == [module |-> m, sponsor |-> u, asset |-> a, amount |-> n,
                        active_bookings |-> 0, price_per_token |-> price,
                        sponsored_at |-> now]
  <1>1. /\ sponsorships' = [sponsorships EXCEPT ![new] = record]
        /\ sponsor_escrow' = [sponsor_escrow EXCEPT ![new] = price * n]
        /\ next_id' = [next_id EXCEPT !.sponsor = @ + 1]
        /\ UNCHANGED <<bookingVars, stray>>
    BY DEF SponsorModule
  <1>2. new \in SponsorIds /\ new \in Nat
    BY BoundsAssumption DEF EInv, TypeOK, SponsorModule, SponsorIds
  <1>3. price \in Nat /\ n \in Nat /\ price * n \in Nat
    <2>1. modules[m] \in Module
      BY DEF EInv, TypeOK, SponsorModule
    <2>2. price \in Nat
      BY <2>1, PriceNat DEF Module
    <2> QED BY <2>2, AmountNat, ProductNat
  <1>4. record # None /\ record.price_per_token = price /\ record.amount = n
    <2>1. record \in Sponsorship
      BY <1>3 DEF Sponsorship, EInv, TypeOK
    <2> QED BY <2>1, NoneAssumption
  <1>5. next_id'.sponsor = new + 1 /\ next_id'.booking = next_id.booking
    BY <1>1 DEF EInv, TypeOK
  <1>6. stray.sponsor[new] = 0
    BY <1>2 DEF EInv, Fresh, FreshSponsorship
  <1> HIDE DEF price, record
  <1>7. sponsorships'[new] = record /\ sponsor_escrow'[new] = price * n
    BY <1>1, <1>2 DEF EInv, TypeOK
  <1>8. \A s \in SponsorIds : FreshSponsorship(s)' /\ SponsorExact(s)'
    <2> SUFFICES ASSUME NEW s \in SponsorIds PROVE FreshSponsorship(s)' /\ SponsorExact(s)'
      OBVIOUS
    <2>1. CASE s = new
      <3>1. FreshSponsorship(s)'
        BY <2>1, <1>2, <1>5 DEF FreshSponsorship
      <3>2. sponsorships'[s] = record /\ sponsor_escrow'[s] = price * n /\ stray'.sponsor[s] = 0
        BY <2>1, <1>1, <1>6, <1>7
      <3>3. sponsor_escrow'[s] = record.price_per_token * record.amount + 0
        BY <3>2, <1>3, <1>4
      <3>4. SponsorExact(s)'
        BY <3>2, <3>3, <1>4 DEF SponsorExact
      <3> QED BY <3>1, <3>4
    <2>2. CASE s # new
      <3>1. sponsorships'[s] = sponsorships[s] /\ sponsor_escrow'[s] = sponsor_escrow[s]
        BY <1>1, <2>2 DEF EInv, TypeOK
      <3> QED BY <3>1, <1>1, <1>2, <1>5, SponsorKept
    <2> QED BY <2>1, <2>2
  <1>9. \A b \in BookingIds : FreshBooking(b)' /\ BookingExact(b)'
    <2>1. next_id'.booking >= next_id.booking
      BY <1>5 DEF EInv, TypeOK
    <2> QED BY <1>1, <2>1, BookingKept DEF bookingVars
  <1>10. SamePrice'
    <2> SUFFICES ASSUME NEW b \in BookingIds, bookings[b] # None PROVE SamePriceAt(b)'
      BY <1>1 DEF SamePrice, SamePriceAt, bookingVars
    <2>1. SamePriceAt(b) /\ bookings[b].sponsorship \in SponsorIds
      BY DEF EInv, SamePrice, TypeOK, Booking
    <2>2. bookings[b].sponsorship # new /\ bookings[b].sponsorship < new
      BY <2>1, <1>2 DEF SamePriceAt, SponsorIds
    <2>3. sponsorships'[bookings[b].sponsorship] = sponsorships[bookings[b].sponsorship]
      BY <1>1, <2>1, <2>2 DEF EInv, TypeOK
    <2>4. bookings[b].sponsorship < next_id'.sponsor
      BY <1>2, <1>5, <2>1, <2>2 DEF SponsorIds
    <2> QED BY <1>1, <2>1, <2>3, <2>4 DEF SamePriceAt, bookingVars
  <1> QED BY <1>8, <1>9, <1>10 DEF EInv, Fresh
-----------------------------------------------------------------------------
\* The rest of the instructions each touch one open sponsorship, one booking, or
\* one of both.
LEMMA OneSponsorship ==
  ASSUME EInv, TypeOK', NEW s0 \in SponsorIds, sponsorships[s0] # None,
         \A s \in SponsorIds \ {s0} : /\ sponsorships'[s] = sponsorships[s]
                                     /\ sponsor_escrow'[s] = sponsor_escrow[s],
         stray'.sponsor = stray.sponsor, next_id'.sponsor = next_id.sponsor,
         SponsorExact(s0)'
  PROVE  \A s \in SponsorIds : FreshSponsorship(s)' /\ SponsorExact(s)'
  <1>1. next_id.sponsor \in Nat
    BY DEF EInv, TypeOK
  <1>2. FreshSponsorship(s0)
    BY DEF EInv, Fresh
  <1>3. FreshSponsorship(s0)'
    BY <1>2 DEF FreshSponsorship
  <1>4. ASSUME NEW s \in SponsorIds \ {s0}
        PROVE  FreshSponsorship(s)' /\ SponsorExact(s)'
    BY <1>1, SponsorKept
  <1> QED BY <1>3, <1>4

LEMMA OneBooking ==
  ASSUME EInv, TypeOK', NEW b0 \in BookingIds, bookings[b0] # None,
         \A b \in BookingIds \ {b0} : /\ bookings'[b] = bookings[b]
                                     /\ booking_escrow'[b] = booking_escrow[b],
         stray'.booking = stray.booking, next_id'.booking = next_id.booking,
         BookingExact(b0)'
  PROVE  \A b \in BookingIds : FreshBooking(b)' /\ BookingExact(b)'
  <1>1. next_id.booking \in Nat
    BY DEF EInv, TypeOK
  <1>2. FreshBooking(b0)
    BY DEF EInv, Fresh
  <1>3. FreshBooking(b0)'
    BY <1>2 DEF FreshBooking
  <1>4. ASSUME NEW b \in BookingIds \ {b0}
        PROVE  FreshBooking(b)' /\ BookingExact(b)'
    BY <1>1, BookingKept
  <1> QED BY <1>3, <1>4

\* An instruction that leaves the bookings alone.
LEMMA BookingsUntouched ==
  ASSUME EInv, TypeOK', UNCHANGED bookingVars,
         stray'.booking = stray.booking, next_id'.booking = next_id.booking
  PROVE  \A b \in BookingIds : FreshBooking(b)' /\ BookingExact(b)'
  <1>1. next_id.booking \in Nat
    BY DEF EInv, TypeOK
  <1> QED BY <1>1, BookingKept DEF bookingVars

LEMMA SponsorsUntouched ==
  ASSUME EInv, TypeOK', UNCHANGED sponsorVars,
         stray'.sponsor = stray.sponsor, next_id'.sponsor = next_id.sponsor
  PROVE  \A s \in SponsorIds : FreshSponsorship(s)' /\ SponsorExact(s)'
  <1>1. next_id.sponsor \in Nat
    BY DEF EInv, TypeOK
  <1> QED BY <1>1, SponsorKept DEF sponsorVars

LEMMA ReclaimSponsorshipExact ==
  ASSUME EInv, TypeOK', NEW u \in Users, NEW s \in SponsorIds, NEW n \in Amounts,
         ReclaimSponsorship(u, s, n)
  PROVE  EInv'
  <1> DEFINE p == sponsorships[s]
  <1>1. /\ p # None
        /\ sponsorships' = [sponsorships EXCEPT ![s].amount = @ - n]
        /\ sponsor_escrow' = [sponsor_escrow EXCEPT ![s] = @ - p.price_per_token * n]
        /\ UNCHANGED <<next_id, bookingVars, stray>>
    BY DEF ReclaimSponsorship
  <1>2. p \in Sponsorship /\ p.price_per_token \in Nat /\ p.amount \in Nat /\ n \in Nat
    BY <1>1, AmountNat DEF EInv, TypeOK, Sponsorship
  <1>3. SponsorExact(s)'
    <2>1. /\ sponsorships'[s] # None
          /\ sponsorships'[s].price_per_token = p.price_per_token
          /\ sponsorships'[s].amount = p.amount - n
      <3>1. sponsorships'[s] = [p EXCEPT !.amount = @ - n]
        BY <1>1 DEF EInv, TypeOK
      <3>2. sponsorships'[s] # None
        BY <1>1, <1>2, NoneAssumption DEF EInv, TypeOK, ReclaimSponsorship, Sponsorship
      <3> QED BY <3>1, <3>2, <1>2 DEF Sponsorship
    <2>2. sponsor_escrow'[s] = sponsor_escrow[s] - p.price_per_token * n
      BY <1>1 DEF EInv, TypeOK
    <2>3. sponsor_escrow[s] = p.price_per_token * p.amount + stray.sponsor[s]
      BY <1>1 DEF EInv, SponsorExact
    <2>4. stray.sponsor[s] \in Nat
      BY DEF EInv, TypeOK
    <2>5. p.price_per_token * (p.amount - n) = p.price_per_token * p.amount - p.price_per_token * n
          /\ p.price_per_token * p.amount \in Nat /\ p.price_per_token * n \in Nat
      <3> DEFINE price == p.price_per_token
                 amount == p.amount
      <3>1. price \in Nat /\ amount \in Nat
        BY <1>2
      <3> HIDE DEF price, amount
      <3>2. price * (amount - n) = price * amount - price * n
            /\ price * amount \in Nat /\ price * n \in Nat
        BY <3>1, <1>2
      <3> QED BY <3>2 DEF price, amount
    <2> QED BY <1>1, <2>1, <2>2, <2>3, <2>4, <2>5 DEF SponsorExact
  <1>4. \A t \in SponsorIds : FreshSponsorship(t)' /\ SponsorExact(t)'
    BY <1>1, <1>3, OneSponsorship DEF EInv, TypeOK
  <1>5. \A b \in BookingIds : FreshBooking(b)' /\ BookingExact(b)'
    BY <1>1, BookingsUntouched
  <1>6. SamePrice'
    <2>1. ASSUME NEW t \in SponsorIds, sponsorships'[t] # None
          PROVE  /\ sponsorships[t] # None
                 /\ sponsorships'[t].price_per_token = sponsorships[t].price_per_token
      <3>1. CASE t = s
        BY <1>1, <1>2, <3>1 DEF EInv, TypeOK, Sponsorship
      <3>2. CASE t # s
        BY <1>1, <2>1, <3>2 DEF EInv, TypeOK
      <3> QED BY <3>1, <3>2
    <2> QED BY <1>1, <2>1, SamePriceKept DEF bookingVars
  <1> QED BY <1>4, <1>5, <1>6 DEF EInv, Fresh

LEMMA CloseSponsorshipExact ==
  ASSUME EInv, TypeOK', NEW u \in Users, NEW s \in SponsorIds, CloseSponsorship(u, s)
  PROVE  EInv'
  <1> DEFINE p == sponsorships[s]
  <1>1. /\ p # None /\ SponsorshipSpent(p)
        /\ sponsorships' = [sponsorships EXCEPT ![s] = None]
        /\ sponsor_escrow' = [sponsor_escrow EXCEPT ![s] = CloseIfEmpty(@)]
        /\ UNCHANGED <<next_id, bookingVars, stray>>
    BY DEF CloseSponsorship
  <1>2. p.price_per_token \in Nat /\ p.amount = 0
    BY <1>1 DEF EInv, TypeOK, Sponsorship, SponsorshipSpent
  <1>3. SponsorExact(s)'
    <2>1. sponsorships'[s] = None /\ sponsor_escrow'[s] = CloseIfEmpty(sponsor_escrow[s])
      BY <1>1 DEF EInv, TypeOK
    <2>2. sponsor_escrow[s] = p.price_per_token * p.amount + stray.sponsor[s]
      BY <1>1 DEF EInv, SponsorExact
    <2>3. stray.sponsor[s] \in Nat
      BY DEF EInv, TypeOK
    <2>4. sponsor_escrow[s] = stray.sponsor[s]
      BY <1>2, <2>2, <2>3
    <2> QED BY <1>1, <2>1, <2>4 DEF SponsorExact
  <1>4. \A t \in SponsorIds : FreshSponsorship(t)' /\ SponsorExact(t)'
    BY <1>1, <1>3, OneSponsorship DEF EInv, TypeOK
  <1>5. \A b \in BookingIds : FreshBooking(b)' /\ BookingExact(b)'
    BY <1>1, BookingsUntouched
  <1>6. SamePrice'
    <2>1. ASSUME NEW t \in SponsorIds, sponsorships'[t] # None
          PROVE  sponsorships'[t] = sponsorships[t]
      BY <1>1, <2>1 DEF EInv, TypeOK
    <2> QED BY <1>1, <2>1, SamePriceKept DEF bookingVars
  <1> QED BY <1>4, <1>5, <1>6 DEF EInv, Fresh

LEMMA BookModuleExact ==
  ASSUME EInv, TypeOK', NEW u \in Users, NEW s \in SponsorIds,
         NEW t \in now..(now + config.max_delivery_window), BookModule(u, s, t)
  PROVE  EInv'
  <1> DEFINE p == sponsorships[s]
             record == [module |-> p.module, sponsorship |-> s, school |-> u,
                        lecturer |-> None, asset |-> p.asset,
                        price_per_token |-> p.price_per_token,
                        score |-> None, score_at |-> None, settled |-> FALSE,
                        disputer |-> None, proposed_score |-> None,
                        deposit |-> config.booking_deposit, delivery_at |-> t]
  <1>1. /\ p # None /\ p.amount > 0 /\ next_id.booking < MaxBookings
        /\ bookings' = [bookings EXCEPT ![next_id.booking] = record]
        /\ booking_escrow' = [booking_escrow EXCEPT ![next_id.booking] = p.price_per_token]
        /\ sponsor_escrow' = [sponsor_escrow EXCEPT ![s] = @ - p.price_per_token]
        /\ sponsorships' = [sponsorships EXCEPT ![s].amount = @ - 1,
                                                ![s].active_bookings = @ + 1]
        /\ next_id' = [next_id EXCEPT !.booking = @ + 1]
        /\ UNCHANGED stray
    BY DEF BookModule
  <1>2. p \in Sponsorship /\ p.price_per_token \in Nat /\ p.amount \in Nat
    BY <1>1 DEF EInv, TypeOK, Sponsorship
  <1>3. next_id.booking \in BookingIds /\ next_id.booking \in Nat /\ next_id.sponsor \in Nat
    BY <1>1, BoundsAssumption DEF EInv, TypeOK, BookingIds
  <1>4. next_id'.sponsor = next_id.sponsor /\ next_id'.booking = next_id.booking + 1
    BY <1>1 DEF EInv, TypeOK
  <1>5. bookings'[next_id.booking] = record /\ bookings'[next_id.booking] # None
    <2>1. bookings'[next_id.booking] = record
      BY <1>1, <1>3 DEF EInv, TypeOK
    <2>2. record \in Booking
      <3>1. config.booking_deposit \in Nat /\ p.module \in ModuleIds /\ p.asset \in Assets
        BY <1>2, ConfigOK DEF EInv, ConfigParams, Sponsorship
      <3>2. t \in Nat
        BY ConfigOK DEF EInv, TypeOK, ConfigParams
      <3> QED BY <1>2, <3>1, <3>2 DEF Booking
    <2> QED BY <2>1, <2>2, NoneAssumption
  <1>6. /\ sponsorships'[s] # None
        /\ sponsorships'[s].price_per_token = p.price_per_token
        /\ sponsorships'[s].amount = p.amount - 1
    <2>1. sponsorships'[s] = [p EXCEPT !.amount = @ - 1, !.active_bookings = @ + 1]
      BY <1>1 DEF EInv, TypeOK
    <2>2. [p EXCEPT !.amount = @ - 1, !.active_bookings = @ + 1] \in Sponsorship
      BY <1>1, <1>2, SpendsOne
    <2> HIDE DEF record
    <2> QED BY <2>1, <2>2, <1>2, NoneAssumption DEF Sponsorship
  <1>7. \A i \in SponsorIds : FreshSponsorship(i)' /\ SponsorExact(i)'
    <2>1. sponsor_escrow'[s] = sponsor_escrow[s] - p.price_per_token
      BY <1>1 DEF EInv, TypeOK
    <2>2. sponsor_escrow[s] = p.price_per_token * p.amount + stray.sponsor[s]
      BY <1>1 DEF EInv, SponsorExact
    <2>3. stray.sponsor[s] \in Nat
      BY DEF EInv, TypeOK
    <2>4. SponsorExact(s)'
      <3> DEFINE price == p.price_per_token
                 amount == p.amount
      <3>1. price \in Nat /\ amount \in Nat
        BY <1>2
      <3> HIDE DEF price, amount
      <3>2. price * (amount - 1) = price * amount - price /\ price * amount \in Nat
        BY <3>1
      <3>3. sponsor_escrow'[s] = price * (amount - 1) + stray.sponsor[s]
        BY <2>1, <2>2, <2>3, <3>1, <3>2 DEF price, amount
      <3> QED BY <1>1, <1>6, <3>3 DEF SponsorExact, price, amount
    <2> QED BY <1>1, <1>4, <2>4, OneSponsorship DEF EInv, TypeOK
  <1>8. \A b \in BookingIds : FreshBooking(b)' /\ BookingExact(b)'
    <2> SUFFICES ASSUME NEW b \in BookingIds PROVE FreshBooking(b)' /\ BookingExact(b)'
      OBVIOUS
    <2>1. CASE b = next_id.booking
      <3>1. FreshBooking(b)'
        BY <2>1, <1>3, <1>4 DEF FreshBooking
      <3>2. stray'.booking[b] = 0
        BY <2>1, <1>1, <1>3 DEF EInv, Fresh, FreshBooking
      <3>3. booking_escrow'[b] = p.price_per_token
        BY <2>1, <1>1, <1>3 DEF EInv, TypeOK
      <3>4. /\ bookings'[b] # None /\ ~bookings'[b].settled
            /\ bookings'[b].price_per_token = p.price_per_token
        BY <2>1, <1>5
      <3>5. BookingExact(b)'
        BY <1>2, <3>2, <3>3, <3>4 DEF BookingExact
      <3> QED BY <3>1, <3>5
    <2>2. CASE b # next_id.booking
      <3>1. bookings'[b] = bookings[b] /\ booking_escrow'[b] = booking_escrow[b]
        BY <2>2, <1>1 DEF EInv, TypeOK
      <3>2. next_id'.booking >= next_id.booking /\ stray'.booking[b] = stray.booking[b]
        BY <1>1, <1>3, <1>4
      <3> QED BY <3>1, <3>2, BookingKept
    <2> QED BY <2>1, <2>2
  <1>9. SamePrice'
    <2> SUFFICES ASSUME NEW b \in BookingIds PROVE SamePriceAt(b)'
      BY DEF SamePrice
    <2>1. ASSUME NEW i \in SponsorIds, sponsorships'[i] # None
          PROVE  /\ sponsorships[i] # None
                 /\ sponsorships'[i].price_per_token = sponsorships[i].price_per_token
      <3>1. CASE i = s
        BY <1>1, <1>6, <3>1
      <3>2. CASE i # s
        BY <1>1, <2>1, <3>2 DEF EInv, TypeOK
      <3> QED BY <3>1, <3>2
    <2>2. CASE b = next_id.booking
      <3>1. bookings'[b].sponsorship = s /\ bookings'[b].price_per_token = p.price_per_token
        BY <2>2, <1>5
      <3>2. s < next_id.sponsor
        BY <1>1, <1>3 DEF EInv, Fresh, FreshSponsorship, SponsorIds
      <3> QED BY <3>1, <3>2, <1>4, <1>6 DEF SamePriceAt
    <2>3. CASE b # next_id.booking
      <3>1. bookings'[b] = bookings[b]
        BY <2>3, <1>1 DEF EInv, TypeOK
      <3>2. SamePriceAt(b)
        BY DEF EInv, SamePrice
      <3>3. bookings[b] # None => bookings[b].sponsorship \in SponsorIds
        BY DEF EInv, TypeOK, Booking
      <3> HIDE DEF record, p
      <3> QED BY <3>1, <3>2, <3>3, <1>4, <2>1 DEF SamePriceAt
    <2> QED BY <2>2, <2>3
  <1> QED BY <1>7, <1>8, <1>9 DEF EInv, Fresh

\* Cancelling or expiring a booking: its payment goes back at the same price.
LEMMA ReturnTokenExact ==
  ASSUME EInv, TypeOK', NEW b \in BookingIds, bookings[b] # None,
         ~bookings[b].settled, ReturnToken(b), UNCHANGED <<next_id, stray>>
  PROVE  EInv'
  <1> DEFINE k == bookings[b]
             s == k.sponsorship
  <1>1. /\ sponsorships[s] # None
        /\ sponsor_escrow' = [sponsor_escrow EXCEPT ![s] = @ + k.price_per_token]
        /\ booking_escrow' = [booking_escrow EXCEPT
                                ![b] = CloseIfEmpty(@ - k.price_per_token)]
        /\ sponsorships' = [sponsorships EXCEPT ![s] = SponsorshipAfterReturn(@)]
        /\ bookings' = [bookings EXCEPT ![b] = None]
    BY DEF ReturnToken, MayReturnToken
  <1>2. k \in Booking /\ s \in SponsorIds /\ k.price_per_token \in Nat
    BY DEF EInv, TypeOK, Booking
  <1>3. PICK i \in SponsorIds : i = s
    BY <1>2
  <1>4. sponsorships[i] \in Sponsorship /\ sponsorships[i].amount \in Nat
        /\ sponsorships[i].price_per_token = k.price_per_token
    BY <1>1, <1>3 DEF EInv, TypeOK, Sponsorship, SamePrice, SamePriceAt
  <1>5. /\ sponsorships'[i] # None
        /\ sponsorships'[i].price_per_token = k.price_per_token
        /\ sponsorships'[i].amount = sponsorships[i].amount + 1
    <2>1. sponsorships'[i] = SponsorshipAfterReturn(sponsorships[i])
      BY <1>1, <1>3 DEF EInv, TypeOK
    <2>2. SponsorshipAfterReturn(sponsorships[i]).price_per_token = k.price_per_token
          /\ SponsorshipAfterReturn(sponsorships[i]).amount = sponsorships[i].amount + 1
      BY <1>4 DEF SponsorshipAfterReturn, Sponsorship
    <2>3. sponsorships'[i] \in Sponsorship
      <3>1. /\ sponsorships[i].active_bookings - 1 \in Nat
            /\ sponsorships[i].amount + 1 \in Nat
        BY <1>3, <1>4 DEF ReturnToken, MayReturnToken, Sponsorship
      <3>2. \A x, y \in Nat : [sponsorships[i] EXCEPT !.amount = x, !.active_bookings = y]
                                \in Sponsorship
        BY <1>4 DEF Sponsorship
      <3>3. SponsorshipAfterReturn(sponsorships[i]) \in Sponsorship
        BY <3>1, <3>2 DEF SponsorshipAfterReturn
      <3> QED BY <2>1, <3>3
    <2> QED BY <2>1, <2>2, <2>3, NoneAssumption
  <1>6. \A t \in SponsorIds : FreshSponsorship(t)' /\ SponsorExact(t)'
    <2>1. sponsor_escrow'[i] = sponsor_escrow[i] + k.price_per_token
      BY <1>1, <1>3 DEF EInv, TypeOK
    <2>2. sponsor_escrow[i] = k.price_per_token * sponsorships[i].amount + stray.sponsor[i]
      BY <1>1, <1>3, <1>4 DEF EInv, SponsorExact
    <2>3. stray.sponsor[i] \in Nat
      BY DEF EInv, TypeOK
    <2>4. SponsorExact(i)'
      <3> DEFINE price == k.price_per_token
                 amount == sponsorships[i].amount
      <3>1. price \in Nat /\ amount \in Nat
        BY <1>2, <1>4
      <3> HIDE DEF price, amount
      <3>2. price * (amount + 1) = price * amount + price /\ price * amount \in Nat
        BY <3>1
      <3>3. sponsor_escrow'[i] = price * (amount + 1) + stray.sponsor[i]
        BY <2>1, <2>2, <2>3, <3>1, <3>2 DEF price, amount
      <3> QED BY <1>5, <3>3 DEF SponsorExact, price, amount
    <2>5. ASSUME NEW t \in SponsorIds \ {i}
          PROVE  sponsorships'[t] = sponsorships[t] /\ sponsor_escrow'[t] = sponsor_escrow[t]
      BY <1>1, <1>3 DEF EInv, TypeOK
    <2> QED BY <1>1, <1>3, <2>4, <2>5, OneSponsorship
  <1>7. \A t \in BookingIds : FreshBooking(t)' /\ BookingExact(t)'
    <2>1. /\ bookings'[b] = None
          /\ booking_escrow'[b] = CloseIfEmpty(booking_escrow[b] - k.price_per_token)
      BY <1>1 DEF EInv, TypeOK
    <2>2. booking_escrow[b] = stray.booking[b] + k.price_per_token
      BY DEF EInv, BookingExact
    <2>3. stray.booking[b] \in Nat
      BY DEF EInv, TypeOK
    <2>4. booking_escrow[b] - k.price_per_token = stray.booking[b]
      BY <1>2, <2>2, <2>3
    <2>5. BookingExact(b)'
      BY <2>1, <2>4 DEF BookingExact
    <2>6. ASSUME NEW t \in BookingIds \ {b}
          PROVE  bookings'[t] = bookings[t] /\ booking_escrow'[t] = booking_escrow[t]
      BY <1>1 DEF EInv, TypeOK
    <2> QED BY <2>5, <2>6, OneBooking
  <1>8. SamePrice'
    <2>1. ASSUME NEW t \in SponsorIds, sponsorships'[t] # None
          PROVE  /\ sponsorships[t] # None
                 /\ sponsorships'[t].price_per_token = sponsorships[t].price_per_token
      <3>1. CASE t = i
        BY <1>1, <1>3, <1>4, <1>5, <3>1
      <3>2. CASE t # i
        BY <1>1, <1>3, <2>1, <3>2 DEF EInv, TypeOK
      <3> QED BY <3>1, <3>2
    <2>2. ASSUME NEW t \in BookingIds, bookings'[t] # None
          PROVE  bookings'[t] = bookings[t]
      BY <1>1, <2>2 DEF EInv, TypeOK
    <2> QED BY <2>1, <2>2, SamePriceKept
  <1> QED BY <1>6, <1>7, <1>8 DEF EInv, Fresh

LEMMA CancelOrExpireExact ==
  ASSUME EInv, Shapes, TypeOK', NEW b \in BookingIds,
         ExpireBooking(b) \/ \E u \in Users : CancelBooking(u, b)
  PROVE  EInv'
  <1>1. /\ bookings[b] # None /\ bookings[b].score = None /\ ReturnToken(b)
        /\ UNCHANGED <<next_id, stray>>
    BY DEF ExpireBooking, MayExpireBooking, CancelBooking, MayCancelBooking
  <1>2. ~bookings[b].settled
    BY <1>1 DEF EInv, TypeOK, Booking, Shapes, Shape
  <1> QED BY <1>1, <1>2, ReturnTokenExact

LEMMA FinalizeScoreExact ==
  ASSUME EInv, TypeOK', NEW u \in Users, NEW b \in BookingIds, FinalizeScore(u, b)
  PROVE  EInv'
  <1> DEFINE k == bookings[b]
  <1>1. /\ k # None /\ ~k.settled
        /\ booking_escrow' = [booking_escrow EXCEPT ![b] = @ - k.price_per_token]
        /\ bookings' = [bookings EXCEPT ![b].proposed_score = None, ![b].settled = TRUE]
        /\ UNCHANGED <<next_id, sponsorVars, stray>>
    BY DEF FinalizeScore, MayFinalizeScore
  <1>2. k \in Booking /\ k.price_per_token \in Nat
    BY <1>1 DEF EInv, TypeOK, Booking
  <1>3. /\ bookings'[b] # None /\ bookings'[b].settled
        /\ bookings'[b].price_per_token = k.price_per_token
        /\ bookings'[b].sponsorship = k.sponsorship
    <2>1. bookings'[b] = [k EXCEPT !.proposed_score = None, !.settled = TRUE]
      BY <1>1 DEF EInv, TypeOK
    <2>2. [k EXCEPT !.proposed_score = None, !.settled = TRUE] \in Booking
      BY <1>2 DEF Booking
    <2> QED BY <2>1, <2>2, <1>2, NoneAssumption DEF Booking
  <1>4. BookingExact(b)'
    <2>1. booking_escrow'[b] = booking_escrow[b] - k.price_per_token
      BY <1>1 DEF EInv, TypeOK
    <2>2. booking_escrow[b] = stray.booking[b] + k.price_per_token
      BY <1>1 DEF EInv, BookingExact
    <2>3. stray.booking[b] \in Nat
      BY DEF EInv, TypeOK
    <2>4. booking_escrow'[b] = stray.booking[b] + 0
      BY <1>2, <2>1, <2>2, <2>3
    <2> QED BY <1>1, <1>3, <2>4 DEF BookingExact
  <1>5. ASSUME NEW t \in BookingIds \ {b}
        PROVE  bookings'[t] = bookings[t] /\ booking_escrow'[t] = booking_escrow[t]
    BY <1>1 DEF EInv, TypeOK
  <1>6. \A t \in BookingIds : FreshBooking(t)' /\ BookingExact(t)'
    BY <1>1, <1>4, <1>5, OneBooking
  <1>7. \A s \in SponsorIds : FreshSponsorship(s)' /\ SponsorExact(s)'
    BY <1>1, SponsorsUntouched
  <1>8. SamePrice'
    <2>1. ASSUME NEW t \in BookingIds, bookings'[t] # None
          PROVE  /\ bookings[t] # None
                 /\ bookings'[t].sponsorship = bookings[t].sponsorship
                 /\ bookings'[t].price_per_token = bookings[t].price_per_token
      <3>1. CASE t = b
        BY <1>1, <1>3, <3>1
      <3>2. CASE t # b
        BY <1>5, <2>1, <3>2
      <3> QED BY <3>1, <3>2
    <2> QED BY <1>1, <2>1, SamePriceKept DEF sponsorVars
  <1> QED BY <1>6, <1>7, <1>8 DEF EInv, Fresh

LEMMA FinishBookingExact ==
  ASSUME EInv, TypeOK', NEW b \in BookingIds, FinishBooking(b)
  PROVE  EInv'
  <1> DEFINE k == bookings[b]
             s == k.sponsorship
  <1>1. /\ k # None /\ k.settled
        /\ sponsorships[s] # None /\ sponsorships[s].active_bookings >= 1
        /\ sponsorships' = [sponsorships EXCEPT ![s].active_bookings = @ - 1]
        /\ booking_escrow' = [booking_escrow EXCEPT ![b] = CloseIfEmpty(@)]
        /\ bookings' = [bookings EXCEPT ![b] = None]
        /\ UNCHANGED <<next_id, sponsor_escrow, stray>>
    BY DEF FinishBooking, MayFinishBooking
  <1>2. k \in Booking /\ s \in SponsorIds
    BY <1>1 DEF EInv, TypeOK, Booking
  <1>3. PICK i \in SponsorIds : i = s
    BY <1>2
  <1>4. /\ sponsorships'[i] # None
        /\ sponsorships'[i].price_per_token = sponsorships[i].price_per_token
        /\ sponsorships'[i].amount = sponsorships[i].amount
    <2>1. sponsorships[i] \in Sponsorship /\ sponsorships[i].active_bookings - 1 \in Nat
      BY <1>1, <1>3 DEF EInv, TypeOK, Sponsorship
    <2>2. sponsorships'[i] = [sponsorships[i] EXCEPT !.active_bookings = @ - 1]
      BY <1>1, <1>3 DEF EInv, TypeOK
    <2>3. [sponsorships[i] EXCEPT !.active_bookings = @ - 1] \in Sponsorship
      BY <2>1 DEF Sponsorship
    <2> QED BY <2>1, <2>2, <2>3, NoneAssumption DEF Sponsorship
  <1>5. BookingExact(b)'
    <2>1. bookings'[b] = None /\ booking_escrow'[b] = CloseIfEmpty(booking_escrow[b])
      BY <1>1 DEF EInv, TypeOK
    <2>2. booking_escrow[b] = stray.booking[b] /\ stray.booking[b] \in Nat
      BY <1>1 DEF EInv, TypeOK, BookingExact
    <2> QED BY <1>1, <2>1, <2>2 DEF BookingExact
  <1>6. ASSUME NEW t \in BookingIds \ {b}
        PROVE  bookings'[t] = bookings[t] /\ booking_escrow'[t] = booking_escrow[t]
    BY <1>1 DEF EInv, TypeOK
  <1>7. \A t \in BookingIds : FreshBooking(t)' /\ BookingExact(t)'
    BY <1>1, <1>5, <1>6, OneBooking
  <1>8. ASSUME NEW t \in SponsorIds \ {i} PROVE sponsorships'[t] = sponsorships[t]
    BY <1>1, <1>3 DEF EInv, TypeOK
  <1>9. \A t \in SponsorIds : FreshSponsorship(t)' /\ SponsorExact(t)'
    <2>1. SponsorExact(i)'
      BY <1>1, <1>3, <1>4 DEF EInv, SponsorExact
    <2> QED BY <1>1, <1>3, <1>8, <2>1, OneSponsorship
  <1>10. SamePrice'
    <2>1. ASSUME NEW t \in SponsorIds, sponsorships'[t] # None
          PROVE  /\ sponsorships[t] # None
                 /\ sponsorships'[t].price_per_token = sponsorships[t].price_per_token
      <3>1. CASE t = i
        BY <1>1, <1>3, <1>4, <3>1
      <3>2. CASE t # i
        BY <1>8, <2>1, <3>2
      <3> QED BY <3>1, <3>2
    <2>2. ASSUME NEW t \in BookingIds, bookings'[t] # None
          PROVE  bookings'[t] = bookings[t]
      BY <1>1, <2>2 DEF EInv, TypeOK
    <2> QED BY <1>1, <2>1, <2>2, SamePriceKept
  <1> QED BY <1>7, <1>9, <1>10 DEF EInv, Fresh

\* A stray transfer raises an open escrow and the record of strays alike.
LEMMA StrayExact ==
  ASSUME EInv, TypeOK',
         \/ \E s \in SponsorIds : StrayToSponsorEscrow(s)
         \/ \E b \in BookingIds : StrayToBookingEscrow(b)
  PROVE  EInv'
  <1>1. UNCHANGED <<sponsorships, bookings, next_id>>
    BY DEF StrayToSponsorEscrow, StrayToBookingEscrow, bookingVars, sponsorVars
  <1>2. SamePrice'
    BY <1>1, SamePriceKept DEF EInv, TypeOK
  <1>3. CASE \E s \in SponsorIds : StrayToSponsorEscrow(s)
    <2> PICK s \in SponsorIds : StrayToSponsorEscrow(s)
      BY <1>3
    <2>1. /\ sponsor_escrow[s] # None
          /\ sponsor_escrow' = [sponsor_escrow EXCEPT ![s] = @ + 1]
          /\ stray' = [stray EXCEPT !.sponsor[s] = @ + 1]
          /\ UNCHANGED booking_escrow
      BY DEF StrayToSponsorEscrow, bookingVars
    <2>2. /\ stray'.booking = stray.booking
          /\ stray'.sponsor = [stray.sponsor EXCEPT ![s] = @ + 1]
      BY <2>1 DEF EInv, TypeOK
    <2>3. \A b \in BookingIds : FreshBooking(b)' /\ BookingExact(b)'
      BY <1>1, <2>1, <2>2, BookingsUntouched DEF bookingVars
    <2>4. ASSUME NEW t \in SponsorIds PROVE FreshSponsorship(t)' /\ SponsorExact(t)'
      <3>1. CASE t = s
        <4>1. sponsor_escrow'[s] = sponsor_escrow[s] + 1 /\ stray'.sponsor[s] = stray.sponsor[s] + 1
          BY <2>1, <2>2 DEF EInv, TypeOK
        <4>2. stray.sponsor[s] \in Nat /\ sponsor_escrow[s] \in Nat
          BY <2>1 DEF EInv, TypeOK
        <4>3. FreshSponsorship(s)'
          BY <1>1, <2>1 DEF EInv, Fresh, FreshSponsorship
        <4>4. CASE sponsorships[s] = None
          <5>1. sponsor_escrow[s] = stray.sponsor[s] /\ stray.sponsor[s] # 0
            BY <2>1, <4>4 DEF EInv, SponsorExact
          <5> QED BY <1>1, <3>1, <4>1, <4>2, <4>3, <4>4, <5>1 DEF SponsorExact
        <4>5. CASE sponsorships[s] # None
          <5> DEFINE owed == sponsorships[s].price_per_token * sponsorships[s].amount
          <5>1. owed \in Nat /\ sponsor_escrow[s] = owed + stray.sponsor[s]
            BY <4>5, ProductNat DEF EInv, SponsorExact, TypeOK, Sponsorship
          <5> HIDE DEF owed
          <5>2. sponsor_escrow'[s] = owed + stray'.sponsor[s]
            BY <4>1, <4>2, <5>1
          <5> QED BY <1>1, <3>1, <4>3, <4>5, <5>2 DEF SponsorExact, owed
        <4> QED BY <4>4, <4>5
      <3>2. CASE t # s
        <4>1. sponsor_escrow'[t] = sponsor_escrow[t] /\ stray'.sponsor[t] = stray.sponsor[t]
          BY <2>1, <2>2, <3>2 DEF EInv, TypeOK
        <4>2. next_id'.sponsor >= next_id.sponsor
          BY <1>1 DEF EInv, TypeOK
        <4> QED BY <1>1, <4>1, <4>2, SponsorKept
      <3> QED BY <3>1, <3>2
    <2> QED BY <1>2, <2>3, <2>4 DEF EInv, Fresh
  <1>4. CASE \E b \in BookingIds : StrayToBookingEscrow(b)
    <2> PICK b \in BookingIds : StrayToBookingEscrow(b)
      BY <1>4
    <2>1. /\ booking_escrow[b] # None
          /\ booking_escrow' = [booking_escrow EXCEPT ![b] = @ + 1]
          /\ stray' = [stray EXCEPT !.booking[b] = @ + 1]
          /\ UNCHANGED sponsor_escrow
      BY DEF StrayToBookingEscrow, sponsorVars
    <2>2. /\ stray'.sponsor = stray.sponsor
          /\ stray'.booking = [stray.booking EXCEPT ![b] = @ + 1]
      BY <2>1 DEF EInv, TypeOK
    <2>3. \A s \in SponsorIds : FreshSponsorship(s)' /\ SponsorExact(s)'
      BY <1>1, <2>1, <2>2, SponsorsUntouched DEF sponsorVars
    <2>4. ASSUME NEW t \in BookingIds PROVE FreshBooking(t)' /\ BookingExact(t)'
      <3>1. CASE t = b
        <4>1. booking_escrow'[b] = booking_escrow[b] + 1 /\ stray'.booking[b] = stray.booking[b] + 1
          BY <2>1, <2>2 DEF EInv, TypeOK
        <4>2. stray.booking[b] \in Nat /\ booking_escrow[b] \in Nat
          BY <2>1 DEF EInv, TypeOK
        <4>3. FreshBooking(b)'
          BY <1>1, <2>1 DEF EInv, Fresh, FreshBooking
        <4>4. CASE bookings[b] = None
          <5>1. booking_escrow[b] = stray.booking[b] /\ stray.booking[b] # 0
            BY <2>1, <4>4 DEF EInv, BookingExact
          <5> QED BY <1>1, <3>1, <4>1, <4>2, <4>3, <4>4, <5>1 DEF BookingExact
        <4>5. CASE bookings[b] # None
          <5> DEFINE owed == IF bookings[b].settled THEN 0 ELSE bookings[b].price_per_token
          <5>1. owed \in Nat /\ booking_escrow[b] = stray.booking[b] + owed
            BY <4>5 DEF EInv, BookingExact, TypeOK, Booking
          <5> HIDE DEF owed
          <5>2. booking_escrow'[b] = stray'.booking[b] + owed
            BY <4>1, <4>2, <5>1
          <5> QED BY <1>1, <3>1, <4>3, <4>5, <5>2 DEF BookingExact, owed
        <4> QED BY <4>4, <4>5
      <3>2. CASE t # b
        <4>1. booking_escrow'[t] = booking_escrow[t] /\ stray'.booking[t] = stray.booking[t]
          BY <2>1, <2>2, <3>2 DEF EInv, TypeOK
        <4>2. next_id'.booking >= next_id.booking
          BY <1>1 DEF EInv, TypeOK
        <4> QED BY <1>1, <4>1, <4>2, BookingKept
      <3> QED BY <3>1, <3>2
    <2> QED BY <1>2, <2>3, <2>4 DEF EInv, Fresh
  <1> QED BY <1>3, <1>4
-----------------------------------------------------------------------------
\* The instructions that change a booking's people, score or dispute only.
LEMMA BookingFieldsExact ==
  ASSUME EInv, TypeOK', NEW u \in Users, NEW b \in BookingIds,
         \/ ClaimBooking(u, b) \/ CancelClaim(u, b)
         \/ \E score \in Scores : SubmitImpactScore(u, b, score) \/ DisputeScore(u, b, score)
         \/ \E accept \in BOOLEAN : ResolveDispute(u, b, accept)
  PROVE  EInv'
  <1> DEFINE k == bookings[b]
  <1>1. k # None /\ UNCHANGED <<next_id, sponsorVars, booking_escrow, stray>>
    BY DEF ClaimBooking, CancelClaim, SubmitImpactScore, DisputeScore, ResolveDispute
  <1>2. k \in Booking
    BY <1>1 DEF EInv, TypeOK
  <1> DEFINE SameMoney(r) == /\ r \in Booking
                             /\ r.settled = k.settled
                             /\ r.price_per_token = k.price_per_token
                             /\ r.sponsorship = k.sponsorship
             Goal == \E r : SameMoney(r) /\ bookings' = [bookings EXCEPT ![b] = r]
  <1>3. Goal
    <2>1. CASE ClaimBooking(u, b) \/ CancelClaim(u, b)
      <3>1. ASSUME NEW l \in Users \cup {None},
                   bookings' = [bookings EXCEPT ![b].lecturer = l]
            PROVE  Goal
        <4>1. SameMoney([k EXCEPT !.lecturer = l])
          BY <1>2 DEF Booking
        <4>2. bookings' = [bookings EXCEPT ![b] = [k EXCEPT !.lecturer = l]]
          BY <3>1 DEF EInv, TypeOK
        <4> QED BY <4>1, <4>2
      <3> QED BY <2>1, <3>1 DEF ClaimBooking, CancelClaim
    <2>2. ASSUME NEW score \in Scores, SubmitImpactScore(u, b, score) PROVE Goal
      <3>1. SameMoney([k EXCEPT !.score = score, !.score_at = now])
        BY <1>2, InputsAssumption DEF Booking, EInv, TypeOK
      <3>2. bookings' = [bookings EXCEPT ![b] = [k EXCEPT !.score = score, !.score_at = now]]
        BY <2>2 DEF SubmitImpactScore, EInv, TypeOK
      <3> QED BY <3>1, <3>2
    <2>3. ASSUME NEW score \in Scores, DisputeScore(u, b, score) PROVE Goal
      <3>1. SameMoney([k EXCEPT !.disputer = u, !.proposed_score = score])
        BY <1>2, InputsAssumption DEF Booking
      <3>2. bookings' = [bookings EXCEPT
                           ![b] = [k EXCEPT !.disputer = u, !.proposed_score = score]]
        BY <2>3 DEF DisputeScore, EInv, TypeOK
      <3> QED BY <3>1, <3>2
    <2>4. ASSUME NEW accept \in BOOLEAN, ResolveDispute(u, b, accept) PROVE Goal
      <3> DEFINE x == IF accept THEN k.proposed_score ELSE k.score
      <3>1. SameMoney([k EXCEPT !.score = x, !.proposed_score = None])
        BY <1>2 DEF Booking
      <3>2. bookings' = [bookings EXCEPT
                           ![b] = [k EXCEPT !.score = x, !.proposed_score = None]]
        BY <2>4 DEF ResolveDispute, EInv, TypeOK
      <3> QED BY <3>1, <3>2
    <2> HIDE DEF Goal
    <2> QED BY <2>1, <2>2, <2>3, <2>4
  <1>4. PICK r : SameMoney(r) /\ bookings' = [bookings EXCEPT ![b] = r]
    BY <1>3
  <1>5. bookings'[b] = r /\ r # None
    BY <1>4, NoneAssumption DEF EInv, TypeOK
  <1>6. ASSUME NEW t \in BookingIds \ {b} PROVE bookings'[t] = bookings[t]
    BY <1>4 DEF EInv, TypeOK
  <1> QED BY <1>1, <1>4, <1>5, <1>6, NoPaymentMoves DEF sponsorVars

\* The instructions that touch neither a payment nor a booking.
LEMMA ElsewhereExact ==
  ASSUME EInv, TypeOK', UNCHANGED <<sponsorVars, bookingVars, stray>>,
         next_id'.sponsor = next_id.sponsor, next_id'.booking = next_id.booking
  PROVE  EInv'
  BY NoPaymentMoves DEF bookingVars

LEMMA EscrowStep == EInv /\ Shapes /\ [Next]_vars => EInv'
  <1> SUFFICES ASSUME EInv, Shapes, [Next]_vars PROVE EInv'
    OBVIOUS
  <1>0. TypeOK'
    BY StepOK DEF EInv
  <1>1. ASSUME NEW u \in Users, NEW m \in ModuleIds, NEW a \in Assets, NEW n \in Amounts,
               SponsorModule(u, m, a, n)
        PROVE  EInv'
    BY <1>0, <1>1, SponsorModuleExact
  <1>2. ASSUME NEW u \in Users, NEW s \in SponsorIds, NEW n \in Amounts,
               ReclaimSponsorship(u, s, n)
        PROVE  EInv'
    BY <1>0, <1>2, ReclaimSponsorshipExact
  <1>3. ASSUME NEW u \in Users, NEW s \in SponsorIds, CloseSponsorship(u, s) PROVE EInv'
    BY <1>0, <1>3, CloseSponsorshipExact
  <1>4. ASSUME NEW u \in Users, NEW s \in SponsorIds,
               NEW t \in now..(now + config.max_delivery_window), BookModule(u, s, t)
        PROVE  EInv'
    BY <1>0, <1>4, BookModuleExact
  <1>5. ASSUME NEW u \in Users, NEW b \in BookingIds,
               \/ ClaimBooking(u, b) \/ CancelClaim(u, b)
               \/ \E score \in Scores : SubmitImpactScore(u, b, score)
                                        \/ DisputeScore(u, b, score)
               \/ \E accept \in BOOLEAN : ResolveDispute(u, b, accept)
        PROVE  EInv'
    BY <1>0, <1>5, BookingFieldsExact
  <1>6. ASSUME NEW u \in Users, NEW b \in BookingIds, CancelBooking(u, b) PROVE EInv'
    BY <1>0, <1>6, CancelOrExpireExact
  <1>7. ASSUME NEW u \in Users, NEW b \in BookingIds, FinalizeScore(u, b) PROVE EInv'
    BY <1>0, <1>7, FinalizeScoreExact
  <1>8. ASSUME NEW b \in BookingIds, ExpireBooking(b) \/ FinishBooking(b) PROVE EInv'
    BY <1>0, <1>8, CancelOrExpireExact, FinishBookingExact
  <1>9. ASSUME \/ \E s \in SponsorIds : StrayToSponsorEscrow(s)
               \/ \E b \in BookingIds : StrayToBookingEscrow(b)
        PROVE  EInv'
    BY <1>0, <1>9, StrayExact
  <1>10. ASSUME UNCHANGED <<sponsorVars, bookingVars, stray>>,
                next_id'.sponsor = next_id.sponsor /\ next_id'.booking = next_id.booking
         PROVE  EInv'
    BY <1>0, <1>10, ElsewhereExact
  <1>11. ASSUME NEW u \in Users, NEW n \in Amounts, CreateModule(u, n) PROVE EInv'
    <2>1. next_id' = [next_id EXCEPT !.module = @ + 1]
          /\ UNCHANGED <<sponsorVars, bookingVars, stray>>
      BY <1>11 DEF CreateModule
    <2> QED BY <1>10, <2>1 DEF EInv, TypeOK
  <1>12. ASSUME NEW u \in Users,
                \/ \E m \in ModuleIds, n \in Amounts : BurnUnsponsored(u, m, n)
                \/ \E m \in ModuleIds : RemoveModule(u, m)
                \/ RegisterDeliverer(u) \/ UnregisterDeliverer(u)
         PROVE  EInv'
    <2>1. UNCHANGED <<next_id, sponsorVars, bookingVars, stray>>
      BY <1>12 DEF BurnUnsponsored, RemoveModule, RegisterDeliverer, UnregisterDeliverer
    <2> QED BY <1>10, <2>1
  <1>13. ASSUME NEW u \in Users,
                \/ \E b \in BookingIds, kind \in Kinds, r \in Recipients :
                     MintCredential(u, b, kind, r)
                \/ \E c \in cancellations : ClearOldCancellation(u, c)
                \/ \E r \in RoleNames : ChangeRole(u, r)
         PROVE  EInv'
    <2>1. UNCHANGED <<next_id, sponsorVars, bookingVars, stray>>
      BY <1>13 DEF MintCredential, ClearOldCancellation, ChangeRole
    <2> QED BY <1>10, <2>1
  <1>14. ASSUME UpdateConfig \/ WithdrawTreasury \/ Tick \/ UNCHANGED vars PROVE EInv'
    <2>1. UNCHANGED <<next_id, sponsorVars, bookingVars, stray>>
      BY <1>14 DEF UpdateConfig, WithdrawTreasury, Tick, vars
    <2> QED BY <1>10, <2>1
  <1> QED BY <1>1, <1>2, <1>3, <1>4, <1>5, <1>6, <1>7, <1>8, <1>9, <1>11, <1>12,
             <1>13, <1>14 DEF Next

\* Every escrow always holds exactly what is owed from it and what strayed into
\* it, whatever the parameters, the number of bookings and the order of calls:
\* no instruction pays out, returns or keeps a unit of an asset too much.
THEOREM EscrowTheorem == Spec => []EscrowsExact
  <1>1. Init => EInv /\ Shapes
    BY EInvInit, ShapeInit
  <1>2. EInv /\ Shapes /\ [Next]_vars => EInv' /\ Shapes'
    BY EscrowStep, ShapeStep DEF EInv
  <1>3. EInv => EscrowsExact
    BY EInvExact
  <1> QED BY <1>1, <1>2, <1>3, PTL DEF Spec
-----------------------------------------------------------------------------
HIDE DEF CloseIfEmpty, Decrement, AtMost

Base == EInv /\ Shapes

LEMMA BaseInit == Init => Base
  BY EInvInit, ShapeInit DEF Base

LEMMA BaseStep == Base /\ [Next]_vars => Base'
  BY EscrowStep, ShapeStep DEF Base, EInv

Is(x, y) == IF x = y THEN 1 ELSE 0

\* Whose active_claims counts booking b, whose student allocation, whose tokens
\* out for delivery, and whose active_bookings.
Holder(b) == IF bookings[b] # None /\ ~bookings[b].settled
             THEN bookings[b].lecturer ELSE None
Waiting(b) == IF bookings[b] # None /\ bookings[b].lecturer = None
              THEN bookings[b].module ELSE None
Delivering(b) == IF bookings[b] # None /\ bookings[b].lecturer # None /\ ~bookings[b].settled
                 THEN bookings[b].module ELSE None
Backing(b) == IF bookings[b] # None THEN bookings[b].sponsorship ELSE None

\* The counters, zero on an account that does not exist.
ClaimsHeld(u) == IF deliverers[u] = None THEN 0 ELSE deliverers[u].active_claims
Student(m)    == IF modules[m] = None THEN 0 ELSE modules[m].student_allocation
School(m)     == IF modules[m] = None THEN 0 ELSE modules[m].school_allocation
Unsold(m)     == IF modules[m] = None THEN 0 ELSE modules[m].sponsor_allocation
Active(s)     == IF sponsorships[s] = None THEN 0 ELSE sponsorships[s].active_bookings

Ledger ==
  /\ \A u \in Users : ClaimsHeld(u) = Cardinality(ClaimsOf(u))
  /\ \A s \in SponsorIds : Active(s) = Cardinality(BookingsOf(s))
  /\ \A m \in ModuleIds :
       /\ Student(m) = Cardinality(Unclaimed(m))
       /\ module_vault[m] = Unsold(m) + School(m) + Student(m) + Cardinality(InDelivery(m))
       /\ modules[m] = None => module_vault[m] = 0
-----------------------------------------------------------------------------
LEMMA BookingsFinite ==
  ASSUME NEW T \in SUBSET BookingIds
  PROVE  IsFiniteSet(T) /\ Cardinality(T) \in Nat
  <1>1. IsFiniteSet(BookingIds)
    BY BoundsAssumption, FS_Interval DEF BookingIds
  <1>2. IsFiniteSet(T)
    BY <1>1, FS_Subset
  <1> QED BY <1>2, FS_CardinalityType

CountersTyped ==
  /\ \A u \in Users : ClaimsHeld(u) \in Nat
  /\ \A s \in SponsorIds : Active(s) \in Nat
  /\ \A m \in ModuleIds : /\ Student(m) \in Nat /\ School(m) \in Nat
                         /\ Unsold(m) \in Nat /\ module_vault[m] \in Nat

LEMMA CountersNat == TypeOK => CountersTyped
  <1> SUFFICES ASSUME TypeOK PROVE CountersTyped
    OBVIOUS
  <1>1. ASSUME NEW u \in Users PROVE ClaimsHeld(u) \in Nat
    BY DEF TypeOK, ClaimsHeld, Deliverer
  <1>2. ASSUME NEW s \in SponsorIds PROVE Active(s) \in Nat
    BY DEF TypeOK, Active, Sponsorship
  <1>3. ASSUME NEW m \in ModuleIds
        PROVE  /\ Student(m) \in Nat /\ School(m) \in Nat
               /\ Unsold(m) \in Nat /\ module_vault[m] \in Nat
    BY DEF TypeOK, Student, School, Unsold, Module
  <1> QED BY <1>1, <1>2, <1>3 DEF CountersTyped

\* A set changed at one element changes its size by what happened to that one.
LEMMA CountChange ==
  ASSUME NEW S, IsFiniteSet(S), NEW T, NEW x, T \ {x} = S \ {x}
  PROVE  Cardinality(T) = Cardinality(S) - (IF x \in S THEN 1 ELSE 0)
                                         + (IF x \in T THEN 1 ELSE 0)
  <1> DEFINE R == S \ {x}
  <1>1. /\ IsFiniteSet(R)
        /\ Cardinality(R) = IF x \in S THEN Cardinality(S) - 1 ELSE Cardinality(S)
    BY FS_RemoveElement
  <1>2. Cardinality(S) \in Nat /\ Cardinality(R) \in Nat
    BY <1>1, FS_CardinalityType
  <1>3. CASE x \in T
    <2>1. T = R \cup {x} /\ x \notin R
      BY <1>3
    <2>2. Cardinality(R \cup {x}) = Cardinality(R) + 1
      <3> HIDE DEF R
      <3> QED BY <1>1, <2>1, FS_AddElement
    <2> QED BY <1>1, <1>2, <1>3, <2>1, <2>2
  <1>4. CASE x \notin T
    <2>1. T = R
      BY <1>4
    <2> QED BY <1>1, <1>2, <1>4, <2>1
  <1> QED BY <1>3, <1>4

MembersKnown ==
  \A b \in BookingIds :
    /\ \A u \in Users : b \in ClaimsOf(u) <=> Holder(b) = u
    /\ \A s \in SponsorIds : b \in BookingsOf(s) <=> Backing(b) = s
    /\ \A m \in ModuleIds : b \in Unclaimed(m) <=> Waiting(b) = m
    /\ \A m \in ModuleIds : b \in InDelivery(m) <=> Delivering(b) = m

LEMMA MembersOf == MembersKnown
  <1> SUFFICES ASSUME NEW b \in BookingIds
               PROVE  /\ \A u \in Users : b \in ClaimsOf(u) <=> Holder(b) = u
                      /\ \A s \in SponsorIds : b \in BookingsOf(s) <=> Backing(b) = s
                      /\ \A m \in ModuleIds : b \in Unclaimed(m) <=> Waiting(b) = m
                      /\ \A m \in ModuleIds : b \in InDelivery(m) <=> Delivering(b) = m
    BY DEF MembersKnown
  <1>1. \A u \in Users : u # None
    BY NoneAssumption
  <1>2. \A i \in SponsorIds \cup ModuleIds : i # None
    BY NoneAssumption DEF SponsorIds, ModuleIds
  <1>3. \A u \in Users : b \in ClaimsOf(u) <=> Holder(b) = u
    BY <1>1 DEF ClaimsOf, Holder, LiveBookings
  <1>4. \A s \in SponsorIds : b \in BookingsOf(s) <=> Backing(b) = s
    BY <1>2 DEF BookingsOf, Backing, LiveBookings
  <1>5. \A m \in ModuleIds : b \in Unclaimed(m) <=> Waiting(b) = m
    BY <1>2 DEF Unclaimed, Waiting, LiveBookings
  <1>6. \A m \in ModuleIds : b \in InDelivery(m) <=> Delivering(b) = m
    BY <1>2 DEF InDelivery, Delivering, LiveBookings
  <1> QED BY <1>3, <1>4, <1>5, <1>6

\* The four sets follow one booking.
LEMMA CountsMove ==
  ASSUME Base, Base', NEW b \in BookingIds,
         \A i \in BookingIds \ {b} : bookings'[i] = bookings[i]
  PROVE  /\ \A u \in Users : Cardinality(ClaimsOf(u))' =
              Cardinality(ClaimsOf(u)) - Is(Holder(b), u) + Is(Holder(b)', u)
         /\ \A s \in SponsorIds : Cardinality(BookingsOf(s))' =
              Cardinality(BookingsOf(s)) - Is(Backing(b), s) + Is(Backing(b)', s)
         /\ \A m \in ModuleIds :
              /\ Cardinality(Unclaimed(m))' =
                   Cardinality(Unclaimed(m)) - Is(Waiting(b), m) + Is(Waiting(b)', m)
              /\ Cardinality(InDelivery(m))' =
                   Cardinality(InDelivery(m)) - Is(Delivering(b), m) + Is(Delivering(b)', m)
  <1>0. MembersKnown /\ MembersKnown'
    BY MembersOf, PTL
  <1>1. ASSUME NEW u \in Users
        PROVE  Cardinality(ClaimsOf(u))' =
                 Cardinality(ClaimsOf(u)) - Is(Holder(b), u) + Is(Holder(b)', u)
    <2>1. ClaimsOf(u)' \ {b} = ClaimsOf(u) \ {b} /\ ClaimsOf(u) \in SUBSET BookingIds
      BY DEF ClaimsOf, LiveBookings
    <2>2. (b \in ClaimsOf(u) <=> Holder(b) = u) /\ (b \in ClaimsOf(u)' <=> Holder(b)' = u)
      BY <1>0 DEF MembersKnown
    <2> QED BY <2>1, <2>2, BookingsFinite, CountChange DEF Is
  <1>2. ASSUME NEW s \in SponsorIds
        PROVE  Cardinality(BookingsOf(s))' =
                 Cardinality(BookingsOf(s)) - Is(Backing(b), s) + Is(Backing(b)', s)
    <2>1. BookingsOf(s)' \ {b} = BookingsOf(s) \ {b} /\ BookingsOf(s) \in SUBSET BookingIds
      BY DEF BookingsOf, LiveBookings
    <2>2. (b \in BookingsOf(s) <=> Backing(b) = s) /\ (b \in BookingsOf(s)' <=> Backing(b)' = s)
      BY <1>0 DEF MembersKnown
    <2> QED BY <2>1, <2>2, BookingsFinite, CountChange DEF Is
  <1>3. ASSUME NEW m \in ModuleIds
        PROVE  Cardinality(Unclaimed(m))' =
                 Cardinality(Unclaimed(m)) - Is(Waiting(b), m) + Is(Waiting(b)', m)
    <2>1. Unclaimed(m)' \ {b} = Unclaimed(m) \ {b} /\ Unclaimed(m) \in SUBSET BookingIds
      BY DEF Unclaimed, LiveBookings
    <2>2. (b \in Unclaimed(m) <=> Waiting(b) = m) /\ (b \in Unclaimed(m)' <=> Waiting(b)' = m)
      BY <1>0 DEF MembersKnown
    <2> QED BY <2>1, <2>2, BookingsFinite, CountChange DEF Is
  <1>4. ASSUME NEW m \in ModuleIds
        PROVE  Cardinality(InDelivery(m))' =
                 Cardinality(InDelivery(m)) - Is(Delivering(b), m) + Is(Delivering(b)', m)
    <2>1. InDelivery(m)' \ {b} = InDelivery(m) \ {b} /\ InDelivery(m) \in SUBSET BookingIds
      BY DEF InDelivery, LiveBookings
    <2>2. (b \in InDelivery(m) <=> Delivering(b) = m)
          /\ (b \in InDelivery(m)' <=> Delivering(b)' = m)
      BY <1>0 DEF MembersKnown
    <2> QED BY <2>1, <2>2, BookingsFinite, CountChange DEF Is
  <1> QED BY <1>1, <1>2, <1>3, <1>4

\* A step moves one booking and the counters follow it.
LEMMA LedgerMove ==
  ASSUME Base, Base', Ledger, NEW b \in BookingIds,
         \A i \in BookingIds \ {b} : bookings'[i] = bookings[i],
         \A u \in Users :
           ClaimsHeld(u)' = ClaimsHeld(u) - Is(Holder(b), u) + Is(Holder(b)', u),
         \A s \in SponsorIds :
           Active(s)' = Active(s) - Is(Backing(b), s) + Is(Backing(b)', s),
         \A m \in ModuleIds :
           /\ Student(m)' = Student(m) - Is(Waiting(b), m) + Is(Waiting(b)', m)
           /\ module_vault'[m] - Unsold(m)' - School(m)' - Student(m)'
                = module_vault[m] - Unsold(m) - School(m) - Student(m)
                  - Is(Delivering(b), m) + Is(Delivering(b)', m)
           /\ modules'[m] = None => module_vault'[m] = 0
  PROVE  Ledger'
  <1>0. CountersTyped /\ CountersTyped'
    <2>1. TypeOK /\ TypeOK'
      BY DEF Base, EInv
    <2> QED BY <2>1, CountersNat, PTL
  <1>1. \A u \in Users : ClaimsHeld(u)' = Cardinality(ClaimsOf(u))'
    BY CountsMove DEF Ledger
  <1>2. \A s \in SponsorIds : Active(s)' = Cardinality(BookingsOf(s))'
    BY CountsMove DEF Ledger
  <1>3. \A m \in ModuleIds : Student(m)' = Cardinality(Unclaimed(m))'
    BY CountsMove DEF Ledger
  <1>4. ASSUME NEW m \in ModuleIds
        PROVE  module_vault'[m] = Unsold(m)' + School(m)' + Student(m)'
                                  + Cardinality(InDelivery(m))'
    <2>1. /\ Unsold(m) \in Nat /\ School(m) \in Nat /\ Student(m) \in Nat
          /\ module_vault[m] \in Nat
      BY <1>0 DEF CountersTyped
    <2>2. /\ Unsold(m)' \in Nat /\ School(m)' \in Nat /\ Student(m)' \in Nat
          /\ module_vault'[m] \in Nat
      BY <1>0 DEF CountersTyped
    <2>3. module_vault[m] = Unsold(m) + School(m) + Student(m) + Cardinality(InDelivery(m))
      BY DEF Ledger
    <2>4. Cardinality(InDelivery(m))' =
            Cardinality(InDelivery(m)) - Is(Delivering(b), m) + Is(Delivering(b)', m)
      BY CountsMove
    <2>5. Cardinality(InDelivery(m)) \in Nat
      BY BookingsFinite DEF InDelivery, LiveBookings
    <2>6. Is(Delivering(b), m) \in Int /\ Is(Delivering(b)', m) \in Int
      BY DEF Is
    <2> QED BY <2>1, <2>2, <2>3, <2>4, <2>5, <2>6
  <1> QED BY <1>1, <1>2, <1>3, <1>4 DEF Ledger

\* Booking b keeps what decides which counters count it.
Unmoved(b) ==
  /\ bookings'[b] = None <=> bookings[b] = None
  /\ bookings[b] # None =>
       /\ bookings'[b].module = bookings[b].module
       /\ bookings'[b].sponsorship = bookings[b].sponsorship
       /\ bookings'[b].lecturer = bookings[b].lecturer
       /\ bookings'[b].settled = bookings[b].settled

\* A step moves no booking: no set changes.
LEMMA LedgerKept ==
  ASSUME Base, Base', Ledger, \A b \in BookingIds : Unmoved(b),
         \A u \in Users : ClaimsHeld(u)' = ClaimsHeld(u),
         \A s \in SponsorIds : Active(s)' = Active(s),
         \A m \in ModuleIds :
           /\ Student(m)' = Student(m)
           /\ module_vault'[m] - Unsold(m)' - School(m)' = module_vault[m] - Unsold(m) - School(m)
           /\ modules'[m] = None => module_vault'[m] = 0
  PROVE  Ledger'
  <1>0. CountersTyped /\ CountersTyped'
    <2>1. TypeOK /\ TypeOK'
      BY DEF Base, EInv
    <2> QED BY <2>1, CountersNat, PTL
  <1>1. /\ \A u \in Users : ClaimsOf(u)' = ClaimsOf(u)
        /\ \A s \in SponsorIds : BookingsOf(s)' = BookingsOf(s)
        /\ \A m \in ModuleIds : Unclaimed(m)' = Unclaimed(m) /\ InDelivery(m)' = InDelivery(m)
    BY DEF Unmoved, ClaimsOf, BookingsOf, Unclaimed, InDelivery, LiveBookings
  <1>2. ASSUME NEW m \in ModuleIds
        PROVE  module_vault'[m] = Unsold(m)' + School(m)' + Student(m)'
                                  + Cardinality(InDelivery(m))
    <2>1. /\ Unsold(m) \in Nat /\ School(m) \in Nat /\ Student(m) \in Nat
          /\ module_vault[m] \in Nat
      BY <1>0 DEF CountersTyped
    <2>2. /\ Unsold(m)' \in Nat /\ School(m)' \in Nat /\ Student(m)' \in Nat
          /\ module_vault'[m] \in Nat
      BY <1>0 DEF CountersTyped
    <2>3. module_vault[m] = Unsold(m) + School(m) + Student(m) + Cardinality(InDelivery(m))
      BY DEF Ledger
    <2>4. Cardinality(InDelivery(m)) \in Nat
      BY BookingsFinite DEF InDelivery, LiveBookings
    <2> QED BY <2>1, <2>2, <2>3, <2>4
  <1> QED BY <1>1, <1>2 DEF Ledger
-----------------------------------------------------------------------------
(* What an instruction does to one sponsorship and one module, and to no     *)
(* other                                                                     *)

SponsorshipMoves(s, amount, active) ==
  /\ sponsorships[s] \in Sponsorship /\ sponsorships'[s] \in Sponsorship
  /\ sponsorships'[s].module = sponsorships[s].module
  /\ sponsorships'[s].asset = sponsorships[s].asset
  /\ sponsorships'[s].price_per_token = sponsorships[s].price_per_token
  /\ sponsorships'[s].amount = sponsorships[s].amount + amount
  /\ sponsorships'[s].active_bookings = sponsorships[s].active_bookings + active
  /\ \A i \in SponsorIds \ {s} : sponsorships'[i] = sponsorships[i]

ModuleMoves(m, unsold, school, student) ==
  /\ modules[m] \in Module /\ modules'[m] \in Module
  /\ modules'[m].deposit = modules[m].deposit
  /\ modules'[m].sponsor_allocation = modules[m].sponsor_allocation + unsold
  /\ modules'[m].school_allocation = modules[m].school_allocation + school
  /\ modules'[m].student_allocation = modules[m].student_allocation + student
  /\ \A i \in ModuleIds \ {m} : modules'[i] = modules[i]

LEMMA SponsorModuleMoves ==
  ASSUME TypeOK, TypeOK', NEW u \in Users, NEW m \in ModuleIds, NEW a \in Assets,
         NEW n \in Amounts, SponsorModule(u, m, a, n)
  PROVE  ModuleMoves(m, 0 - n, n, 0) /\ modules[m].sponsor_allocation >= n
  <1>1. modules[m] \in Module /\ n \in Nat /\ modules[m].sponsor_allocation >= n
    BY AmountNat DEF TypeOK, SponsorModule, Module
  <1>2. modules' = [modules EXCEPT ![m] =
          [modules[m] EXCEPT !.sponsor_allocation = @ - n, !.school_allocation = @ + n]]
    BY DEF TypeOK, SponsorModule
  <1>3. /\ modules'[m] = [modules[m] EXCEPT !.sponsor_allocation = @ - n,
                                            !.school_allocation = @ + n]
        /\ \A i \in ModuleIds \ {m} : modules'[i] = modules[i]
    BY <1>2 DEF TypeOK
  <1>4. [modules[m] EXCEPT !.sponsor_allocation = @ - n, !.school_allocation = @ + n]
          \in Module
    BY <1>1, SellsToSchools, Zenon
  <1> QED BY <1>1, <1>3, <1>4 DEF ModuleMoves, Module

LEMMA ReclaimMoves ==
  ASSUME TypeOK, TypeOK', NEW u \in Users, NEW s \in SponsorIds, NEW n \in Amounts,
         ReclaimSponsorship(u, s, n)
  PROVE  /\ sponsorships[s].module \in ModuleIds
         /\ SponsorshipMoves(s, 0 - n, 0)
         /\ ModuleMoves(sponsorships[s].module, n, 0 - n, 0)
  <1> DEFINE p == sponsorships[s]
             m == p.module
  <1>1. /\ p \in Sponsorship /\ m \in ModuleIds /\ n \in Nat
        /\ modules[m] \in Module /\ modules[m].school_allocation >= n /\ p.amount >= n
    BY AmountNat, ZenonT(30) DEF TypeOK, ReclaimSponsorship, Module, Sponsorship
  <1>2. /\ modules' = [modules EXCEPT ![m] =
             [modules[m] EXCEPT !.school_allocation = @ - n, !.sponsor_allocation = @ + n]]
        /\ sponsorships' = [sponsorships EXCEPT ![s] = [p EXCEPT !.amount = @ - n]]
    BY <1>1 DEF TypeOK, ReclaimSponsorship
  <1>3. /\ modules'[m] = [modules[m] EXCEPT !.school_allocation = @ - n,
                                            !.sponsor_allocation = @ + n]
        /\ \A i \in ModuleIds \ {m} : modules'[i] = modules[i]
        /\ sponsorships'[s] = [p EXCEPT !.amount = @ - n]
        /\ \A i \in SponsorIds \ {s} : sponsorships'[i] = sponsorships[i]
    BY <1>1, <1>2 DEF TypeOK
  <1>4. \A x, y \in Nat : [modules[m] EXCEPT !.school_allocation = x,
                                             !.sponsor_allocation = y] \in Module
    BY <1>1 DEF Module
  <1>5. /\ modules[m].school_allocation - n \in Nat
        /\ modules[m].sponsor_allocation + n \in Nat /\ p.amount - n \in Nat
    BY <1>1 DEF Module, Sponsorship
  <1>6. modules'[m] \in Module
    <2> DEFINE x == modules[m].school_allocation - n
               y == modules[m].sponsor_allocation + n
    <2>1. modules'[m] = [modules[m] EXCEPT !.school_allocation = x, !.sponsor_allocation = y]
      BY <1>3
    <2>2. x \in Nat /\ y \in Nat
      BY <1>5
    <2> HIDE DEF x, y
    <2> QED BY <1>4, <2>1, <2>2, Zenon
  <1>7. sponsorships'[s] \in Sponsorship
    BY <1>1, <1>3, <1>5 DEF Sponsorship
  <1>8. ModuleMoves(m, n, 0 - n, 0)
    BY <1>1, <1>3, <1>6 DEF ModuleMoves, Module
  <1>9. SponsorshipMoves(s, 0 - n, 0)
    BY <1>1, <1>3, <1>7 DEF SponsorshipMoves, Sponsorship
  <1> QED BY <1>1, <1>8, <1>9

LEMMA BurnMoves ==
  ASSUME TypeOK, TypeOK', NEW u \in Users, NEW m \in ModuleIds, NEW n \in Amounts,
         BurnUnsponsored(u, m, n)
  PROVE  /\ ModuleMoves(m, 0 - n, 0, 0)
         /\ module_vault' = [module_vault EXCEPT ![m] = @ - n] /\ module_vault[m] >= n
         /\ n \in Nat
  <1>1. modules[m] \in Module /\ n \in Nat /\ modules[m].sponsor_allocation >= n
    BY AmountNat DEF TypeOK, BurnUnsponsored, Module
  <1>2. /\ modules' = [modules EXCEPT ![m] = [modules[m] EXCEPT !.sponsor_allocation = @ - n]]
        /\ module_vault' = [module_vault EXCEPT ![m] = @ - n] /\ module_vault[m] >= n
    BY DEF TypeOK, BurnUnsponsored
  <1>3. /\ modules'[m] = [modules[m] EXCEPT !.sponsor_allocation = @ - n]
        /\ \A i \in ModuleIds \ {m} : modules'[i] = modules[i]
    BY <1>2 DEF TypeOK
  <1>4. modules'[m] \in Module
    BY <1>1, <1>3 DEF Module
  <1> QED BY <1>1, <1>2, <1>3, <1>4 DEF ModuleMoves, Module

LEMMA BookModuleMoves ==
  ASSUME TypeOK, TypeOK', NEW u \in Users, NEW s \in SponsorIds,
         NEW t \in now..(now + config.max_delivery_window), BookModule(u, s, t)
  PROVE  /\ sponsorships[s].module \in ModuleIds
         /\ SponsorshipMoves(s, 0 - 1, 1)
         /\ ModuleMoves(sponsorships[s].module, 0, 0 - 1, 1)
  <1> DEFINE p == sponsorships[s]
             m == p.module
  <1>1. /\ p \in Sponsorship /\ m \in ModuleIds /\ p.amount > 0
        /\ modules[m] \in Module /\ modules[m].school_allocation >= 1
    BY Zenon DEF TypeOK, BookModule, Module, Sponsorship
  <1>2. /\ modules' = [modules EXCEPT ![m] =
             [modules[m] EXCEPT !.school_allocation = @ - 1, !.student_allocation = @ + 1]]
        /\ sponsorships' = [sponsorships EXCEPT ![s] =
             [p EXCEPT !.amount = @ - 1, !.active_bookings = @ + 1]]
    BY <1>1 DEF TypeOK, BookModule
  <1>3. /\ modules'[m] = [modules[m] EXCEPT !.school_allocation = @ - 1,
                                            !.student_allocation = @ + 1]
        /\ \A i \in ModuleIds \ {m} : modules'[i] = modules[i]
        /\ sponsorships'[s] = [p EXCEPT !.amount = @ - 1, !.active_bookings = @ + 1]
        /\ \A i \in SponsorIds \ {s} : sponsorships'[i] = sponsorships[i]
    BY <1>1, <1>2 DEF TypeOK
  <1>4. modules'[m] \in Module /\ sponsorships'[s] \in Sponsorship
    BY <1>1, <1>3, BooksOne, SpendsOne, Zenon
  <1>5. ModuleMoves(m, 0, 0 - 1, 1)
    BY <1>1, <1>3, <1>4 DEF ModuleMoves, Module
  <1>6. SponsorshipMoves(s, 0 - 1, 1)
    BY <1>1, <1>3, <1>4 DEF SponsorshipMoves, Sponsorship
  <1> QED BY <1>1, <1>5, <1>6

LEMMA ReturnTokenMoves ==
  ASSUME TypeOK, TypeOK', NEW b \in BookingIds, bookings[b] # None, ReturnToken(b)
  PROVE  /\ bookings[b] \in Booking /\ bookings'[b] = None
         /\ \A i \in BookingIds \ {b} : bookings'[i] = bookings[i]
         /\ SponsorshipMoves(bookings[b].sponsorship, 1, 0 - 1)
         /\ ModuleMoves(bookings[b].module, 0, 1,
                        IF bookings[b].lecturer = None THEN 0 - 1 ELSE 0)
         /\ bookings[b].lecturer = None => UNCHANGED deliverers
         /\ bookings[b].lecturer # None =>
              LET v == bookings[b].lecturer IN
              /\ deliverers[v] \in Deliverer /\ deliverers'[v] \in Deliverer
              /\ deliverers'[v].active_claims = deliverers[v].active_claims - 1
              /\ deliverers'[v].deposit = deliverers[v].deposit
              /\ \A i \in Users \ {v} : deliverers'[i] = deliverers[i]
  <1> DEFINE k == bookings[b]
             s == k.sponsorship
             m == k.module
             v == k.lecturer
             p == sponsorships[s]
  <1>1. k \in Booking /\ s \in SponsorIds /\ m \in ModuleIds /\ v \in Users \cup {None}
    BY DEF TypeOK, Booking
  <1>2. p \in Sponsorship /\ p.active_bookings >= 1 /\ modules[m] \in Module
    BY <1>1 DEF TypeOK, ReturnToken, MayReturnToken
  <1>3. bookings'[b] = None /\ \A i \in BookingIds \ {b} : bookings'[i] = bookings[i]
    BY DEF TypeOK, ReturnToken
  <1>4. SponsorshipMoves(s, 1, 0 - 1)
    <2>1. /\ sponsorships'[s] = SponsorshipAfterReturn(p)
          /\ \A i \in SponsorIds \ {s} : sponsorships'[i] = sponsorships[i]
      BY <1>1 DEF TypeOK, ReturnToken
    <2>2. sponsorships'[s] = [p EXCEPT !.amount = @ + 1, !.active_bookings = @ - 1]
      BY <2>1 DEF SponsorshipAfterReturn
    <2>3. sponsorships'[s] \in Sponsorship
      <3>1. \A x, y \in Nat : [p EXCEPT !.amount = x, !.active_bookings = y] \in Sponsorship
        BY <1>2 DEF Sponsorship
      <3>2. p.amount + 1 \in Nat /\ p.active_bookings - 1 \in Nat
        BY <1>2 DEF Sponsorship
      <3> QED BY <2>2, <3>1, <3>2, ZenonT(30)
    <2> QED BY <1>2, <2>1, <2>2, <2>3 DEF SponsorshipMoves, Sponsorship
  <1>5. ModuleMoves(m, 0, 1, IF v = None THEN 0 - 1 ELSE 0)
    <2>1. /\ modules'[m] = ModuleAfterReturn(modules[m], v # None)
          /\ \A i \in ModuleIds \ {m} : modules'[i] = modules[i]
          /\ v = None => modules[m].student_allocation >= 1
      BY <1>1 DEF TypeOK, ReturnToken, MayReturnToken
    <2> DEFINE x == modules[m].school_allocation + 1
               y == IF v # None THEN modules[m].student_allocation
                                ELSE modules[m].student_allocation - 1
    <2>2. modules'[m] = [modules[m] EXCEPT !.school_allocation = x, !.student_allocation = y]
      BY <2>1 DEF ModuleAfterReturn
    <2>3. x \in Nat /\ y \in Nat
      BY <1>2, <2>1 DEF Module
    <2>4. modules[m].student_allocation \in Nat /\ modules[m].sponsor_allocation \in Nat
      BY <1>2 DEF Module
    <2>5. y = modules[m].student_allocation + (IF v = None THEN 0 - 1 ELSE 0)
      BY <2>4
    <2> HIDE DEF x, y
    <2>6. /\ modules'[m] \in Module /\ modules'[m].school_allocation = x
          /\ modules'[m].student_allocation = y
          /\ modules'[m].sponsor_allocation = modules[m].sponsor_allocation
          /\ modules'[m].deposit = modules[m].deposit
      BY <1>2, <2>2, <2>3 DEF Module
    <2> QED BY <1>2, <2>1, <2>4, <2>5, <2>6 DEF ModuleMoves, x
  <1>6. v = None => UNCHANGED deliverers
    BY DEF ReturnToken
  <1>7. ASSUME v # None
        PROVE  /\ deliverers[v] \in Deliverer /\ deliverers'[v] \in Deliverer
               /\ deliverers'[v].active_claims = deliverers[v].active_claims - 1
               /\ deliverers'[v].deposit = deliverers[v].deposit
               /\ \A i \in Users \ {v} : deliverers'[i] = deliverers[i]
    <2>1. /\ v \in Users /\ deliverers[v] \in Deliverer /\ deliverers[v].active_claims >= 1
          /\ deliverers' = [deliverers EXCEPT ![v] = [deliverers[v] EXCEPT !.active_claims = @ - 1]]
      BY <1>1, <1>7 DEF TypeOK, ReturnToken, MayReturnToken
    <2>2. /\ deliverers'[v] = [deliverers[v] EXCEPT !.active_claims = @ - 1]
          /\ \A i \in Users \ {v} : deliverers'[i] = deliverers[i]
      BY <2>1 DEF TypeOK
    <2> QED BY <2>1, <2>2 DEF Deliverer
  <1> QED BY <1>1, <1>3, <1>4, <1>5, <1>6, <1>7

LEMMA FinishBookingMoves ==
  ASSUME TypeOK, TypeOK', NEW b \in BookingIds, FinishBooking(b)
  PROVE  /\ bookings[b] \in Booking /\ bookings[b] # None /\ bookings'[b] = None
         /\ \A i \in BookingIds \ {b} : bookings'[i] = bookings[i]
         /\ SponsorshipMoves(bookings[b].sponsorship, 0, 0 - 1)
  <1> DEFINE k == bookings[b]
             s == k.sponsorship
             p == sponsorships[s]
  <1>1. k \in Booking /\ k # None /\ s \in SponsorIds
    BY DEF TypeOK, Booking, FinishBooking, MayFinishBooking
  <1>2. p \in Sponsorship /\ p.active_bookings >= 1
    BY <1>1 DEF TypeOK, FinishBooking, MayFinishBooking
  <1>3. bookings'[b] = None /\ \A i \in BookingIds \ {b} : bookings'[i] = bookings[i]
    BY DEF TypeOK, FinishBooking
  <1>4. /\ sponsorships'[s] = [p EXCEPT !.active_bookings = @ - 1]
        /\ \A i \in SponsorIds \ {s} : sponsorships'[i] = sponsorships[i]
    BY <1>1 DEF TypeOK, FinishBooking
  <1>5. SponsorshipMoves(s, 0, 0 - 1)
    BY <1>2, <1>4 DEF SponsorshipMoves, Sponsorship
  <1> QED BY <1>1, <1>3, <1>5
-----------------------------------------------------------------------------
(* Instructions that move a booking *)

LEMMA BookModuleLedger ==
  ASSUME Base, Base', Ledger, NEW u \in Users, NEW s \in SponsorIds,
         NEW t \in now..(now + config.max_delivery_window), BookModule(u, s, t)
  PROVE  Ledger'
  <1> DEFINE p == sponsorships[s]
  <1>0. TypeOK /\ TypeOK' /\ CountersTyped
    BY CountersNat DEF Base, EInv
  <1>m. PICK m \in ModuleIds : m = p.module
    BY <1>0 DEF TypeOK, BookModule, Sponsorship
  <1>b. PICK b \in BookingIds : b = next_id.booking
    BY <1>0, BoundsAssumption DEF TypeOK, BookModule, BookingIds
  <1>1. /\ p \in Sponsorship /\ p # None /\ p.amount > 0
        /\ modules[m] \in Module /\ modules[m] # None /\ modules[m].school_allocation >= 1
    BY <1>0, <1>m DEF TypeOK, BookModule
  <1>2. bookings[b] = None
    BY <1>b DEF Base, EInv, Fresh, FreshBooking, BookingIds
  <1>3. /\ bookings'[b] # None /\ bookings'[b].module = m /\ bookings'[b].sponsorship = s
        /\ bookings'[b].lecturer = None /\ ~bookings'[b].settled
        /\ \A i \in BookingIds \ {b} : bookings'[i] = bookings[i]
    <2> DEFINE k == [module |-> p.module, sponsorship |-> s, school |-> u,
                     lecturer |-> None, asset |-> p.asset,
                     price_per_token |-> p.price_per_token,
                     score |-> None, score_at |-> None, settled |-> FALSE,
                     disputer |-> None, proposed_score |-> None,
                     deposit |-> config.booking_deposit, delivery_at |-> t]
    <2>1. bookings' = [bookings EXCEPT ![b] = k]
      BY <1>b DEF BookModule
    <2>2. /\ k.module = m /\ k.sponsorship = s /\ k.lecturer = None /\ k.settled = FALSE
          /\ k \in Booking
      <3>1. config.booking_deposit \in Nat /\ t \in Nat
        BY <1>0, ConfigOK DEF TypeOK, ConfigParams
      <3> QED BY <1>1, <1>m, <3>1 DEF Booking, Sponsorship
    <2> HIDE DEF k
    <2> QED BY <1>0, <1>2, <2>1, <2>2, NoneAssumption DEF TypeOK
  <1>4. /\ sponsorships'[s] # None
        /\ sponsorships'[s].active_bookings = p.active_bookings + 1
        /\ \A i \in SponsorIds \ {s} : sponsorships'[i] = sponsorships[i]
    <2>1. sponsorships' = [sponsorships EXCEPT ![s] =
            [p EXCEPT !.amount = @ - 1, !.active_bookings = @ + 1]]
      BY <1>0 DEF BookModule, TypeOK
    <2>2. [p EXCEPT !.amount = @ - 1, !.active_bookings = @ + 1] \in Sponsorship
      BY <1>1, SpendsOne, Zenon
    <2> QED BY <1>0, <1>1, <2>1, <2>2, NoneAssumption, ZenonT(30) DEF TypeOK, Sponsorship
  <1>5. /\ modules'[m] # None
        /\ modules'[m].sponsor_allocation = modules[m].sponsor_allocation
        /\ modules'[m].school_allocation = modules[m].school_allocation - 1
        /\ modules'[m].student_allocation = modules[m].student_allocation + 1
        /\ \A i \in ModuleIds \ {m} : modules'[i] = modules[i]
        /\ module_vault' = module_vault
    <2>1. modules' = [modules EXCEPT ![m] =
            [modules[m] EXCEPT !.school_allocation = @ - 1, !.student_allocation = @ + 1]]
      BY <1>0, <1>m DEF BookModule, TypeOK
    <2>2. [modules[m] EXCEPT !.school_allocation = @ - 1,
                             !.student_allocation = @ + 1] \in Module
      BY <1>1, BooksOne, Zenon
    <2>3. module_vault' = module_vault
      BY DEF BookModule
    <2> QED BY <1>0, <1>1, <2>1, <2>2, <2>3, NoneAssumption DEF TypeOK, Module
  <1>6. /\ Holder(b) = None /\ Waiting(b) = None /\ Delivering(b) = None /\ Backing(b) = None
        /\ Holder(b)' = None /\ Waiting(b)' = m /\ Delivering(b)' = None /\ Backing(b)' = s
    BY <1>2, <1>3 DEF Holder, Waiting, Delivering, Backing
  <1>7. \A v \in Users : ClaimsHeld(v)' = ClaimsHeld(v) - Is(None, v) + Is(None, v)
    <2>1. UNCHANGED deliverers
      BY DEF BookModule
    <2> QED BY <1>0, <2>1 DEF ClaimsHeld, Is, CountersTyped
  <1>8. \A i \in SponsorIds : Active(i)' = Active(i) - Is(None, i) + Is(s, i)
    <2>1. \A i \in SponsorIds : Active(i) \in Nat /\ i # None
      BY <1>0, NoneAssumption DEF CountersTyped, SponsorIds
    <2>2. Active(s)' = Active(s) + 1
      BY <1>1, <1>4 DEF Active
    <2>3. \A i \in SponsorIds \ {s} : Active(i)' = Active(i)
      BY <1>4 DEF Active
    <2> QED BY <2>1, <2>2, <2>3 DEF Is
  <1>9. \A i \in ModuleIds :
          /\ Student(i)' = Student(i) - Is(None, i) + Is(m, i)
          /\ module_vault'[i] - Unsold(i)' - School(i)' - Student(i)'
               = module_vault[i] - Unsold(i) - School(i) - Student(i) - Is(None, i) + Is(None, i)
          /\ modules'[i] = None => module_vault'[i] = 0
    <2>1. \A i \in ModuleIds :
            /\ Student(i) \in Nat /\ School(i) \in Nat /\ Unsold(i) \in Nat
            /\ module_vault[i] \in Nat /\ i # None
      BY <1>0, NoneAssumption DEF CountersTyped, ModuleIds
    <2>2. Student(m)' = Student(m) + 1 /\ School(m)' = School(m) - 1 /\ Unsold(m)' = Unsold(m)
      BY <1>1, <1>5 DEF Student, School, Unsold
    <2>3. \A i \in ModuleIds \ {m} :
            Student(i)' = Student(i) /\ School(i)' = School(i) /\ Unsold(i)' = Unsold(i)
      BY <1>5 DEF Student, School, Unsold
    <2>4. \A i \in ModuleIds : modules'[i] = None => module_vault'[i] = 0
      BY <1>5 DEF Ledger
    <2> QED BY <1>1, <1>5, <2>1, <2>2, <2>3, <2>4 DEF Is
  <1> QED BY <1>3, <1>6, <1>7, <1>8, <1>9, LedgerMove

\* A lecturer takes or gives back the claim of booking b: the other fields of the
\* booking stay, and its token moves between the student allocation and delivery.
LEMMA ClaimLedger ==
  ASSUME Base, Base', Ledger, NEW u \in Users, NEW b \in BookingIds, NEW m \in ModuleIds,
         NEW new,
         \/ (bookings[b].lecturer = None /\ new = u)
         \/ (bookings[b].lecturer = u /\ new = None),
         bookings[b] # None, bookings[b].module = m,
         bookings[b].score = None,
         bookings'[b] # None, bookings'[b].module = m, bookings'[b].lecturer = new,
         bookings'[b].sponsorship = bookings[b].sponsorship,
         bookings'[b].settled = bookings[b].settled,
         \A i \in BookingIds \ {b} : bookings'[i] = bookings[i],
         ClaimsHeld(u)' = ClaimsHeld(u) - Is(bookings[b].lecturer, u) + Is(new, u),
         \A v \in Users \ {u} : ClaimsHeld(v)' = ClaimsHeld(v),
         modules[m] # None, modules'[m] # None,
         modules'[m].sponsor_allocation = modules[m].sponsor_allocation,
         modules'[m].school_allocation = modules[m].school_allocation,
         modules'[m].student_allocation =
           modules[m].student_allocation + Is(bookings[b].lecturer, u) - Is(new, u),
         \A i \in ModuleIds \ {m} : modules'[i] = modules[i],
         UNCHANGED <<module_vault, sponsorVars>>
  PROVE  Ledger'
  <1> DEFINE k == bookings[b]
  <1> PICK old : old = bookings[b].lecturer
    OBVIOUS
  <1>0. TypeOK /\ TypeOK' /\ CountersTyped
    BY CountersNat DEF Base, EInv
  <1>1. k \in Booking /\ modules[m] \in Module /\ ~k.settled /\ ~bookings'[b].settled
    BY <1>0 DEF TypeOK, Base, Shapes, Shape
  <1>4. u # None
    BY NoneAssumption
  <1>5. /\ Holder(b) = old /\ Holder(b)' = new /\ Backing(b)' = Backing(b)
        /\ Waiting(b) = (IF old = None THEN m ELSE None)
        /\ Waiting(b)' = (IF new = None THEN m ELSE None)
        /\ Delivering(b) = (IF old = None THEN None ELSE m)
        /\ Delivering(b)' = (IF new = None THEN None ELSE m)
    BY <1>1 DEF Holder, Waiting, Delivering, Backing
  <1>6. \A v \in Users : ClaimsHeld(v)' = ClaimsHeld(v) - Is(old, v) + Is(new, v)
    <2>1. \A v \in Users : ClaimsHeld(v) \in Nat /\ v # None
      BY <1>0, NoneAssumption DEF CountersTyped
    <2> QED BY <2>1 DEF Is
  <1>7. \A s \in SponsorIds : Active(s)' = Active(s) - Is(Backing(b), s) + Is(Backing(b)', s)
    <2>1. \A s \in SponsorIds : Active(s)' = Active(s) /\ Active(s) \in Nat
      BY <1>0 DEF Active, sponsorVars, CountersTyped
    <2> QED BY <1>5, <2>1 DEF Is
  <1>8. \A i \in ModuleIds :
          /\ Student(i)' = Student(i) - Is(Waiting(b), i) + Is(Waiting(b)', i)
          /\ module_vault'[i] - Unsold(i)' - School(i)' - Student(i)'
               = module_vault[i] - Unsold(i) - School(i) - Student(i)
                 - Is(Delivering(b), i) + Is(Delivering(b)', i)
          /\ modules'[i] = None => module_vault'[i] = 0
    <2>1. \A i \in ModuleIds :
            /\ Student(i) \in Nat /\ School(i) \in Nat /\ Unsold(i) \in Nat
            /\ module_vault[i] \in Nat /\ i # None
      BY <1>0, NoneAssumption DEF CountersTyped, ModuleIds
    <2> DEFINE d == Is(new, u) - Is(old, u)
    <2>2. /\ d \in Int /\ Student(m)' = Student(m) - d
          /\ School(m)' = School(m) /\ Unsold(m)' = Unsold(m)
      BY <1>1 DEF Student, School, Unsold, Is, Module
    <2>3. \A i \in ModuleIds \ {m} :
            Student(i)' = Student(i) /\ School(i)' = School(i) /\ Unsold(i)' = Unsold(i)
      BY DEF Student, School, Unsold
    <2>4. \A i \in ModuleIds : modules'[i] = None => module_vault'[i] = 0
      BY DEF Ledger
    <2> HIDE DEF k
    <2>5. ASSUME NEW i \in ModuleIds, i # m
          PROVE  /\ Is(Waiting(b), i) = 0 /\ Is(Waiting(b)', i) = 0
                 /\ Is(Delivering(b), i) = 0 /\ Is(Delivering(b)', i) = 0
      BY <1>5, <2>1, <2>5 DEF Is
    <2>6. /\ Is(Waiting(b)', m) - Is(Waiting(b), m) = 0 - d
          /\ Is(Delivering(b)', m) - Is(Delivering(b), m) = d
      BY <1>4, <1>5, <2>1 DEF Is
    <2> HIDE DEF d
    <2>7. /\ Is(Waiting(b), m) \in Int /\ Is(Waiting(b)', m) \in Int
          /\ Is(Delivering(b), m) \in Int /\ Is(Delivering(b)', m) \in Int
      BY DEF Is
    <2>8. ASSUME NEW i \in ModuleIds
          PROVE  /\ Student(i)' = Student(i) - Is(Waiting(b), i) + Is(Waiting(b)', i)
                 /\ module_vault'[i] - Unsold(i)' - School(i)' - Student(i)'
                      = module_vault[i] - Unsold(i) - School(i) - Student(i)
                        - Is(Delivering(b), i) + Is(Delivering(b)', i)
      <3>1. CASE i = m
        BY <3>1, <2>1, <2>2, <2>6, <2>7
      <3>2. CASE i # m
        BY <3>2, <2>1, <2>3, <2>5
      <3> QED BY <3>1, <3>2
    <2> QED BY <2>4, <2>8
  <1> QED BY <1>5, <1>6, <1>7, <1>8, LedgerMove

\* What an instruction that only sets a booking's lecturer leaves in it.
LEMMA LecturerSet ==
  ASSUME TypeOK, NEW b \in BookingIds, bookings[b] # None, NEW new \in Users \cup {None},
         bookings' = [bookings EXCEPT ![b].lecturer = new]
  PROVE  /\ bookings'[b] \in Booking /\ bookings'[b] # None
         /\ bookings'[b] = [bookings[b] EXCEPT !.lecturer = new]
         /\ bookings'[b].module = bookings[b].module /\ bookings'[b].lecturer = new
         /\ bookings'[b].sponsorship = bookings[b].sponsorship
         /\ bookings'[b].settled = bookings[b].settled
         /\ \A i \in BookingIds \ {b} : bookings'[i] = bookings[i]
  <1> DEFINE k == bookings[b]
             x == [k EXCEPT !.lecturer = new]
  <1>1. bookings' = [bookings EXCEPT ![b] = x] /\ k \in Booking
    BY DEF TypeOK
  <1>2. /\ x \in Booking /\ x.module = k.module /\ x.lecturer = new
        /\ x.sponsorship = k.sponsorship /\ x.settled = k.settled
    BY <1>1 DEF Booking
  <1> HIDE DEF x
  <1>3. bookings'[b] = x /\ \A i \in BookingIds \ {b} : bookings'[i] = bookings[i]
    BY <1>1 DEF TypeOK
  <1> QED BY <1>2, <1>3, NoneAssumption DEF x

\* A claim adds one to the claims its lecturer's deposit has to back.
LEMMA ClaimDeliverer ==
  ASSUME TypeOK, NEW u \in Users, NEW b \in BookingIds, ClaimBooking(u, b)
  PROVE  /\ deliverers[u] \in Deliverer /\ deliverers'[u] \in Deliverer
         /\ deliverers'[u].active_claims = deliverers[u].active_claims + 1
         /\ deliverers'[u].deposit = deliverers[u].deposit
         /\ \A v \in Users \ {u} : deliverers'[v] = deliverers[v]
  <1>1. /\ deliverers[u] \in Deliverer
        /\ deliverers' = [deliverers EXCEPT ![u] = [deliverers[u] EXCEPT !.active_claims = @ + 1]]
    BY DEF TypeOK, ClaimBooking
  <1>2. /\ deliverers'[u] = [deliverers[u] EXCEPT !.active_claims = @ + 1]
        /\ \A v \in Users \ {u} : deliverers'[v] = deliverers[v]
    BY <1>1 DEF TypeOK
  <1> QED BY <1>1, <1>2 DEF Deliverer

LEMMA ClaimBookingLedger ==
  ASSUME Base, Base', Ledger, NEW u \in Users, NEW b \in BookingIds, ClaimBooking(u, b)
  PROVE  Ledger'
  <1>0. TypeOK
    BY DEF Base, EInv
  <1>1. bookings[b] \in Booking /\ bookings[b] # None /\ bookings[b].lecturer = None
    BY <1>0 DEF TypeOK, ClaimBooking
  <1>2. bookings[b].score = None
    BY <1>1 DEF Base, Shapes, Shape
  <1>3. /\ ClaimsHeld(u)' = ClaimsHeld(u) + 1 /\ ClaimsHeld(u) \in Nat
        /\ \A v \in Users \ {u} : ClaimsHeld(v)' = ClaimsHeld(v)
    BY <1>0, ClaimDeliverer, NoneAssumption DEF ClaimsHeld, Deliverer
  <1>4. PICK m \in ModuleIds : m = bookings[b].module
    BY <1>1 DEF Booking
  <1>5. /\ bookings'[b] # None /\ bookings'[b].module = m
        /\ bookings'[b].lecturer = u
        /\ bookings'[b].sponsorship = bookings[b].sponsorship
        /\ bookings'[b].settled = bookings[b].settled
        /\ \A i \in BookingIds \ {b} : bookings'[i] = bookings[i]
        /\ UNCHANGED <<module_vault, sponsorVars>>
    BY <1>0, <1>1, <1>4, LecturerSet DEF ClaimBooking
  <1>6. /\ modules[m] \in Module /\ modules[m] # None
        /\ modules[m].student_allocation >= 1
        /\ modules' = [modules EXCEPT ![m].student_allocation = @ - 1]
    BY <1>0, <1>4 DEF ClaimBooking, TypeOK
  <1>7. /\ modules'[m] \in Module /\ modules'[m] # None
        /\ modules'[m].sponsor_allocation = modules[m].sponsor_allocation
        /\ modules'[m].school_allocation = modules[m].school_allocation
        /\ modules'[m].student_allocation = modules[m].student_allocation - 1
        /\ modules[m].student_allocation \in Nat
        /\ \A i \in ModuleIds \ {m} : modules'[i] = modules[i]
    BY <1>0, <1>6, NoneAssumption DEF TypeOK, Module
  <1>8. Is(None, u) = 0 /\ Is(u, u) = 1
    BY NoneAssumption DEF Is
  <1>9. /\ modules'[m].student_allocation = modules[m].student_allocation 
                                            + Is(bookings[b].lecturer, u) - Is(u, u)
        /\ ClaimsHeld(u)' = ClaimsHeld(u) - Is(bookings[b].lecturer, u) + Is(u, u)
    BY <1>1, <1>3, <1>7, <1>8
  <1> QED BY <1>1, <1>2, <1>3, <1>4, <1>5, <1>6, <1>7, <1>9, ClaimLedger

\* A cancelled claim costs the lecturer at most one strike's slash, which moves
\* from the vault to the treasury with the deposit.
LEMMA CancelClaimDeliverer ==
  ASSUME TypeOK, NEW u \in Users, NEW b \in BookingIds, CancelClaim(u, b)
  PROVE  /\ deliverers[u] \in Deliverer /\ deliverers'[u] \in Deliverer
         /\ deliverers[u].active_claims >= 1
         /\ deliverers'[u].active_claims = deliverers[u].active_claims - 1
         /\ \A v \in Users \ {u} : deliverers'[v] = deliverers[v]
         /\ \E slash \in Nat :
              /\ slash <= slash_per_strike /\ slash <= deliverers[u].deposit
              /\ deliverers'[u].deposit = deliverers[u].deposit - slash
              /\ vault' = vault - slash
  <1> DEFINE d == deliverers[u]
             strikes == d.active_strikes + 1
             slash == IF strikes >= config.max_strikes
                      THEN AtMost(slash_per_strike, d.deposit) ELSE 0
             after == [d EXCEPT !.deposit = @ - slash, !.active_strikes = strikes,
                                !.active_claims = @ - 1]
  <1>1. d \in Deliverer /\ d.active_claims >= 1
    BY DEF TypeOK, CancelClaim
  <1>2. slash \in Nat /\ slash <= d.deposit /\ slash <= slash_per_strike
    <2>1. d.deposit \in Nat /\ slash_per_strike \in Nat
      BY <1>1, SlashNat DEF Deliverer
    <2> HIDE DEF d, strikes
    <2> QED BY <2>1 DEF AtMost
  <1>3. vault' = vault - slash /\ deliverers' = [deliverers EXCEPT ![u] = after]
    BY DEF CancelClaim, TypeOK
  <1> HIDE DEF slash
  <1>4. d.deposit - slash \in Nat /\ strikes \in Nat /\ d.active_claims - 1 \in Nat
    BY <1>1, <1>2 DEF Deliverer
  <1>6. /\ after \in Deliverer /\ after.deposit = d.deposit - slash
        /\ after.active_claims = d.active_claims - 1
    <2> HIDE DEF strikes, d
    <2> DEFINE x == d.deposit - slash
               z == d.active_claims - 1
    <2>1. after = [d EXCEPT !.deposit = x, !.active_strikes = strikes, !.active_claims = z]
      OBVIOUS
    <2>2. x \in Nat /\ strikes \in Nat /\ z \in Nat
      BY <1>4
    <2> HIDE DEF after, x, z
    <2>3. after \in Deliverer /\ after.deposit = x /\ after.active_claims = z
      BY <1>1, <2>1, <2>2 DEF Deliverer
    <2> QED BY <2>3 DEF x, z
  <1>7. deliverers'[u] = after /\ \A v \in Users \ {u} : deliverers'[v] = deliverers[v]
    BY <1>3 DEF TypeOK
  <1> HIDE DEF after
  <1> QED BY <1>1, <1>2, <1>3, <1>6, <1>7

LEMMA CancelClaimLedger ==
  ASSUME Base, Base', Ledger, NEW u \in Users, NEW b \in BookingIds, CancelClaim(u, b)
  PROVE  Ledger'
  <1>0. TypeOK
    BY DEF Base, EInv
  <1>1. /\ bookings[b] \in Booking /\ bookings[b] # None
        /\ bookings[b].lecturer = u /\ bookings[b].score = None
    BY <1>0 DEF TypeOK, CancelClaim
  <1>3. /\ ClaimsHeld(u)' = ClaimsHeld(u) - 1
        /\ \A v \in Users \ {u} : ClaimsHeld(v)' = ClaimsHeld(v)
    BY <1>0, CancelClaimDeliverer, NoneAssumption DEF ClaimsHeld
  <1>4. PICK m \in ModuleIds : m = bookings[b].module
    BY <1>1 DEF Booking
  <1>5. /\ bookings'[b] # None /\ bookings'[b].module = m
        /\ bookings'[b].lecturer = None
        /\ bookings'[b].sponsorship = bookings[b].sponsorship
        /\ bookings'[b].settled = bookings[b].settled
        /\ \A i \in BookingIds \ {b} : bookings'[i] = bookings[i]
        /\ UNCHANGED <<module_vault, sponsorVars>>
    BY <1>0, <1>1, <1>4, LecturerSet DEF CancelClaim
  <1>6. /\ modules[m] \in Module /\ modules[m] # None
        /\ modules' = [modules EXCEPT ![m].student_allocation = @ + 1]
    BY <1>0, <1>4 DEF CancelClaim, TypeOK
  <1>7. /\ modules'[m] \in Module /\ modules'[m] # None
        /\ modules'[m].sponsor_allocation = modules[m].sponsor_allocation
        /\ modules'[m].school_allocation = modules[m].school_allocation
        /\ modules'[m].student_allocation = modules[m].student_allocation + 1
        /\ modules[m].student_allocation \in Nat
        /\ \A i \in ModuleIds \ {m} : modules'[i] = modules[i]
    BY <1>0, <1>6, NoneAssumption DEF TypeOK, Module
  <1>8. Is(None, u) = 0 /\ Is(u, u) = 1 /\ ClaimsHeld(u) \in Nat
    BY <1>0, CountersNat, NoneAssumption DEF Is, CountersTyped
  <1>9. /\ modules'[m].student_allocation = modules[m].student_allocation 
                                            + Is(bookings[b].lecturer, u) - Is(None, u)
        /\ ClaimsHeld(u)' = ClaimsHeld(u) - Is(bookings[b].lecturer, u) + Is(None, u)
    BY <1>1, <1>3, <1>7, <1>8
  <1> QED BY <1>1, <1>3, <1>4, <1>5, <1>6, <1>7, <1>9, ClaimLedger, NoneAssumption

\* Cancelling and expiring take the booking off every counter that counted it.
LEMMA ReturnTokenLedger ==
  ASSUME Base, Base', Ledger, NEW b \in BookingIds, bookings[b] # None,
         bookings[b].score = None, ReturnToken(b), UNCHANGED module_vault
  PROVE  Ledger'
  <1>0. TypeOK /\ TypeOK' /\ CountersTyped
    BY CountersNat DEF Base, EInv
  <1>1. PICK k \in Booking : k = bookings[b]
    BY <1>0 DEF TypeOK
  <1>2. PICK m \in ModuleIds : m = k.module
    BY <1>1 DEF Booking
  <1>3. PICK s \in SponsorIds : s = k.sponsorship
    BY <1>1 DEF Booking
  <1>4. PICK v \in Users \cup {None} : v = k.lecturer
    BY <1>1 DEF Booking
  <1>5. /\ bookings'[b] = None /\ \A i \in BookingIds \ {b} : bookings'[i] = bookings[i]
        /\ SponsorshipMoves(s, 1, 0 - 1)
        /\ ModuleMoves(m, 0, 1, IF v = None THEN 0 - 1 ELSE 0)
    BY <1>0, <1>1, <1>2, <1>3, <1>4, ReturnTokenMoves
  <1>6. ~k.settled
    BY <1>1 DEF Base, Shapes, Shape
  <1>7. /\ Holder(b) = v /\ Holder(b)' = None /\ Backing(b) = s /\ Backing(b)' = None
        /\ Waiting(b) = (IF v = None THEN m ELSE None) /\ Waiting(b)' = None
        /\ Delivering(b) = (IF v = None THEN None ELSE m) /\ Delivering(b)' = None
    BY <1>1, <1>2, <1>3, <1>4, <1>5, <1>6 DEF Holder, Backing, Waiting, Delivering
  <1>8. \A u \in Users : ClaimsHeld(u)' = ClaimsHeld(u) - Is(v, u) + Is(None, u)
    <2>1. \A u \in Users : ClaimsHeld(u) \in Nat /\ u # None
      BY <1>0, NoneAssumption DEF CountersTyped
    <2>2. CASE v = None
      <3>1. UNCHANGED deliverers
        BY <1>0, <1>1, <1>4, <2>2, ReturnTokenMoves
      <3> QED BY <2>1, <2>2, <3>1 DEF ClaimsHeld, Is
    <2>3. CASE v # None
      <3>1. /\ deliverers[v] \in Deliverer /\ deliverers'[v] \in Deliverer
            /\ deliverers'[v].active_claims = deliverers[v].active_claims - 1
            /\ \A i \in Users \ {v} : deliverers'[i] = deliverers[i]
        BY <1>0, <1>1, <1>4, <2>3, ReturnTokenMoves
      <3>2. v \in Users /\ ClaimsHeld(v)' = ClaimsHeld(v) - 1
        BY <2>3, <3>1, NoneAssumption DEF ClaimsHeld
      <3>3. \A i \in Users \ {v} : ClaimsHeld(i)' = ClaimsHeld(i)
        BY <3>1 DEF ClaimsHeld
      <3> QED BY <2>1, <2>3, <3>2, <3>3 DEF Is
    <2> QED BY <2>2, <2>3
  <1>9. \A i \in SponsorIds : Active(i)' = Active(i) - Is(s, i) + Is(None, i)
    <2>1. \A i \in SponsorIds : Active(i) \in Nat /\ i # None
      BY <1>0, NoneAssumption DEF CountersTyped, SponsorIds
    <2>2. Active(s)' = Active(s) - 1
      BY <1>5, NoneAssumption DEF Active, SponsorshipMoves, Sponsorship
    <2>3. \A i \in SponsorIds \ {s} : Active(i)' = Active(i)
      BY <1>5 DEF Active, SponsorshipMoves
    <2> QED BY <2>1, <2>2, <2>3 DEF Is
  <1>10. ASSUME NEW i \in ModuleIds
         PROVE  /\ Student(i)' = Student(i) - Is(Waiting(b), i) + Is(None, i)
                /\ module_vault'[i] - Unsold(i)' - School(i)' - Student(i)'
                     = module_vault[i] - Unsold(i) - School(i) - Student(i)
                       - Is(Delivering(b), i) + Is(None, i)
                /\ modules'[i] = None => module_vault'[i] = 0
    <2>1. /\ Student(i) \in Nat /\ School(i) \in Nat /\ Unsold(i) \in Nat
          /\ module_vault[i] \in Nat /\ module_vault'[i] = module_vault[i] /\ i # None
      BY <1>0, NoneAssumption DEF CountersTyped, ModuleIds
    <2>2. CASE i = m
      <3>1. /\ modules[m] # None /\ modules'[m] # None
            /\ modules[m] \in Module /\ modules'[m] \in Module
        BY <1>5, NoneAssumption DEF ModuleMoves
      <3>2. /\ Student(m)' = Student(m) + (IF v = None THEN 0 - 1 ELSE 0)
            /\ School(m)' = School(m) + 1 /\ Unsold(m)' = Unsold(m)
        BY <1>5, <3>1 DEF ModuleMoves, Student, School, Unsold, Module
      <3>3. Is(m, m) = 1 /\ Is(None, m) = 0
        BY <2>1, <2>2 DEF Is
      <3>4. CASE v = None
        BY <1>7, <2>1, <2>2, <3>1, <3>2, <3>3, <3>4
      <3>5. CASE v # None
        BY <1>7, <2>1, <2>2, <3>1, <3>2, <3>3, <3>5
      <3> QED BY <3>4, <3>5
    <2>3. CASE i # m
      <3>1. /\ Student(i)' = Student(i) /\ School(i)' = School(i) /\ Unsold(i)' = Unsold(i)
            /\ modules'[i] = modules[i]
        BY <1>5, <2>3 DEF ModuleMoves, Student, School, Unsold
      <3>2. Is(Waiting(b), i) = 0 /\ Is(Delivering(b), i) = 0 /\ Is(None, i) = 0
        BY <1>7, <2>1, <2>3 DEF Is
      <3> QED BY <2>1, <3>1, <3>2 DEF Ledger
    <2> QED BY <2>2, <2>3
  <1> QED BY <1>5, <1>7, <1>8, <1>9, <1>10, LedgerMove

\* What a settlement does to the booking and to its lecturer's record.
LEMMA FinalizeScoreMoves ==
  ASSUME TypeOK, TypeOK', NEW u \in Users, NEW b \in BookingIds, FinalizeScore(u, b)
  PROVE  /\ bookings[b] \in Booking /\ bookings[b] # None /\ bookings'[b] \in Booking
         /\ ~bookings[b].settled /\ bookings[b].lecturer \in Users
         /\ bookings'[b] = [bookings[b] EXCEPT !.proposed_score = None, !.settled = TRUE]
         /\ \A i \in BookingIds \ {b} : bookings'[i] = bookings[i]
         /\ LET v == bookings[b].lecturer IN
            /\ deliverers[v] \in Deliverer /\ deliverers'[v] \in Deliverer
            /\ deliverers[v].active_claims >= 1
            /\ deliverers'[v].active_claims = deliverers[v].active_claims - 1
            /\ deliverers'[v].deposit = deliverers[v].deposit
            /\ \A i \in Users \ {v} : deliverers'[i] = deliverers[i]
  <1> DEFINE k == bookings[b]
             v == k.lecturer
             d == deliverers[v]
  <1>1. k \in Booking /\ k # None /\ v \in Users /\ ~k.settled
    BY DEF TypeOK, FinalizeScore, MayFinalizeScore, Booking
  <1>2. d \in Deliverer /\ d.active_claims >= 1
    BY <1>1 DEF TypeOK, FinalizeScore, MayFinalizeScore
  <1>3. /\ bookings'[b] = [k EXCEPT !.proposed_score = None, !.settled = TRUE]
        /\ \A i \in BookingIds \ {b} : bookings'[i] = bookings[i]
    <2>1. bookings' = [bookings EXCEPT ![b] = [k EXCEPT !.proposed_score = None, !.settled = TRUE]]
      BY <1>1 DEF TypeOK, FinalizeScore
    <2> QED BY <2>1 DEF TypeOK
  <1>4. bookings'[b] \in Booking
    BY <1>1, <1>3 DEF Booking
  <1>5. PICK paid \in BOOLEAN :
          /\ deliverers'[v] = AfterDelivery(d, paid)
          /\ \A i \in Users \ {v} : deliverers'[i] = deliverers[i]
    <2>1. (k.score >= config.min_impact_score_bps) \in BOOLEAN
      OBVIOUS
    <2>2. deliverers' = [deliverers EXCEPT ![v] =
                           AfterDelivery(@, k.score >= config.min_impact_score_bps)]
      BY DEF FinalizeScore
    <2> QED BY <1>1, <2>1, <2>2 DEF TypeOK
  <1>6. /\ deliverers'[v] \in Deliverer
        /\ deliverers'[v].active_claims = d.active_claims - 1
        /\ deliverers'[v].deposit = d.deposit
    <2> DEFINE done == d.successful_deliveries + (IF paid THEN 1 ELSE 0)
               every == config.deliveries_per_strike_reduction
               strikes == IF paid /\ every > 0 /\ done % every = 0
                          THEN Decrement(d.active_strikes) ELSE d.active_strikes
               claims == d.active_claims - 1
    <2>1. deliverers'[v] = [d EXCEPT !.active_claims = claims,
                              !.successful_deliveries = done, !.active_strikes = strikes]
      BY <1>5 DEF AfterDelivery
    <2>2. claims \in Nat /\ done \in Nat /\ strikes \in Nat
      BY <1>2 DEF Deliverer, Decrement
    <2> HIDE DEF claims, done, strikes, d
    <2>3. /\ deliverers'[v] \in Deliverer /\ deliverers'[v].active_claims = claims
          /\ deliverers'[v].deposit = d.deposit
      BY <1>2, <2>1, <2>2 DEF Deliverer
    <2> QED BY <2>3 DEF claims
  <1> QED BY <1>1, <1>2, <1>3, <1>4, <1>5, <1>6

LEMMA FinalizeScoreLedger ==
  ASSUME Base, Base', Ledger, NEW u \in Users, NEW b \in BookingIds, FinalizeScore(u, b)
  PROVE  Ledger'
  <1>0. TypeOK /\ TypeOK' /\ CountersTyped
    BY CountersNat DEF Base, EInv
  <1>1. PICK k \in Booking : k = bookings[b]
    BY <1>0 DEF TypeOK, FinalizeScore, MayFinalizeScore
  <1>2. PICK m \in ModuleIds : m = k.module
    BY <1>1 DEF Booking
  <1>3. PICK s \in SponsorIds : s = k.sponsorship
    BY <1>1 DEF Booking
  <1>4. PICK v \in Users : v = k.lecturer
    BY <1>0, <1>1, FinalizeScoreMoves, Zenon
  <1>5. /\ bookings[b] # None /\ ~k.settled /\ v # None
        /\ bookings'[b] = [k EXCEPT !.proposed_score = None, !.settled = TRUE]
        /\ bookings'[b] \in Booking
        /\ \A i \in BookingIds \ {b} : bookings'[i] = bookings[i]
    BY <1>0, <1>1, FinalizeScoreMoves, NoneAssumption, Zenon
  <1>6. /\ bookings'[b] # None /\ bookings'[b].settled
        /\ bookings'[b].lecturer = v /\ bookings'[b].sponsorship = s
    BY <1>1, <1>3, <1>4, <1>5, NoneAssumption DEF Booking
  <1>7. /\ Holder(b) = v /\ Holder(b)' = None /\ Backing(b) = s /\ Backing(b)' = s
        /\ Waiting(b) = None /\ Waiting(b)' = None
        /\ Delivering(b) = m /\ Delivering(b)' = None
    BY <1>1, <1>2, <1>3, <1>4, <1>5, <1>6 DEF Holder, Backing, Waiting, Delivering
  <1>8. \A w \in Users : ClaimsHeld(w)' = ClaimsHeld(w) - Is(v, w) + Is(None, w)
    <2>1. \A w \in Users : ClaimsHeld(w) \in Nat /\ w # None
      BY <1>0, NoneAssumption DEF CountersTyped
    <2>2. /\ deliverers[v] \in Deliverer /\ deliverers'[v] \in Deliverer
          /\ deliverers'[v].active_claims = deliverers[v].active_claims - 1
          /\ \A i \in Users \ {v} : deliverers'[i] = deliverers[i]
      BY <1>0, <1>1, <1>4, FinalizeScoreMoves, Zenon
    <2>3. ClaimsHeld(v)' = ClaimsHeld(v) - 1
      BY <2>2, NoneAssumption DEF ClaimsHeld
    <2>4. \A i \in Users \ {v} : ClaimsHeld(i)' = ClaimsHeld(i)
      BY <2>2 DEF ClaimsHeld
    <2> QED BY <2>1, <2>3, <2>4 DEF Is
  <1>9. \A i \in SponsorIds : Active(i)' = Active(i) - Is(s, i) + Is(s, i)
    <2>1. \A i \in SponsorIds : Active(i) \in Nat /\ Active(i)' = Active(i)
      BY <1>0 DEF CountersTyped, Active, FinalizeScore, sponsorVars
    <2> QED BY <2>1 DEF Is
  <1>10. ASSUME NEW i \in ModuleIds
         PROVE  /\ Student(i)' = Student(i) - Is(None, i) + Is(None, i)
                /\ module_vault'[i] - Unsold(i)' - School(i)' - Student(i)'
                     = module_vault[i] - Unsold(i) - School(i) - Student(i)
                       - Is(m, i) + Is(None, i)
                /\ modules'[i] = None => module_vault'[i] = 0
    <2>1. /\ Student(i) \in Nat /\ School(i) \in Nat /\ Unsold(i) \in Nat
          /\ module_vault[i] \in Nat /\ i # None
          /\ Student(i)' = Student(i) /\ School(i)' = School(i) /\ Unsold(i)' = Unsold(i)
      BY <1>0, NoneAssumption
         DEF CountersTyped, ModuleIds, FinalizeScore, Student, School, Unsold
    <2>2. /\ module_vault' = [module_vault EXCEPT ![m] = @ - 1]
          /\ modules' = modules /\ modules[m] # None
      BY <1>1, <1>2 DEF FinalizeScore, MayFinalizeScore
    <2>3. module_vault'[i] = module_vault[i] - Is(m, i)
      BY <1>0, <2>1, <2>2 DEF TypeOK, Is
    <2>4. Is(None, i) = 0 /\ Is(m, i) \in Nat
      BY <2>1 DEF Is
    <2>5. modules'[i] = None => module_vault'[i] = 0
      <3> SUFFICES ASSUME modules'[i] = None PROVE module_vault'[i] = 0
        OBVIOUS
      <3>1. modules[i] = None /\ i # m /\ module_vault[i] = 0
        BY <2>2 DEF Ledger
      <3>2. module_vault'[i] = module_vault[i]
        BY <1>0, <2>2, <3>1 DEF TypeOK
      <3> QED BY <3>1, <3>2
    <2> QED BY <2>1, <2>3, <2>4, <2>5
  <1> QED BY <1>5, <1>7, <1>8, <1>9, <1>10, LedgerMove

LEMMA FinishBookingLedger ==
  ASSUME Base, Base', Ledger, NEW b \in BookingIds, FinishBooking(b)
  PROVE  Ledger'
  <1>0. TypeOK /\ TypeOK' /\ CountersTyped
    BY CountersNat DEF Base, EInv
  <1>1. PICK k \in Booking : k = bookings[b]
    BY <1>0 DEF TypeOK, FinishBooking, MayFinishBooking
  <1>3. PICK s \in SponsorIds : s = k.sponsorship
    BY <1>1 DEF Booking
  <1>5. /\ bookings[b] # None /\ bookings'[b] = None
        /\ \A i \in BookingIds \ {b} : bookings'[i] = bookings[i]
        /\ SponsorshipMoves(s, 0, 0 - 1)
    BY <1>0, <1>1, <1>3, FinishBookingMoves
  <1>6. k.settled /\ k.lecturer # None
    BY <1>1, <1>5 DEF Base, Shapes, Shape, FinishBooking, MayFinishBooking
  <1>7. /\ Holder(b) = None /\ Holder(b)' = None /\ Backing(b) = s /\ Backing(b)' = None
        /\ Waiting(b) = None /\ Waiting(b)' = None
        /\ Delivering(b) = None /\ Delivering(b)' = None
    BY <1>1, <1>3, <1>5, <1>6 DEF Holder, Backing, Waiting, Delivering
  <1>8. \A w \in Users : ClaimsHeld(w)' = ClaimsHeld(w) - Is(None, w) + Is(None, w)
    <2>1. \A w \in Users : ClaimsHeld(w) \in Nat /\ ClaimsHeld(w)' = ClaimsHeld(w)
      BY <1>0 DEF CountersTyped, ClaimsHeld, FinishBooking
    <2> QED BY <2>1 DEF Is
  <1>9. \A i \in SponsorIds : Active(i)' = Active(i) - Is(s, i) + Is(None, i)
    <2>1. \A i \in SponsorIds : Active(i) \in Nat /\ i # None
      BY <1>0, NoneAssumption DEF CountersTyped, SponsorIds
    <2>2. Active(s)' = Active(s) - 1
      BY <1>5, NoneAssumption DEF Active, SponsorshipMoves, Sponsorship
    <2>3. \A i \in SponsorIds \ {s} : Active(i)' = Active(i)
      BY <1>5 DEF Active, SponsorshipMoves
    <2> QED BY <2>1, <2>2, <2>3 DEF Is
  <1>10. ASSUME NEW i \in ModuleIds
         PROVE  /\ Student(i)' = Student(i) - Is(None, i) + Is(None, i)
                /\ module_vault'[i] - Unsold(i)' - School(i)' - Student(i)'
                     = module_vault[i] - Unsold(i) - School(i) - Student(i)
                       - Is(None, i) + Is(None, i)
                /\ modules'[i] = None => module_vault'[i] = 0
    <2>1. /\ Student(i) \in Nat /\ School(i) \in Nat /\ Unsold(i) \in Nat
          /\ module_vault[i] \in Nat
          /\ Student(i)' = Student(i) /\ School(i)' = School(i) /\ Unsold(i)' = Unsold(i)
          /\ module_vault' = module_vault /\ modules' = modules
      BY <1>0 DEF CountersTyped, FinishBooking, Student, School, Unsold, moduleVars
    <2> QED BY <2>1 DEF Is, Ledger
  <1> QED BY <1>5, <1>7, <1>8, <1>9, <1>10, LedgerMove
-----------------------------------------------------------------------------
(* Instructions that move no booking *)

\* Nothing exists under a module id not yet given out.
FreshModules == \A m \in ModuleIds : m >= next_id.module => modules[m] = None

LEMMA CreateModuleLedger ==
  ASSUME Base, Base', Ledger, FreshModules, NEW u \in Users, NEW n \in Amounts,
         CreateModule(u, n)
  PROVE  Ledger'
  <1>0. TypeOK /\ TypeOK' /\ CountersTyped /\ n \in Nat
    BY CountersNat, AmountNat DEF Base, EInv
  <1>1. PICK m \in ModuleIds : m = next_id.module
    BY <1>0, BoundsAssumption DEF TypeOK, CreateModule, ModuleIds
  <1>2. modules[m] = None /\ module_vault[m] = 0
    BY <1>1 DEF FreshModules, Ledger, ModuleIds
  <1>3. PICK r : /\ r = [creator |-> u, deposit |-> config.module_deposit,
                         terms |-> config.terms, sponsor_allocation |-> n,
                         school_allocation |-> 0, student_allocation |-> 0]
    OBVIOUS
  <1>4. /\ r \in Module /\ r # None /\ r.sponsor_allocation = n
        /\ r.school_allocation = 0 /\ r.student_allocation = 0
    BY <1>0, <1>3, ConfigOK, NoneAssumption DEF TypeOK, Module, ConfigParams
  <1>5. /\ modules' = [modules EXCEPT ![m] = r]
        /\ module_vault' = [module_vault EXCEPT ![m] = n]
        /\ UNCHANGED <<bookings, sponsorships, deliverers>>
    BY <1>1, <1>3 DEF CreateModule, bookingVars, sponsorVars
  <1>6. ASSUME NEW i \in ModuleIds
        PROVE  /\ Student(i)' = Student(i)
               /\ module_vault'[i] - Unsold(i)' - School(i)'
                    = module_vault[i] - Unsold(i) - School(i)
               /\ modules'[i] = None => module_vault'[i] = 0
    <2>1. CASE i = m
      <3>1. modules'[i] = r /\ module_vault'[i] = n
        BY <1>0, <1>5, <2>1 DEF TypeOK
      <3> QED BY <1>0, <1>2, <1>4, <2>1, <3>1 DEF Student, School, Unsold
    <2>2. CASE i # m
      <3>1. modules'[i] = modules[i] /\ module_vault'[i] = module_vault[i]
        BY <1>0, <1>5, <2>2 DEF TypeOK
      <3> QED BY <3>1 DEF Student, School, Unsold, Ledger
    <2> QED BY <2>1, <2>2
  <1>7. /\ \A i \in BookingIds : Unmoved(i)
        /\ \A v \in Users : ClaimsHeld(v)' = ClaimsHeld(v)
        /\ \A s \in SponsorIds : Active(s)' = Active(s)
    BY <1>5 DEF Unmoved, ClaimsHeld, Active
  <1> QED BY <1>6, <1>7, LedgerKept

\* Tokens that only change allocation, or leave with the vault, keep the ledger.
LEMMA ModuleMovesLedger ==
  ASSUME Base, Base', Ledger, NEW m \in ModuleIds, NEW a \in Int, NEW c \in Int,
         ModuleMoves(m, a, c, 0), UNCHANGED <<bookings, deliverers>>,
         \A s \in SponsorIds : Active(s)' = Active(s),
         module_vault' = [module_vault EXCEPT ![m] = @ + (a + c)]
  PROVE  Ledger'
  <1>0. TypeOK /\ TypeOK' /\ CountersTyped
    BY CountersNat DEF Base, EInv
  <1>1. ASSUME NEW i \in ModuleIds
        PROVE  /\ Student(i)' = Student(i)
               /\ module_vault'[i] - Unsold(i)' - School(i)'
                    = module_vault[i] - Unsold(i) - School(i)
               /\ modules'[i] = None => module_vault'[i] = 0
    <2>1. CASE i = m
      <3>1. /\ modules[i] # None /\ modules'[i] # None
            /\ modules[i] \in Module /\ modules'[i] \in Module
            /\ module_vault'[i] = module_vault[i] + (a + c) /\ module_vault[i] \in Nat
        BY <1>0, <2>1, NoneAssumption DEF ModuleMoves, TypeOK
      <3>2. /\ Student(i)' = Student(i) /\ Unsold(i)' = Unsold(i) + a
            /\ School(i)' = School(i) + c /\ Unsold(i) \in Nat /\ School(i) \in Nat
        BY <2>1, <3>1 DEF ModuleMoves, Student, School, Unsold, Module
      <3> QED BY <3>1, <3>2
    <2>2. CASE i # m
      <3>1. modules'[i] = modules[i] /\ module_vault'[i] = module_vault[i]
        BY <1>0, <2>2 DEF TypeOK, ModuleMoves
      <3> QED BY <3>1 DEF Student, School, Unsold, Ledger
    <2> QED BY <2>1, <2>2
  <1>2. /\ \A i \in BookingIds : Unmoved(i)
        /\ \A v \in Users : ClaimsHeld(v)' = ClaimsHeld(v)
    BY DEF Unmoved, ClaimsHeld
  <1> QED BY <1>1, <1>2, LedgerKept

LEMMA SponsorModuleLedger ==
  ASSUME Base, Base', Ledger, NEW u \in Users, NEW m \in ModuleIds, NEW a \in Assets,
         NEW n \in Amounts, SponsorModule(u, m, a, n)
  PROVE  Ledger'
  <1>0. TypeOK /\ TypeOK' /\ n \in Int
    BY AmountNat DEF Base, EInv
  <1>1. ModuleMoves(m, 0 - n, n, 0)
    BY <1>0, SponsorModuleMoves
  <1>2. PICK s \in SponsorIds : s = next_id.sponsor
    BY <1>0, BoundsAssumption DEF TypeOK, SponsorModule, SponsorIds
  <1>3. sponsorships[s] = None
    BY <1>2 DEF Base, EInv, Fresh, FreshSponsorship, SponsorIds
  <1>4. PICK r : /\ r = [module |-> m, sponsor |-> u, asset |-> a, amount |-> n,
                         active_bookings |-> 0,
                         price_per_token |-> price_per_token(modules[m].terms, Decimals[a]),
                         sponsored_at |-> now]
    OBVIOUS
  <1>5. sponsorships' = [sponsorships EXCEPT ![s] = r] /\ r.active_bookings = 0
    BY <1>2, <1>4 DEF SponsorModule
  <1>6. \A i \in SponsorIds : Active(i)' = Active(i)
    <2>1. sponsorships'[s] = r /\ \A i \in SponsorIds \ {s} : sponsorships'[i] = sponsorships[i]
      BY <1>0, <1>5 DEF TypeOK
    <2> QED BY <1>3, <1>5, <2>1 DEF Active
  <1>7. module_vault' = [module_vault EXCEPT ![m] = @ + ((0 - n) + n)]
    <2>1. module_vault' = module_vault /\ module_vault[m] + ((0 - n) + n) = module_vault[m]
      BY <1>0 DEF SponsorModule, TypeOK
    <2> QED BY <1>0, <2>1 DEF TypeOK
  <1>8. 0 - n \in Int /\ UNCHANGED <<bookings, deliverers>>
    BY <1>0 DEF SponsorModule, bookingVars
  <1> QED BY <1>0, <1>1, <1>6, <1>7, <1>8, ModuleMovesLedger

LEMMA ReclaimLedger ==
  ASSUME Base, Base', Ledger, NEW u \in Users, NEW s \in SponsorIds, NEW n \in Amounts,
         ReclaimSponsorship(u, s, n)
  PROVE  Ledger'
  <1>0. TypeOK /\ TypeOK' /\ n \in Int
    BY AmountNat DEF Base, EInv
  <1>1. PICK m \in ModuleIds : m = sponsorships[s].module
    BY <1>0, ReclaimMoves
  <1>2. ModuleMoves(m, n, 0 - n, 0) /\ SponsorshipMoves(s, 0 - n, 0)
    BY <1>0, <1>1, ReclaimMoves
  <1>3. \A i \in SponsorIds : Active(i)' = Active(i)
    BY <1>2, NoneAssumption DEF Active, SponsorshipMoves, Sponsorship
  <1>4. module_vault' = [module_vault EXCEPT ![m] = @ + (n + (0 - n))]
    <2>1. module_vault' = module_vault /\ module_vault[m] + (n + (0 - n)) = module_vault[m]
      BY <1>0 DEF ReclaimSponsorship, TypeOK
    <2> QED BY <1>0, <2>1 DEF TypeOK
  <1>5. 0 - n \in Int /\ UNCHANGED <<bookings, deliverers>>
    BY <1>0 DEF ReclaimSponsorship, bookingVars
  <1> QED BY <1>0, <1>2, <1>3, <1>4, <1>5, ModuleMovesLedger

LEMMA BurnLedger ==
  ASSUME Base, Base', Ledger, NEW u \in Users, NEW m \in ModuleIds, NEW n \in Amounts,
         BurnUnsponsored(u, m, n)
  PROVE  Ledger'
  <1>0. TypeOK /\ TypeOK' /\ n \in Nat
    BY AmountNat DEF Base, EInv
  <1>1. ModuleMoves(m, 0 - n, 0, 0) /\ module_vault' = [module_vault EXCEPT ![m] = @ - n]
    BY <1>0, BurnMoves
  <1>2. module_vault[m] + ((0 - n) + 0) = module_vault[m] - n
    BY <1>0 DEF TypeOK
  <1>3. module_vault' = [module_vault EXCEPT ![m] = @ + ((0 - n) + 0)]
    BY <1>1, <1>2
  <1>4. UNCHANGED <<sponsorships, bookings, deliverers>>
    BY DEF BurnUnsponsored, sponsorVars, bookingVars
  <1>5. \A i \in SponsorIds : Active(i)' = Active(i)
    BY <1>4 DEF Active
  <1>6. 0 - n \in Int /\ 0 \in Int
    BY <1>0
  <1> QED BY <1>1, <1>3, <1>4, <1>5, <1>6, ModuleMovesLedger

\* A module is removed when its vault is empty: every counter is already zero.
LEMMA RemoveModuleLedger ==
  ASSUME Base, Base', Ledger, NEW u \in Users, NEW m \in ModuleIds, RemoveModule(u, m)
  PROVE  Ledger'
  <1>0. TypeOK /\ TypeOK' /\ CountersTyped
    BY CountersNat DEF Base, EInv
  <1>1. /\ module_vault[m] = 0 /\ module_vault' = module_vault
        /\ modules' = [modules EXCEPT ![m] = None]
        /\ UNCHANGED <<sponsorships, bookings, deliverers>>
    BY DEF RemoveModule, FullyBurned, sponsorVars, bookingVars
  <1>2. Unsold(m) = 0 /\ School(m) = 0 /\ Student(m) = 0
    <2>1. /\ Unsold(m) \in Nat /\ School(m) \in Nat /\ Student(m) \in Nat
          /\ Cardinality(InDelivery(m)) \in Nat
      BY <1>0, BookingsFinite DEF CountersTyped, InDelivery, LiveBookings
    <2>2. 0 = Unsold(m) + School(m) + Student(m) + Cardinality(InDelivery(m))
      BY <1>1 DEF Ledger
    <2> QED BY <2>1, <2>2
  <1>3. modules'[m] = None /\ \A i \in ModuleIds \ {m} : modules'[i] = modules[i]
    BY <1>0, <1>1 DEF TypeOK
  <1>4. \A i \in ModuleIds :
          /\ Student(i)' = Student(i) /\ Unsold(i)' = Unsold(i) /\ School(i)' = School(i)
          /\ modules'[i] = None => module_vault'[i] = 0
    BY <1>1, <1>2, <1>3 DEF Student, Unsold, School, Ledger
  <1>5. /\ \A i \in BookingIds : Unmoved(i)
        /\ \A v \in Users : ClaimsHeld(v)' = ClaimsHeld(v)
        /\ \A s \in SponsorIds : Active(s)' = Active(s)
    BY <1>1 DEF Unmoved, ClaimsHeld, Active
  <1> QED BY <1>1, <1>4, <1>5, LedgerKept

\* The instructions that touch no module: what they change, no counter sees.
LEMMA ModulesKeptLedger ==
  ASSUME Base, Base', Ledger, UNCHANGED moduleVars, \A b \in BookingIds : Unmoved(b),
         \A u \in Users : ClaimsHeld(u)' = ClaimsHeld(u),
         \A s \in SponsorIds : Active(s)' = Active(s)
  PROVE  Ledger'
  <1>1. \A m \in ModuleIds :
          /\ Student(m)' = Student(m) /\ Unsold(m)' = Unsold(m) /\ School(m)' = School(m)
          /\ module_vault'[m] = module_vault[m]
          /\ modules'[m] = None => module_vault'[m] = 0
    BY DEF moduleVars, Student, Unsold, School, Ledger
  <1> QED BY <1>1, LedgerKept

LEMMA CloseSponsorshipLedger ==
  ASSUME Base, Base', Ledger, NEW u \in Users, NEW s \in SponsorIds, CloseSponsorship(u, s)
  PROVE  Ledger'
  <1>0. TypeOK
    BY DEF Base, EInv
  <1>1. /\ sponsorships[s] # None /\ sponsorships[s].active_bookings = 0
        /\ sponsorships'[s] = None
        /\ \A i \in SponsorIds \ {s} : sponsorships'[i] = sponsorships[i]
    BY <1>0 DEF CloseSponsorship, SponsorshipSpent, TypeOK
  <1>2. \A i \in SponsorIds : Active(i)' = Active(i)
    BY <1>1 DEF Active
  <1>3. UNCHANGED <<moduleVars, bookings, deliverers>>
    BY DEF CloseSponsorship, bookingVars
  <1> QED BY <1>2, <1>3, ModulesKeptLedger DEF Unmoved, ClaimsHeld

\* Registering keeps the claims of a record and locks what its deposit lacks.
LEMMA RegisterMoves ==
  ASSUME TypeOK, NEW u \in Users, RegisterDeliverer(u)
  PROVE  /\ deliverers'[u] \in Deliverer
         /\ deliverers'[u].active_claims = ClaimsHeld(u)
         /\ \E more \in Nat :
              /\ vault' = vault + more
              /\ deliverers'[u].deposit =
                   (IF deliverers[u] = None THEN 0 ELSE deliverers[u].deposit) + more
         /\ \A v \in Users \ {u} : deliverers'[v] = deliverers[v]
  <1> DEFINE old == IF deliverers[u] = None
                    THEN [deposit |-> 0, active_claims |-> 0, active_strikes |-> 0,
                          successful_deliveries |-> 0]
                    ELSE deliverers[u]
             additional == TopUp(old)
             deposit == IF additional > 0 THEN config.deliverer_deposit ELSE old.deposit
  <1>1. /\ deliverers' = [deliverers EXCEPT ![u] = [old EXCEPT !.deposit = deposit]]
        /\ vault' = vault + additional
    BY DEF RegisterDeliverer
  <1>2. /\ old \in Deliverer /\ old.active_claims = ClaimsHeld(u)
        /\ old.deposit = IF deliverers[u] = None THEN 0 ELSE deliverers[u].deposit
    BY DEF TypeOK, ClaimsHeld, Deliverer
  <1>3. additional \in Nat /\ deposit = old.deposit + additional
    <2>1. config.deliverer_deposit \in Nat /\ old.deposit \in Nat
      BY <1>2, ConfigOK DEF TypeOK, ConfigParams, Deliverer
    <2> HIDE DEF old
    <2> QED BY <2>1 DEF TopUp
  <1> HIDE DEF old, additional, deposit
  <1>4. /\ deliverers'[u] = [old EXCEPT !.deposit = deposit]
        /\ \A v \in Users \ {u} : deliverers'[v] = deliverers[v]
    BY <1>1 DEF TypeOK
  <1>5. /\ deliverers'[u] \in Deliverer /\ deliverers'[u].deposit = deposit
        /\ deliverers'[u].active_claims = old.active_claims
    <2>1. deposit \in Nat
      BY <1>2, <1>3 DEF Deliverer
    <2> QED BY <1>2, <1>4, <2>1 DEF Deliverer
  <1> QED BY <1>1, <1>2, <1>3, <1>4, <1>5

LEMMA RegisterLedger ==
  ASSUME Base, Base', Ledger, NEW u \in Users,
         RegisterDeliverer(u) \/ UnregisterDeliverer(u)
  PROVE  Ledger'
  <1>0. TypeOK /\ TypeOK'
    BY DEF Base, EInv
  <1>1. UNCHANGED <<moduleVars, bookings, sponsorships>>
    BY DEF RegisterDeliverer, UnregisterDeliverer, bookingVars, sponsorVars
  <1>2. ClaimsHeld(u)' = ClaimsHeld(u) /\ \A v \in Users \ {u} : deliverers'[v] = deliverers[v]
    <2>1. CASE UnregisterDeliverer(u)
      BY <1>0, <2>1 DEF UnregisterDeliverer, MayUnregister, ClaimsHeld, TypeOK
    <2>2. CASE RegisterDeliverer(u)
      BY <1>0, <2>2, RegisterMoves, NoneAssumption DEF ClaimsHeld
    <2> QED BY <2>1, <2>2
  <1>3. \A v \in Users : ClaimsHeld(v)' = ClaimsHeld(v)
    BY <1>2 DEF ClaimsHeld
  <1> QED BY <1>1, <1>3, ModulesKeptLedger DEF Unmoved, Active

\* Scoring, disputing and resolving replace one booking's record.
LEMMA SubmitMoves ==
  ASSUME TypeOK, NEW u \in Users, NEW b \in BookingIds, NEW score \in Scores,
         SubmitImpactScore(u, b, score)
  PROVE  /\ bookings[b] \in Booking /\ bookings'[b] \in Booking
         /\ bookings'[b] = [bookings[b] EXCEPT !.score = score, !.score_at = now]
         /\ \A i \in BookingIds \ {b} : bookings'[i] = bookings[i]
  <1>1. bookings[b] \in Booking /\ score \in Bps /\ now \in Nat
    BY InputsAssumption DEF TypeOK, SubmitImpactScore
  <1>2. bookings' = [bookings EXCEPT ![b] =
                       [bookings[b] EXCEPT !.score = score, !.score_at = now]]
    BY DEF TypeOK, SubmitImpactScore
  <1>3. [bookings[b] EXCEPT !.score = score, !.score_at = now] \in Booking
    BY <1>1 DEF Booking
  <1> QED BY <1>1, <1>2, <1>3 DEF TypeOK

LEMMA DisputeMoves ==
  ASSUME TypeOK, NEW u \in Users, NEW b \in BookingIds, NEW score \in Scores,
         DisputeScore(u, b, score)
  PROVE  /\ bookings[b] \in Booking /\ bookings'[b] \in Booking
         /\ bookings'[b] = [bookings[b] EXCEPT !.disputer = u, !.proposed_score = score]
         /\ \A i \in BookingIds \ {b} : bookings'[i] = bookings[i]
  <1>1. bookings[b] \in Booking /\ score \in Bps
    BY InputsAssumption DEF TypeOK, DisputeScore
  <1>2. bookings' = [bookings EXCEPT ![b] =
                       [bookings[b] EXCEPT !.disputer = u, !.proposed_score = score]]
    BY DEF TypeOK, DisputeScore
  <1>3. [bookings[b] EXCEPT !.disputer = u, !.proposed_score = score] \in Booking
    BY <1>1 DEF Booking
  <1> QED BY <1>1, <1>2, <1>3 DEF TypeOK

LEMMA ResolveMoves ==
  ASSUME TypeOK, NEW u \in Users, NEW b \in BookingIds, NEW accept \in BOOLEAN,
         ResolveDispute(u, b, accept)
  PROVE  /\ bookings[b] \in Booking /\ bookings'[b] \in Booking
         /\ \E x \in {bookings[b].score, bookings[b].proposed_score} :
              bookings'[b] = [bookings[b] EXCEPT !.score = x, !.proposed_score = None]
         /\ \A i \in BookingIds \ {b} : bookings'[i] = bookings[i]
  <1> DEFINE k == bookings[b]
             x == IF accept THEN k.proposed_score ELSE k.score
  <1>1. k \in Booking /\ x \in Bps \cup {None}
    BY DEF TypeOK, ResolveDispute, Booking
  <1>2. bookings' = [bookings EXCEPT ![b] = [k EXCEPT !.score = x, !.proposed_score = None]]
    BY DEF TypeOK, ResolveDispute
  <1> HIDE DEF x
  <1>3. [k EXCEPT !.score = x, !.proposed_score = None] \in Booking
    BY <1>1 DEF Booking
  <1>4. /\ bookings'[b] = [k EXCEPT !.score = x, !.proposed_score = None]
        /\ \A i \in BookingIds \ {b} : bookings'[i] = bookings[i]
    BY <1>2 DEF TypeOK
  <1>5. x \in {k.score, k.proposed_score}
    BY DEF x
  <1> QED BY <1>1, <1>3, <1>4, <1>5

LEMMA ScoringUnmoved ==
  ASSUME TypeOK, NEW u \in Users, NEW b \in BookingIds,
         \/ \E score \in Scores : SubmitImpactScore(u, b, score) \/ DisputeScore(u, b, score)
         \/ \E accept \in BOOLEAN : ResolveDispute(u, b, accept)
  PROVE  \A i \in BookingIds : Unmoved(i)
  <1>1. ASSUME NEW r, r \in Booking, bookings[b] \in Booking, bookings[b] # None,
               bookings'[b] = r, r.module = bookings[b].module,
               r.sponsorship = bookings[b].sponsorship, r.lecturer = bookings[b].lecturer,
               r.settled = bookings[b].settled,
               \A i \in BookingIds \ {b} : bookings'[i] = bookings[i]
        PROVE  \A i \in BookingIds : Unmoved(i)
    BY <1>1, NoneAssumption DEF Unmoved
  <1>2. ASSUME NEW score \in Scores, SubmitImpactScore(u, b, score)
        PROVE  \A i \in BookingIds : Unmoved(i)
    <2>1. /\ bookings[b] \in Booking /\ bookings'[b] \in Booking
          /\ bookings'[b] = [bookings[b] EXCEPT !.score = score, !.score_at = now]
          /\ \A i \in BookingIds \ {b} : bookings'[i] = bookings[i]
      BY <1>2, SubmitMoves, Zenon
    <2>2. bookings[b] # None
      BY <1>2 DEF SubmitImpactScore
    <2> QED BY <1>1, <2>1, <2>2 DEF Booking
  <1>3. ASSUME NEW score \in Scores, DisputeScore(u, b, score)
        PROVE  \A i \in BookingIds : Unmoved(i)
    <2>1. /\ bookings[b] \in Booking /\ bookings'[b] \in Booking
          /\ bookings'[b] = [bookings[b] EXCEPT !.disputer = u, !.proposed_score = score]
          /\ \A i \in BookingIds \ {b} : bookings'[i] = bookings[i]
      BY <1>3, DisputeMoves, Zenon
    <2>2. bookings[b] # None
      BY <1>3 DEF DisputeScore
    <2> QED BY <1>1, <2>1, <2>2 DEF Booking
  <1>4. ASSUME NEW accept \in BOOLEAN, ResolveDispute(u, b, accept)
        PROVE  \A i \in BookingIds : Unmoved(i)
    <2>1. /\ bookings[b] \in Booking /\ bookings'[b] \in Booking
          /\ \E x \in {bookings[b].score, bookings[b].proposed_score} :
               bookings'[b] = [bookings[b] EXCEPT !.score = x, !.proposed_score = None]
          /\ \A i \in BookingIds \ {b} : bookings'[i] = bookings[i]
      BY <1>4, ResolveMoves, ZenonT(30)
    <2>2. bookings[b] # None
      BY <1>4 DEF ResolveDispute
    <2>3. PICK x : bookings'[b] = [bookings[b] EXCEPT !.score = x, !.proposed_score = None]
      BY <2>1, Zenon
    <2> QED BY <1>1, <2>1, <2>2, <2>3 DEF Booking
  <1> QED BY <1>2, <1>3, <1>4

\* Module ids are given out in order, and only create_module opens a module.
LEMMA FreshModulesStep ==
  ASSUME Base, Base', FreshModules, [Next]_vars
  PROVE  FreshModules'
  <1>0. TypeOK
    BY DEF Base, EInv
  <1>1. ASSUME NEW u \in Users, NEW n \in Amounts, CreateModule(u, n) PROVE FreshModules'
    <2>1. /\ next_id'.module = next_id.module + 1 /\ next_id.module \in Nat
          /\ \A i \in ModuleIds \ {next_id.module} : modules'[i] = modules[i]
      BY <1>0, <1>1 DEF CreateModule, TypeOK
    <2> QED BY <2>1 DEF FreshModules, ModuleIds
  <1>2. ASSUME next_id'.module = next_id.module, NEW m,
               \A i \in ModuleIds \ {m} : modules'[i] = modules[i],
               m \in ModuleIds => modules[m] # None
        PROVE  FreshModules'
    BY <1>2 DEF FreshModules
  <1>3. ASSUME next_id'.module = next_id.module, modules' = modules PROVE FreshModules'
    BY <1>3 DEF FreshModules
  <1>4. ASSUME NEW u \in Users, NEW m \in ModuleIds,
               \/ \E a \in Assets, n \in Amounts : SponsorModule(u, m, a, n)
               \/ \E n \in Amounts : BurnUnsponsored(u, m, n)
               \/ RemoveModule(u, m)
        PROVE  FreshModules'
    <2>1. next_id'.module = next_id.module /\ modules[m] # None
      BY <1>0, <1>4 DEF SponsorModule, BurnUnsponsored, RemoveModule, TypeOK
    <2>2. \A i \in ModuleIds \ {m} : modules'[i] = modules[i]
      BY <1>0, <1>4 DEF SponsorModule, BurnUnsponsored, RemoveModule, TypeOK
    <2> QED BY <1>2, <2>1, <2>2
  <1>5. ASSUME NEW u \in Users, NEW s \in SponsorIds,
               \/ \E n \in Amounts : ReclaimSponsorship(u, s, n)
               \/ \E t \in now..(now + config.max_delivery_window) : BookModule(u, s, t)
        PROVE  FreshModules'
    <2>1. next_id'.module = next_id.module /\ modules[sponsorships[s].module] # None
      BY <1>0, <1>5 DEF ReclaimSponsorship, BookModule, TypeOK
    <2>2. \A i \in ModuleIds \ {sponsorships[s].module} : modules'[i] = modules[i]
      BY <1>0, <1>5 DEF ReclaimSponsorship, BookModule, TypeOK
    <2> QED BY <1>2, <2>1, <2>2
  <1>6. ASSUME NEW b \in BookingIds,
               \/ \E u \in Users : ClaimBooking(u, b) \/ CancelClaim(u, b)
                                     \/ CancelBooking(u, b)
               \/ ExpireBooking(b)
        PROVE  FreshModules'
    <2>1. next_id'.module = next_id.module /\ modules[bookings[b].module] # None
      BY <1>6, Zenon DEF ClaimBooking, CancelClaim, CancelBooking, MayCancelBooking, ExpireBooking, MayExpireBooking, ReturnToken, MayReturnToken
    <2>2. \A i \in ModuleIds \ {bookings[b].module} : modules'[i] = modules[i]
      BY <1>0, <1>6, Zenon DEF ClaimBooking, CancelClaim, CancelBooking, ExpireBooking,
                        ReturnToken, TypeOK
    <2> QED BY <1>2, <2>1, <2>2
  <1>7. ASSUME NEW u \in Users, NEW b \in BookingIds,
               \/ \E score \in Scores : SubmitImpactScore(u, b, score)
                                        \/ DisputeScore(u, b, score)
               \/ \E accept \in BOOLEAN : ResolveDispute(u, b, accept)
               \/ FinalizeScore(u, b)
               \/ \E kind \in Kinds, r \in Recipients : MintCredential(u, b, kind, r)
        PROVE  FreshModules'
    BY <1>3, <1>7 DEF SubmitImpactScore, DisputeScore, ResolveDispute, FinalizeScore,
                      MintCredential, moduleVars
  <1>8. ASSUME NEW u \in Users,
               \/ \E s \in SponsorIds : CloseSponsorship(u, s)
               \/ RegisterDeliverer(u) \/ UnregisterDeliverer(u)
               \/ \E c \in cancellations : ClearOldCancellation(u, c)
               \/ \E r \in RoleNames : ChangeRole(u, r)
        PROVE  FreshModules'
    BY <1>3, <1>8 DEF CloseSponsorship, RegisterDeliverer, UnregisterDeliverer,
                      ClearOldCancellation, ChangeRole, moduleVars
  <1>9. ASSUME \/ \E b \in BookingIds : FinishBooking(b) \/ StrayToBookingEscrow(b)
               \/ \E s \in SponsorIds : StrayToSponsorEscrow(s)
               \/ UpdateConfig \/ WithdrawTreasury \/ Tick \/ UNCHANGED vars
        PROVE  FreshModules'
    BY <1>3, <1>9 DEF FinishBooking, StrayToBookingEscrow, StrayToSponsorEscrow,
                      UpdateConfig, WithdrawTreasury, Tick, vars, moduleVars
  <1> QED BY <1>1, <1>4, <1>5, <1>6, <1>7, <1>8, <1>9 DEF Next

LEMMA LedgerStep ==
  ASSUME Base, Base', Ledger, FreshModules, [Next]_vars
  PROVE  Ledger'
  <1>0. TypeOK /\ TypeOK'
    BY DEF Base, EInv
  <1>1. ASSUME NEW u \in Users, NEW n \in Amounts, CreateModule(u, n) PROVE Ledger'
    BY <1>1, CreateModuleLedger
  <1>2. ASSUME NEW u \in Users, NEW m \in ModuleIds,
               \/ \E a \in Assets, n \in Amounts : SponsorModule(u, m, a, n)
               \/ \E n \in Amounts : BurnUnsponsored(u, m, n)
               \/ RemoveModule(u, m)
        PROVE  Ledger'
    BY <1>2, SponsorModuleLedger, BurnLedger, RemoveModuleLedger
  <1>3. ASSUME NEW u \in Users, NEW s \in SponsorIds,
               \/ \E n \in Amounts : ReclaimSponsorship(u, s, n)
               \/ CloseSponsorship(u, s)
               \/ \E t \in now..(now + config.max_delivery_window) : BookModule(u, s, t)
        PROVE  Ledger'
    BY <1>3, ReclaimLedger, CloseSponsorshipLedger, BookModuleLedger
  <1>4. ASSUME NEW u \in Users, RegisterDeliverer(u) \/ UnregisterDeliverer(u) PROVE Ledger'
    BY <1>4, RegisterLedger
  <1>5. ASSUME NEW u \in Users, NEW b \in BookingIds, ClaimBooking(u, b) \/ CancelClaim(u, b)
        PROVE  Ledger'
    BY <1>5, ClaimBookingLedger, CancelClaimLedger
  <1>6. ASSUME NEW b \in BookingIds,
               ExpireBooking(b) \/ \E u \in Users : CancelBooking(u, b)
        PROVE  Ledger'
    BY <1>6, ReturnTokenLedger DEF CancelBooking, MayCancelBooking, ExpireBooking, MayExpireBooking
  <1>7. ASSUME NEW u \in Users, NEW b \in BookingIds,
               \/ \E score \in Scores : SubmitImpactScore(u, b, score)
                                        \/ DisputeScore(u, b, score)
               \/ \E accept \in BOOLEAN : ResolveDispute(u, b, accept)
        PROVE  Ledger'
    <2>1. UNCHANGED <<moduleVars, sponsorships, deliverers>>
      BY <1>7 DEF SubmitImpactScore, DisputeScore, ResolveDispute, sponsorVars
    <2>2. \A i \in BookingIds : Unmoved(i)
      BY <1>0, <1>7, ScoringUnmoved
    <2> QED BY <2>1, <2>2, ModulesKeptLedger DEF ClaimsHeld, Active
  <1>8. ASSUME NEW u \in Users, NEW b \in BookingIds, FinalizeScore(u, b) PROVE Ledger'
    BY <1>8, FinalizeScoreLedger
  <1>9. ASSUME NEW b \in BookingIds, FinishBooking(b) PROVE Ledger'
    BY <1>9, FinishBookingLedger
  <1>10. ASSUME UNCHANGED <<moduleVars, bookings, sponsorships, deliverers>> PROVE Ledger'
    BY <1>10, ModulesKeptLedger DEF Unmoved, ClaimsHeld, Active
  <1>11. ASSUME NEW u \in Users,
                \/ \E b \in BookingIds, kind \in Kinds, r \in Recipients :
                     MintCredential(u, b, kind, r)
                \/ \E c \in cancellations : ClearOldCancellation(u, c)
                \/ \E r \in RoleNames : ChangeRole(u, r)
         PROVE  Ledger'
    BY <1>10, <1>11
       DEF MintCredential, ClearOldCancellation, ChangeRole, bookingVars, sponsorVars
  <1>12. ASSUME \/ \E b \in BookingIds : StrayToBookingEscrow(b)
                \/ \E s \in SponsorIds : StrayToSponsorEscrow(s)
                \/ UpdateConfig \/ WithdrawTreasury \/ Tick \/ UNCHANGED vars
         PROVE  Ledger'
    BY <1>10, <1>12 DEF StrayToBookingEscrow, StrayToSponsorEscrow, UpdateConfig,
                        WithdrawTreasury, Tick,
                        vars, bookingVars, sponsorVars
  <1> QED BY <1>1, <1>2, <1>3, <1>4, <1>5, <1>6, <1>7, <1>8, <1>9, <1>11, <1>12 DEF Next

LInv == Base /\ FreshModules /\ Ledger

LEMMA LInvInit == Init => LInv
  <1> SUFFICES ASSUME Init PROVE FreshModules /\ Ledger
    BY BaseInit DEF LInv
  <1>1. FreshModules
    BY DEF Init, FreshModules
  <1>2. \A T : T = {} => Cardinality(T) = 0
    BY FS_EmptySet
  <1>3. \A b \in BookingIds : bookings[b] = None
    BY DEF Init
  <1>4. \A u \in Users : ClaimsHeld(u) = Cardinality(ClaimsOf(u))
    BY <1>2, <1>3 DEF Init, ClaimsHeld, ClaimsOf, LiveBookings
  <1>5. \A s \in SponsorIds : Active(s) = Cardinality(BookingsOf(s))
    BY <1>2, <1>3 DEF Init, Active, BookingsOf, LiveBookings
  <1>6. ASSUME NEW m \in ModuleIds
        PROVE  /\ Student(m) = Cardinality(Unclaimed(m))
               /\ module_vault[m] = Unsold(m) + School(m) + Student(m)
                                    + Cardinality(InDelivery(m))
               /\ modules[m] = None => module_vault[m] = 0
    <2>1. modules[m] = None /\ module_vault[m] = 0
      BY DEF Init
    <2>2. Unclaimed(m) = {} /\ InDelivery(m) = {}
      BY <1>3 DEF Unclaimed, InDelivery, LiveBookings
    <2> QED BY <1>2, <2>1, <2>2 DEF Student, School, Unsold
  <1> QED BY <1>1, <1>4, <1>5, <1>6 DEF Ledger

LEMMA LInvStep == LInv /\ [Next]_vars => LInv'
  <1> SUFFICES ASSUME LInv, [Next]_vars PROVE LInv'
    OBVIOUS
  <1>1. Base /\ Base'
    BY BaseStep DEF LInv
  <1> QED BY <1>1, FreshModulesStep, LedgerStep DEF LInv

LEMMA LInvClaims == LInv => ClaimsCounted
  <1> SUFFICES ASSUME LInv, NEW u \in Users
               PROVE  IF deliverers[u] = None
                      THEN ClaimsOf(u) = {}
                      ELSE deliverers[u].active_claims = Cardinality(ClaimsOf(u))
    BY DEF ClaimsCounted
  <1>1. ClaimsHeld(u) = Cardinality(ClaimsOf(u))
    BY DEF LInv, Ledger
  <1>2. ClaimsOf(u) \in SUBSET BookingIds
    BY DEF ClaimsOf, LiveBookings
  <1>3. IsFiniteSet(ClaimsOf(u))
    BY <1>2, BookingsFinite
  <1>4. Cardinality(ClaimsOf(u)) = 0 => ClaimsOf(u) = {}
    BY <1>3, FS_EmptySet
  <1> QED BY <1>1, <1>4 DEF ClaimsHeld

\* A lecturer's active_claims is the number of claims they hold, through every
\* claim, release, cancellation, expiry, settlement and registration.
THEOREM ClaimsTheorem == Spec => []ClaimsCounted
  BY LInvInit, LInvStep, LInvClaims, PTL DEF Spec

LEMMA LInvTokens == LInv => TokensAccounted
  BY DEF LInv, Ledger, TokensAccounted, Student, School, Unsold

\* A module's vault holds its allocations and the tokens out for delivery, and
\* its student allocation is its unclaimed bookings, whatever the order of sales,
\* bookings, claims, returns, settlements and burns.
THEOREM TokensTheorem == Spec => []TokensAccounted
  BY LInvInit, LInvStep, LInvTokens, PTL DEF Spec
-----------------------------------------------------------------------------
(* What a booking was sold with, and what a sponsorship pays for, never      *)
(* changes                                                                   *)

SaleKept(b) == bookings'[b] # None =>
  /\ bookings[b] # None
  /\ bookings'[b].module = bookings[b].module
  /\ bookings'[b].sponsorship = bookings[b].sponsorship
  /\ bookings'[b].asset = bookings[b].asset
  /\ bookings'[b].school = bookings[b].school
  /\ bookings'[b].deposit = bookings[b].deposit
  /\ bookings'[b].price_per_token = bookings[b].price_per_token

OfferKept(s) == sponsorships'[s] # None =>
  /\ sponsorships[s] # None
  /\ sponsorships'[s].module = sponsorships[s].module
  /\ sponsorships'[s].asset = sponsorships[s].asset
  /\ sponsorships'[s].price_per_token = sponsorships[s].price_per_token

\* A claim, its release, a score, a dispute, its resolution and the settlement
\* change one booking in place.
InPlace == \A b \in BookingIds : SaleKept(b) /\ (bookings[b] # None => bookings'[b] # None)

Changes(u, b) ==
  \/ ClaimBooking(u, b) \/ CancelClaim(u, b)
  \/ \E score \in Scores : SubmitImpactScore(u, b, score) \/ DisputeScore(u, b, score)
  \/ \E accept \in BOOLEAN : ResolveDispute(u, b, accept)
  \/ FinalizeScore(u, b)

LEMMA ChangesInPlace ==
  ASSUME TypeOK, TypeOK', NEW u \in Users, NEW b \in BookingIds, Changes(u, b)
  PROVE  InPlace
  <1>3. ASSUME SaleKept(b), bookings'[b] # None,
               \A i \in BookingIds \ {b} : bookings'[i] = bookings[i]
        PROVE  InPlace
    BY <1>3 DEF SaleKept, InPlace
  <1>4. ASSUME ClaimBooking(u, b) \/ CancelClaim(u, b)
        PROVE  InPlace
    <2>1. bookings[b] # None /\ bookings[b] \in Booking
      BY <1>4 DEF TypeOK, ClaimBooking, CancelClaim
    <2>2. PICK l \in Users \cup {None} : bookings' = [bookings EXCEPT ![b].lecturer = l]
      BY <1>4 DEF ClaimBooking, CancelClaim
    <2>3. /\ bookings'[b] = [bookings[b] EXCEPT !.lecturer = l] /\ bookings'[b] # None
          /\ \A i \in BookingIds \ {b} : bookings'[i] = bookings[i]
      BY <2>1, <2>2, LecturerSet
    <2>4. SaleKept(b)
      BY <2>1, <2>3 DEF SaleKept, Booking
    <2> QED BY <1>3, <2>3, <2>4
  <1>5. ASSUME NEW score \in Scores,
               SubmitImpactScore(u, b, score)
        PROVE  InPlace
    <2>1. /\ bookings[b] \in Booking /\ bookings'[b] \in Booking
          /\ bookings'[b] = [bookings[b] EXCEPT !.score = score, !.score_at = now]
          /\ \A i \in BookingIds \ {b} : bookings'[i] = bookings[i]
      BY <1>5, SubmitMoves, Zenon
    <2>2. bookings[b] # None
      BY <1>5 DEF SubmitImpactScore
    <2>3. SaleKept(b)
      BY <2>1, <2>2 DEF SaleKept, Booking
    <2> QED BY <1>3, <2>1, <2>3, NoneAssumption
  <1>6. ASSUME NEW score \in Scores,
               DisputeScore(u, b, score)
        PROVE  InPlace
    <2>1. /\ bookings[b] \in Booking /\ bookings'[b] \in Booking
          /\ bookings'[b] = [bookings[b] EXCEPT !.disputer = u, !.proposed_score = score]
          /\ \A i \in BookingIds \ {b} : bookings'[i] = bookings[i]
      BY <1>6, DisputeMoves, Zenon
    <2>2. bookings[b] # None
      BY <1>6 DEF DisputeScore
    <2>3. SaleKept(b)
      BY <2>1, <2>2 DEF SaleKept, Booking
    <2> QED BY <1>3, <2>1, <2>3, NoneAssumption
  <1>7. ASSUME NEW accept \in BOOLEAN,
               ResolveDispute(u, b, accept)
        PROVE  InPlace
    <2>1. /\ bookings[b] \in Booking /\ bookings'[b] \in Booking
          /\ \E x \in {bookings[b].score, bookings[b].proposed_score} :
               bookings'[b] = [bookings[b] EXCEPT !.score = x, !.proposed_score = None]
          /\ \A i \in BookingIds \ {b} : bookings'[i] = bookings[i]
      BY <1>7, ResolveMoves, Zenon
    <2>2. bookings[b] # None
      BY <1>7 DEF ResolveDispute
    <2>3. PICK x : bookings'[b] = [bookings[b] EXCEPT !.score = x, !.proposed_score = None]
      BY <2>1, Zenon
    <2>4. SaleKept(b)
      BY <2>1, <2>2, <2>3 DEF SaleKept, Booking
    <2> QED BY <1>3, <2>1, <2>4, NoneAssumption
  <1>8. ASSUME FinalizeScore(u, b) PROVE InPlace
    <2>1. /\ bookings[b] \in Booking /\ bookings[b] # None /\ bookings'[b] \in Booking
          /\ bookings'[b] = [bookings[b] EXCEPT !.proposed_score = None, !.settled = TRUE]
          /\ \A i \in BookingIds \ {b} : bookings'[i] = bookings[i]
      BY <1>8, FinalizeScoreMoves, Zenon
    <2>3. SaleKept(b)
      BY <2>1 DEF SaleKept, Booking
    <2> QED BY <1>3, <2>1, <2>3, NoneAssumption
  <1> QED BY <1>4, <1>5, <1>6, <1>7, <1>8 DEF Changes

LEMMA SalesKept ==
  ASSUME TypeOK, TypeOK', [Next]_vars
  PROVE  \/ \E u \in Users, s \in SponsorIds :
              \E t \in now..(now + config.max_delivery_window) : BookModule(u, s, t)
         \/ \A b \in BookingIds : SaleKept(b)
  <1> DEFINE Kept == \A b \in BookingIds : SaleKept(b)
             Books == \E u \in Users, s \in SponsorIds :
                        \E t \in now..(now + config.max_delivery_window) : BookModule(u, s, t)
  <1>1. ASSUME UNCHANGED bookings PROVE Kept
    BY <1>1 DEF SaleKept
  <1>2. ASSUME NEW b \in BookingIds, bookings' = [bookings EXCEPT ![b] = None] PROVE Kept
    <2>1. bookings'[b] = None /\ \A i \in BookingIds \ {b} : bookings'[i] = bookings[i]
      BY <1>2 DEF TypeOK
    <2> QED BY <2>1 DEF SaleKept
  <1> HIDE DEF Kept
  <1>4. ASSUME NEW u \in Users, NEW b \in BookingIds, Changes(u, b) PROVE Kept
    BY <1>4, ChangesInPlace DEF InPlace, Kept
  <1>9. ASSUME NEW b \in BookingIds,
               \/ \E u \in Users : CancelBooking(u, b)
               \/ ExpireBooking(b) \/ FinishBooking(b)
        PROVE  Kept
    BY <1>2, <1>9 DEF CancelBooking, ExpireBooking, ReturnToken, FinishBooking
  <1>10. ASSUME NEW u \in Users,
                \/ \E n \in Amounts : CreateModule(u, n)
                \/ \E m \in ModuleIds, n \in Amounts : BurnUnsponsored(u, m, n)
                \/ \E m \in ModuleIds : RemoveModule(u, m)
                \/ \E s \in SponsorIds, n \in Amounts : ReclaimSponsorship(u, s, n)
                \/ \E s \in SponsorIds : CloseSponsorship(u, s)
                \/ RegisterDeliverer(u) \/ UnregisterDeliverer(u)
         PROVE  Kept
    BY <1>1, <1>10
       DEF CreateModule, BurnUnsponsored, RemoveModule, ReclaimSponsorship,
           CloseSponsorship, RegisterDeliverer, UnregisterDeliverer, bookingVars
  <1>14. ASSUME NEW u \in Users, NEW m \in ModuleIds, NEW a \in Assets, NEW n \in Amounts,
                SponsorModule(u, m, a, n)
         PROVE  Kept
    BY <1>1, <1>14 DEF SponsorModule, bookingVars
  <1>11. ASSUME NEW u \in Users,
                \/ \E b \in BookingIds, kind \in Kinds, r \in Recipients :
                     MintCredential(u, b, kind, r)
                \/ \E c \in cancellations : ClearOldCancellation(u, c)
                \/ \E r \in RoleNames : ChangeRole(u, r)
         PROVE  Kept
    BY <1>1, <1>11 DEF MintCredential, ClearOldCancellation, ChangeRole, bookingVars
  <1>12. ASSUME \/ \E b \in BookingIds : StrayToBookingEscrow(b)
                \/ \E s \in SponsorIds : StrayToSponsorEscrow(s)
                \/ UpdateConfig \/ WithdrawTreasury \/ Tick \/ UNCHANGED vars
         PROVE  Kept
    BY <1>1, <1>12 DEF StrayToBookingEscrow, StrayToSponsorEscrow, UpdateConfig,
                       WithdrawTreasury, Tick,
                       vars, bookingVars
  <1>13. ASSUME NEW u \in Users, NEW s \in SponsorIds,
                NEW t \in now..(now + config.max_delivery_window), BookModule(u, s, t)
         PROVE  Books
    BY <1>13
  <1> HIDE DEF Books
  <1>15. Books \/ Kept
    BY <1>4, <1>9, <1>10, <1>11, <1>12, <1>13, <1>14 DEF Next, Changes
  <1> QED BY <1>15 DEF Kept, Books

LEMMA OffersKept ==
  ASSUME TypeOK, TypeOK', [Next]_vars
  PROVE  \/ \E u \in Users, m \in ModuleIds, a \in Assets, n \in Amounts :
              SponsorModule(u, m, a, n)
         \/ \A s \in SponsorIds : OfferKept(s)
  <1> DEFINE Kept == \A s \in SponsorIds : OfferKept(s)
             Sponsors == \E u \in Users, m \in ModuleIds, a \in Assets, n \in Amounts :
                           SponsorModule(u, m, a, n)
  <1>1. ASSUME UNCHANGED sponsorships PROVE Kept
    BY <1>1 DEF OfferKept
  <1>2. ASSUME NEW s, NEW d, NEW e, SponsorshipMoves(s, d, e) PROVE Kept
    <2>1. sponsorships[s] # None /\ OfferKept(s)
      BY <1>2, NoneAssumption DEF SponsorshipMoves, OfferKept
    <2> QED BY <1>2, <2>1 DEF SponsorshipMoves, OfferKept
  <1>3. ASSUME NEW u \in Users, NEW s \in SponsorIds, NEW n \in Amounts,
               ReclaimSponsorship(u, s, n)
        PROVE  Kept
    BY <1>2, <1>3, ReclaimMoves
  <1>4. ASSUME NEW u \in Users, NEW s \in SponsorIds,
               NEW t \in now..(now + config.max_delivery_window), BookModule(u, s, t)
        PROVE  Kept
    BY <1>2, <1>4, BookModuleMoves
  <1>5. ASSUME NEW b \in BookingIds,
               \/ \E u \in Users : CancelBooking(u, b)
               \/ ExpireBooking(b)
        PROVE  Kept
    BY <1>2, <1>5, ReturnTokenMoves DEF CancelBooking, MayCancelBooking, ExpireBooking, MayExpireBooking
  <1>6. ASSUME NEW b \in BookingIds, FinishBooking(b) PROVE Kept
    BY <1>2, <1>6, FinishBookingMoves
  <1>7. ASSUME NEW u \in Users, NEW s \in SponsorIds, CloseSponsorship(u, s) PROVE Kept
    <2>1. sponsorships'[s] = None /\ \A i \in SponsorIds \ {s} : sponsorships'[i] = sponsorships[i]
      BY <1>7 DEF CloseSponsorship, TypeOK
    <2> QED BY <2>1 DEF OfferKept
  <1>8. ASSUME NEW u \in Users,
               \/ \E n \in Amounts : CreateModule(u, n)
               \/ \E m \in ModuleIds : \/ \E n \in Amounts : BurnUnsponsored(u, m, n)
                                       \/ RemoveModule(u, m)
               \/ RegisterDeliverer(u) \/ UnregisterDeliverer(u)
        PROVE  Kept
    BY <1>1, <1>8 DEF CreateModule, BurnUnsponsored, RemoveModule, RegisterDeliverer,
                      UnregisterDeliverer, sponsorVars
  <1>9. ASSUME NEW u \in Users, NEW b \in BookingIds,
               \/ ClaimBooking(u, b) \/ CancelClaim(u, b)
               \/ \E score \in Scores : SubmitImpactScore(u, b, score)
                                        \/ DisputeScore(u, b, score)
               \/ \E accept \in BOOLEAN : ResolveDispute(u, b, accept)
               \/ FinalizeScore(u, b)
               \/ \E kind \in Kinds, r \in Recipients : MintCredential(u, b, kind, r)
        PROVE  Kept
    BY <1>1, <1>9 DEF ClaimBooking, CancelClaim, SubmitImpactScore, DisputeScore,
                      ResolveDispute, FinalizeScore, MintCredential, sponsorVars
  <1>10. ASSUME NEW u \in Users,
                \/ \E c \in cancellations : ClearOldCancellation(u, c)
                \/ \E r \in RoleNames : ChangeRole(u, r)
         PROVE  Kept
    BY <1>1, <1>10 DEF ClearOldCancellation, ChangeRole, sponsorVars
  <1>11. ASSUME \/ \E b \in BookingIds : StrayToBookingEscrow(b)
                \/ \E s \in SponsorIds : StrayToSponsorEscrow(s)
                \/ UpdateConfig \/ WithdrawTreasury \/ Tick \/ UNCHANGED vars
         PROVE  Kept
    BY <1>1, <1>11 DEF StrayToBookingEscrow, StrayToSponsorEscrow, UpdateConfig,
                       WithdrawTreasury, Tick,
                       vars, sponsorVars
  <1>12. ASSUME NEW u \in Users, NEW m \in ModuleIds, NEW a \in Assets, NEW n \in Amounts,
                SponsorModule(u, m, a, n)
         PROVE  Sponsors
    BY <1>12
  <1> HIDE DEF Kept, Sponsors
  <1>13. Sponsors \/ Kept
    BY <1>3, <1>4, <1>5, <1>6, <1>7, <1>8, <1>9, <1>10, <1>11, <1>12 DEF Next
  <1> QED BY <1>13 DEF Kept, Sponsors
-----------------------------------------------------------------------------
\* A booking and its sponsorship, while that is open, agree on what was sold.
SameSaleAt(b) ==
  LET k == bookings[b]
      p == sponsorships[k.sponsorship]
  IN  k # None /\ p # None => p.module = k.module /\ p.asset = k.asset

SameSale == \A b \in BookingIds : SameSaleAt(b)

LEMMA SameSaleStep ==
  ASSUME Base, Base', SameSale, [Next]_vars
  PROVE  SameSale'
  <1>0. TypeOK /\ TypeOK' /\ SamePrice
    BY DEF Base, EInv
  <1>1. ASSUME NEW u \in Users, NEW s \in SponsorIds,
               NEW t \in now..(now + config.max_delivery_window), BookModule(u, s, t)
        PROVE  SameSale'
    <2>1. PICK p \in Sponsorship : p = sponsorships[s]
      BY <1>0, <1>1 DEF TypeOK, BookModule
    <2>2. SponsorshipMoves(s, 0 - 1, 1)
      BY <1>0, <1>1, BookModuleMoves
    <2>3. PICK b \in BookingIds : b = next_id.booking
      BY <1>0, <1>1, BoundsAssumption DEF TypeOK, BookModule, BookingIds
    <2>4. /\ bookings'[b].sponsorship = s /\ bookings'[b].module = p.module
          /\ bookings'[b].asset = p.asset
          /\ \A i \in BookingIds \ {b} : bookings'[i] = bookings[i]
      <3>1. bookings' = [bookings EXCEPT ![b] =
              [module |-> p.module, sponsorship |-> s, school |-> u, lecturer |-> None,
               asset |-> p.asset, price_per_token |-> p.price_per_token,
               score |-> None, score_at |-> None, settled |-> FALSE,
               disputer |-> None, proposed_score |-> None,
               deposit |-> config.booking_deposit, delivery_at |-> t]]
        BY <1>1, <2>1, <2>3 DEF BookModule
      <3> QED BY <1>0, <3>1 DEF TypeOK
    <2>5. SameSaleAt(b)'
      BY <2>1, <2>2, <2>4 DEF SameSaleAt, SponsorshipMoves
    <2>6. ASSUME NEW i \in BookingIds, i # b PROVE SameSaleAt(i)'
      <3> SUFFICES ASSUME bookings[i] # None PROVE SameSaleAt(i)'
        BY <2>4, <2>6 DEF SameSaleAt
      <3>1. bookings[i].sponsorship \in SponsorIds /\ bookings'[i] = bookings[i]
        BY <1>0, <2>4, <2>6 DEF TypeOK, Booking
      <3>2. SameSaleAt(i) /\ sponsorships[s] # None
        BY <2>1, NoneAssumption DEF SameSale
      <3> QED BY <2>2, <3>1, <3>2 DEF SameSaleAt, SponsorshipMoves
    <2> QED BY <2>5, <2>6 DEF SameSale
  <1>2. ASSUME NEW u \in Users, NEW m \in ModuleIds, NEW a \in Assets, NEW n \in Amounts,
               SponsorModule(u, m, a, n)
        PROVE  SameSale'
    <2>1. \A i \in SponsorIds \ {next_id.sponsor} : sponsorships'[i] = sponsorships[i]
      BY <1>0, <1>2 DEF SponsorModule, TypeOK
    <2>2. UNCHANGED bookings /\ next_id.sponsor \in Nat
      BY <1>0, <1>2 DEF SponsorModule, bookingVars, TypeOK
    <2>3. ASSUME NEW i \in BookingIds, bookings[i] # None PROVE SameSaleAt(i)'
      <3>1. bookings[i].sponsorship \in SponsorIds \ {next_id.sponsor}
        <4>1. SamePriceAt(i) /\ bookings[i].sponsorship \in SponsorIds
          BY <1>0, <2>3 DEF TypeOK, Booking, SamePrice
        <4>2. bookings[i].sponsorship < next_id.sponsor
          BY <2>3, <4>1 DEF SamePriceAt
        <4> QED BY <2>2, <4>1, <4>2
      <3> QED BY <2>1, <2>2, <3>1 DEF SameSale, SameSaleAt
    <2> QED BY <2>2, <2>3 DEF SameSale, SameSaleAt
  <1>3. ASSUME \A b \in BookingIds : SaleKept(b), \A s \in SponsorIds : OfferKept(s)
        PROVE  SameSale'
    <2> SUFFICES ASSUME NEW i \in BookingIds, bookings'[i] # None PROVE SameSaleAt(i)'
      BY DEF SameSale, SameSaleAt
    <2>1. SaleKept(i) /\ SameSaleAt(i)
      BY <1>3 DEF SameSale
    <2>2. bookings[i] # None /\ bookings[i].sponsorship \in SponsorIds
      BY <1>0, <2>1 DEF TypeOK, Booking, SaleKept
    <2>3. OfferKept(bookings[i].sponsorship)
      BY <1>3, <2>2
    <2> QED BY <2>1, <2>2, <2>3 DEF SameSaleAt, SaleKept, OfferKept
  <1> QED BY <1>0, <1>1, <1>2, <1>3, SalesKept, OffersKept

BInv == LInv /\ SameSale

LEMMA BInvInit == Init => BInv
  BY LInvInit DEF BInv, SameSale, SameSaleAt, Init

LEMMA BInvStep == BInv /\ [Next]_vars => BInv'
  BY LInvStep, SameSaleStep DEF BInv, LInv

LEMMA BInvBacked == BInv => BookingsBacked
  <1> SUFFICES ASSUME BInv PROVE BookingsBacked
    OBVIOUS
  <1>0. TypeOK /\ Ledger /\ Shapes /\ SamePrice /\ SameSale
    BY DEF BInv, LInv, Base, EInv
  <1>1. ASSUME NEW b \in LiveBookings
        PROVE  LET k == bookings[b]
                   p == sponsorships[k.sponsorship]
               IN  /\ p # None
                   /\ p.module = k.module /\ p.asset = k.asset
                   /\ p.price_per_token = k.price_per_token
                   /\ k.settled => k.lecturer # None /\ k.score # None
                   /\ k.score # None => k.lecturer # None
                   /\ ~k.settled => modules[k.module] # None
    <2>1. b \in BookingIds /\ bookings[b] # None
      BY DEF LiveBookings
    <2>2. PICK k \in Booking : k = bookings[b]
      BY <1>0, <2>1 DEF TypeOK
    <2>3. PICK s \in SponsorIds : s = k.sponsorship
      BY <2>2 DEF Booking
    <2>4. PICK m \in ModuleIds : m = k.module
      BY <2>2 DEF Booking
    <2>5. ASSUME NEW T \in SUBSET BookingIds, b \in T PROVE Cardinality(T) \in Nat \ {0}
      <3>1. IsFiniteSet(T) /\ Cardinality(T) \in Nat
        BY BookingsFinite
      <3>2. Cardinality(T) # 0
        BY <2>5, <3>1, FS_EmptySet
      <3> QED BY <3>1, <3>2
    <2>6. sponsorships[s] # None
      <3>1. b \in BookingsOf(s) /\ BookingsOf(s) \in SUBSET BookingIds
        BY <2>1, <2>2, <2>3 DEF BookingsOf, LiveBookings
      <3>2. Active(s) # 0
        BY <1>0, <2>5, <3>1 DEF Ledger
      <3> QED BY <3>2 DEF Active
    <2>7. ASSUME ~k.settled PROVE modules[m] # None
      <3>1. /\ Unclaimed(m) \in SUBSET BookingIds /\ InDelivery(m) \in SUBSET BookingIds
            /\ b \in Unclaimed(m) \/ b \in InDelivery(m)
        BY <2>1, <2>2, <2>4, <2>7 DEF Unclaimed, InDelivery, LiveBookings
      <3>2. Student(m) = Cardinality(Unclaimed(m)) /\ (modules[m] = None => module_vault[m] = 0)
            /\ module_vault[m] = Unsold(m) + School(m) + Student(m) + Cardinality(InDelivery(m))
        BY <1>0 DEF Ledger
      <3>3. Cardinality(Unclaimed(m)) \in Nat /\ Cardinality(InDelivery(m)) \in Nat
        BY <3>1, BookingsFinite
      <3>4. CASE modules[m] = None
        <4>1. Unsold(m) = 0 /\ School(m) = 0 /\ Student(m) = 0
          BY <3>4 DEF Unsold, School, Student
        <4>2. Cardinality(Unclaimed(m)) = 0 /\ Cardinality(InDelivery(m)) = 0
          BY <3>2, <3>3, <3>4, <4>1
        <4> QED BY <2>5, <3>1, <4>2
      <3> QED BY <3>4
    <2>8. Shape(k)
      BY <1>0, <2>1, <2>2 DEF Shapes
    <2>9. SameSaleAt(b) /\ SamePriceAt(b)
      BY <1>0, <2>1 DEF SameSale, SamePrice
    <2> QED BY <2>1, <2>2, <2>3, <2>4, <2>6, <2>7, <2>8, <2>9
            DEF Shape, SameSaleAt, SamePriceAt
  <1>2. \A s \in SponsorIds : sponsorships[s] # None =>
          sponsorships[s].active_bookings = Cardinality(BookingsOf(s))
    BY <1>0 DEF Ledger, Active
  <1> QED BY <1>1, <1>2 DEF BookingsBacked

\* No order of sponsoring, reclaiming, booking, claiming, cancelling, expiring,
\* finishing and closing leaves a live booking without an open sponsorship on
\* the same module at the same price, or an unsettled one without its module.
THEOREM BackedTheorem == Spec => []BookingsBacked
  BY BInvInit, BInvStep, BInvBacked, PTL DEF Spec
-----------------------------------------------------------------------------
(* What sponsorships still offer of a module                                 *)

Funded == \A m \in ModuleIds : School(m) = SumFunction(Offers(m))

OffersTyped ==
  /\ IsFiniteSet(SponsorIds)
  /\ \A m \in ModuleIds :
       /\ Offers(m) \in [SponsorIds -> Nat]
       /\ SumFunction(Offers(m)) = SumFunctionOnSet(Offers(m), SponsorIds)
       /\ SumFunction(Offers(m)) \in Nat

LEMMA OffersNat == TypeOK => OffersTyped
  <1> SUFFICES ASSUME TypeOK PROVE OffersTyped
    OBVIOUS
  <1>1. IsFiniteSet(SponsorIds)
    BY BoundsAssumption, FS_Interval DEF SponsorIds
  <1>2. ASSUME NEW m \in ModuleIds
        PROVE  /\ Offers(m) \in [SponsorIds -> Nat]
               /\ SumFunction(Offers(m)) = SumFunctionOnSet(Offers(m), SponsorIds)
               /\ SumFunction(Offers(m)) \in Nat
    <2>1. Offers(m) \in [SponsorIds -> Nat]
      BY DEF TypeOK, Sponsorship, Offers
    <2>2. DOMAIN Offers(m) = SponsorIds
      BY DEF Offers
    <2>3. SumFunction(Offers(m)) = SumFunctionOnSet(Offers(m), SponsorIds)
      BY <2>2 DEF SumFunction
    <2> QED BY <1>1, <2>1, <2>3, SumNat
  <1> QED BY <1>1, <1>2 DEF OffersTyped

\* One sponsorship changes what it offers, and the allocation of the module it is
\* on changes by as much.
LEMMA FundedMove ==
  ASSUME TypeOK, TypeOK', Funded, NEW s \in SponsorIds, NEW m \in ModuleIds, NEW d \in Int,
         \A i \in SponsorIds \ {s} : sponsorships'[i] = sponsorships[i],
         Offers(m)'[s] = Offers(m)[s] + d, School(m)' = School(m) + d,
         \A i \in ModuleIds \ {m} : Offers(i)'[s] = Offers(i)[s] /\ School(i)' = School(i)
  PROVE  Funded'
  <1> SUFFICES ASSUME NEW i \in ModuleIds PROVE School(i)' = SumFunction(Offers(i))'
    BY DEF Funded
  <1>1. /\ IsFiniteSet(SponsorIds) /\ Offers(i) \in [SponsorIds -> Nat]
        /\ SumFunction(Offers(i)) = SumFunctionOnSet(Offers(i), SponsorIds)
        /\ SumFunction(Offers(i)) \in Nat
    BY OffersNat DEF OffersTyped
  <1>2. /\ Offers(i)' \in [SponsorIds -> Nat]
        /\ SumFunction(Offers(i))' = SumFunctionOnSet(Offers(i)', SponsorIds)
        /\ SumFunction(Offers(i))' \in Nat
    <2>1. OffersTyped'
      BY OffersNat, PTL
    <2> QED BY <2>1 DEF OffersTyped
  <1>3. \A j \in SponsorIds \ {s} : Offers(i)'[j] = Offers(i)[j]
    BY DEF Offers
  <1>4. SumFunction(Offers(i))' = SumFunction(Offers(i)) - Offers(i)[s] + Offers(i)'[s]
    BY <1>1, <1>2, <1>3, SumChange
  <1>5. School(i) = SumFunction(Offers(i)) /\ Offers(i)[s] \in Nat
    BY <1>1 DEF Funded
  <1> QED BY <1>1, <1>4, <1>5

LEMMA FundedKept ==
  ASSUME Funded, UNCHANGED sponsorships, \A m \in ModuleIds : School(m)' = School(m)
  PROVE  Funded'
  <1>1. \A m \in ModuleIds : Offers(m)' = Offers(m)
    BY DEF Offers
  <1> QED BY <1>1 DEF Funded

\* A sponsorship and its module move together.
LEMMA BothMoveFunded ==
  ASSUME TypeOK, TypeOK', Funded, NEW s \in SponsorIds, NEW m \in ModuleIds,
         NEW d \in Int, NEW e \in Int, NEW a \in Int, NEW c \in Int,
         sponsorships[s].module = m, SponsorshipMoves(s, d, e), ModuleMoves(m, a, d, c)
  PROVE  Funded'
  <1>1. /\ sponsorships[s] # None /\ sponsorships'[s] # None
        /\ modules[m] # None /\ modules'[m] # None
    BY NoneAssumption DEF SponsorshipMoves, ModuleMoves
  <1>2. School(m)' = School(m) + d
    BY <1>1 DEF ModuleMoves, School
  <1>3. \A i \in ModuleIds \ {m} : School(i)' = School(i)
    BY DEF ModuleMoves, School
  <1>4. Offers(m)'[s] = Offers(m)[s] + d
    BY <1>1 DEF SponsorshipMoves, Offers
  <1>5. \A i \in ModuleIds \ {m} : Offers(i)'[s] = Offers(i)[s]
    BY <1>1 DEF SponsorshipMoves, Offers
  <1> QED BY <1>2, <1>3, <1>4, <1>5, FundedMove DEF SponsorshipMoves

\* A claim and its release move a token between a module's student allocation and
\* delivery.
LEMMA ClaimModuleMoves ==
  ASSUME TypeOK, TypeOK', NEW u \in Users, NEW b \in BookingIds,
         ClaimBooking(u, b) \/ CancelClaim(u, b)
  PROVE  \E m \in ModuleIds, c \in Int : ModuleMoves(m, 0, 0, c)
  <1>1. PICK m \in ModuleIds : m = bookings[b].module
    BY DEF TypeOK, ClaimBooking, CancelClaim, Booking
  <1>2. modules[m] # None /\ modules[m] \in Module
    BY <1>1 DEF ClaimBooking, CancelClaim, TypeOK
  <1>3. PICK c \in Nat :
          modules' = [modules EXCEPT ![m] = [modules[m] EXCEPT !.student_allocation = c]]
    <2>1. modules[m].student_allocation \in Nat
      BY <1>2 DEF Module
    <2>2. CASE ClaimBooking(u, b)
      <3>1. modules[m].student_allocation - 1 \in Nat
        BY <1>1, <2>1, <2>2 DEF ClaimBooking
      <3> QED BY <1>1, <2>2, <3>1 DEF ClaimBooking, TypeOK
    <2>3. CASE CancelClaim(u, b)
      <3>1. modules[m].student_allocation + 1 \in Nat
        BY <2>1
      <3> QED BY <1>1, <2>3, <3>1 DEF CancelClaim, TypeOK
    <2> QED BY <2>2, <2>3
  <1>4. /\ modules'[m] = [modules[m] EXCEPT !.student_allocation = c]
        /\ \A i \in ModuleIds \ {m} : modules'[i] = modules[i]
    BY <1>3 DEF TypeOK
  <1>5. PICK d \in Int : c = modules[m].student_allocation + d
    <2>1. modules[m].student_allocation \in Nat /\ c - modules[m].student_allocation \in Int
      BY <1>2 DEF Module
    <2> QED BY <2>1
  <1>6. ModuleMoves(m, 0, 0, d)
    BY <1>2, <1>4, <1>5 DEF ModuleMoves, Module
  <1> QED BY <1>6

LEMMA FundedStep ==
  ASSUME BInv, BInv', Funded, [Next]_vars
  PROVE  Funded'
  <1>0. TypeOK /\ TypeOK' /\ Ledger /\ Fresh /\ FreshModules /\ BookingsBacked
    BY BInvBacked DEF BInv, LInv, Base, EInv
  <1>1. ASSUME NEW u \in Users, NEW n \in Amounts, CreateModule(u, n) PROVE Funded'
    <2>1. UNCHANGED sponsorships
      BY <1>1 DEF CreateModule, sponsorVars
    <2>2. PICK m \in ModuleIds : m = next_id.module
      BY <1>0, <1>1, BoundsAssumption DEF TypeOK, CreateModule, ModuleIds
    <2>3. modules[m] = None
      BY <1>0, <2>2 DEF FreshModules, ModuleIds
    <2>4. /\ modules'[m].school_allocation = 0
          /\ \A i \in ModuleIds \ {m} : modules'[i] = modules[i]
      BY <1>0, <1>1, <2>2 DEF TypeOK, CreateModule
    <2> QED BY <2>1, <2>3, <2>4, FundedKept DEF School
  <1>2. ASSUME NEW u \in Users, NEW m \in ModuleIds, NEW a \in Assets, NEW n \in Amounts,
               SponsorModule(u, m, a, n)
        PROVE  Funded'
    <2>1. ModuleMoves(m, 0 - n, n, 0) /\ n \in Int
      BY <1>0, <1>2, SponsorModuleMoves, AmountNat
    <2>2. PICK s \in SponsorIds : s = next_id.sponsor
      BY <1>0, <1>2, BoundsAssumption DEF TypeOK, SponsorModule, SponsorIds
    <2>3. sponsorships[s] = None
      BY <1>0, <2>2 DEF Fresh, FreshSponsorship, SponsorIds
    <2>4. /\ sponsorships'[s].module = m /\ sponsorships'[s].amount = n
          /\ \A i \in SponsorIds \ {s} : sponsorships'[i] = sponsorships[i]
      <3> DEFINE r == [module |-> m, sponsor |-> u, asset |-> a, amount |-> n,
                       active_bookings |-> 0,
                       price_per_token |-> price_per_token(modules[m].terms, Decimals[a]),
                       sponsored_at |-> now]
      <3>1. sponsorships' = [sponsorships EXCEPT ![s] = r] /\ r.module = m /\ r.amount = n
        BY <1>2, <2>2 DEF SponsorModule
      <3> HIDE DEF r
      <3> QED BY <1>0, <3>1 DEF TypeOK
    <2>5. sponsorships'[s] # None
      <3>1. sponsorships' \in [SponsorIds -> Sponsorship \cup {None}]
        BY <1>0 DEF TypeOK
      <3>2. next_id.sponsor < next_id'.sponsor /\ next_id.sponsor \in Nat
        BY <1>0, <1>2 DEF SponsorModule, TypeOK
      <3> DEFINE r == [module |-> m, sponsor |-> u, asset |-> a, amount |-> n,
                       active_bookings |-> 0,
                       price_per_token |-> price_per_token(modules[m].terms, Decimals[a]),
                       sponsored_at |-> now]
      <3>3. r \in Sponsorship
        <4>1. n \in Nat /\ now \in Nat /\ modules[m] \in Module
          BY <1>0, <1>2, AmountNat DEF TypeOK, SponsorModule
        <4>2. price_per_token(modules[m].terms, Decimals[a]) \in Nat
          BY <4>1, PriceNat DEF Module
        <4> QED BY <4>1, <4>2 DEF Sponsorship
      <3>4. sponsorships' = [sponsorships EXCEPT ![s] = r]
        BY <1>2, <2>2 DEF SponsorModule
      <3> HIDE DEF r
      <3> QED BY <1>0, <3>3, <3>4, NoneAssumption DEF TypeOK
    <2>6. School(m)' = School(m) + n /\ \A i \in ModuleIds \ {m} : School(i)' = School(i)
      BY <2>1, NoneAssumption DEF ModuleMoves, School
    <2>7. /\ Offers(m)'[s] = n /\ Offers(m)[s] = 0
          /\ \A i \in ModuleIds \ {m} : Offers(i)'[s] = 0 /\ Offers(i)[s] = 0
      BY <2>3, <2>4, <2>5 DEF Offers
    <2>8. Offers(m)'[s] = Offers(m)[s] + n
      BY <2>1, <2>7
    <2> QED BY <1>0, <2>1, <2>4, <2>6, <2>7, <2>8, FundedMove
  <1>3. ASSUME NEW u \in Users, NEW s \in SponsorIds, NEW n \in Amounts,
               ReclaimSponsorship(u, s, n)
        PROVE  Funded'
    <2>1. PICK m \in ModuleIds : m = sponsorships[s].module
      BY <1>0, <1>3, ReclaimMoves
    <2>2. /\ SponsorshipMoves(s, 0 - n, 0) /\ ModuleMoves(m, n, 0 - n, 0)
          /\ n \in Int /\ 0 - n \in Int
      BY <1>0, <1>3, <2>1, ReclaimMoves, AmountNat
    <2> QED BY <1>0, <2>1, <2>2, BothMoveFunded
  <1>4. ASSUME NEW u \in Users, NEW s \in SponsorIds,
               NEW t \in now..(now + config.max_delivery_window), BookModule(u, s, t)
        PROVE  Funded'
    <2>1. PICK m \in ModuleIds : m = sponsorships[s].module
      BY <1>0, <1>4, BookModuleMoves
    <2>2. SponsorshipMoves(s, 0 - 1, 1) /\ ModuleMoves(m, 0, 0 - 1, 1)
      BY <1>0, <1>4, <2>1, BookModuleMoves
    <2> QED BY <1>0, <2>1, <2>2, BothMoveFunded
  <1>5. ASSUME NEW b \in BookingIds, bookings[b] # None, ReturnToken(b) PROVE Funded'
    <2>1. PICK k \in Booking : k = bookings[b]
      BY <1>0, <1>5 DEF TypeOK
    <2>2. PICK m \in ModuleIds : m = k.module
      BY <2>1 DEF Booking
    <2>3. PICK s \in SponsorIds : s = k.sponsorship
      BY <2>1 DEF Booking
    <2>4. PICK c \in Int : c = IF k.lecturer = None THEN 0 - 1 ELSE 0
      OBVIOUS
    <2>5. SponsorshipMoves(s, 1, 0 - 1) /\ ModuleMoves(m, 0, 1, c)
      BY <1>0, <1>5, <2>1, <2>2, <2>3, <2>4, ReturnTokenMoves
    <2>6. sponsorships[s].module = m
      BY <1>0, <1>5, <2>1, <2>2, <2>3 DEF BookingsBacked, LiveBookings
    <2> QED BY <1>0, <2>5, <2>6, BothMoveFunded
  <1>6. ASSUME NEW b \in BookingIds,
               ExpireBooking(b) \/ \E u \in Users : CancelBooking(u, b)
        PROVE  Funded'
    BY <1>5, <1>6 DEF ExpireBooking, MayExpireBooking, CancelBooking, MayCancelBooking
  <1>7. ASSUME NEW s \in SponsorIds, NEW m \in ModuleIds,
               \A i \in SponsorIds \ {s} : sponsorships'[i] = sponsorships[i],
               \A i \in ModuleIds : Offers(i)'[s] = Offers(i)[s], UNCHANGED modules
        PROVE  Funded'
    <2>1. \A i \in ModuleIds : Offers(i)[s] \in Nat /\ School(i) \in Nat
      BY <1>0, OffersNat, CountersNat DEF OffersTyped, CountersTyped
    <2>2. \A i \in ModuleIds : School(i)' = School(i)
      BY <1>7 DEF School
    <2>3. Offers(m)'[s] = Offers(m)[s] + 0 /\ School(m)' = School(m) + 0
      BY <1>7, <2>1, <2>2
    <2> QED BY <1>0, <1>7, <2>2, <2>3, FundedMove
  <1>8. ASSUME NEW b \in BookingIds, FinishBooking(b) PROVE Funded'
    <2>1. PICK k \in Booking : k = bookings[b]
      BY <1>0, <1>8 DEF TypeOK, FinishBooking, MayFinishBooking
    <2>2. PICK m \in ModuleIds : m = k.module
      BY <2>1 DEF Booking
    <2>3. PICK s \in SponsorIds : s = k.sponsorship
      BY <2>1 DEF Booking
    <2>4. SponsorshipMoves(s, 0, 0 - 1) /\ UNCHANGED modules
      BY <1>0, <1>8, <2>1, <2>3, FinishBookingMoves DEF FinishBooking, moduleVars
    <2>5. \A i \in ModuleIds : Offers(i)'[s] = Offers(i)[s]
      BY <2>4, NoneAssumption DEF SponsorshipMoves, Offers, Sponsorship
    <2> QED BY <1>7, <2>2, <2>4, <2>5 DEF SponsorshipMoves
  <1>9. ASSUME NEW u \in Users, NEW s \in SponsorIds, CloseSponsorship(u, s) PROVE Funded'
    <2>1. /\ sponsorships[s] # None /\ sponsorships[s].amount = 0 /\ sponsorships'[s] = None
          /\ \A i \in SponsorIds \ {s} : sponsorships'[i] = sponsorships[i]
          /\ UNCHANGED modules
      BY <1>0, <1>9 DEF CloseSponsorship, SponsorshipSpent, TypeOK, moduleVars
    <2>2. \A i \in ModuleIds : Offers(i)'[s] = Offers(i)[s]
      BY <2>1 DEF Offers
    <2>3. sponsorships[s].module \in ModuleIds
      BY <1>0, <2>1 DEF TypeOK, Sponsorship
    <2> QED BY <1>7, <2>1, <2>2, <2>3
  <1>10. ASSUME NEW u \in Users, NEW m \in ModuleIds, NEW n \in Amounts,
                BurnUnsponsored(u, m, n)
         PROVE  Funded'
    <2>1. ModuleMoves(m, 0 - n, 0, 0) /\ UNCHANGED sponsorships
      BY <1>0, <1>10, BurnMoves DEF BurnUnsponsored, sponsorVars
    <2>2. \A i \in ModuleIds : School(i)' = School(i)
      BY <2>1, NoneAssumption DEF ModuleMoves, School, Module
    <2> QED BY <2>1, <2>2, FundedKept
  <1>11. ASSUME NEW u \in Users, NEW m \in ModuleIds, RemoveModule(u, m) PROVE Funded'
    <2>1. /\ module_vault[m] = 0 /\ UNCHANGED sponsorships /\ modules'[m] = None
          /\ \A i \in ModuleIds \ {m} : modules'[i] = modules[i]
      BY <1>0, <1>11 DEF RemoveModule, FullyBurned, sponsorVars, TypeOK
    <2>2. School(m) = 0
      <3>1. /\ Unsold(m) \in Nat /\ School(m) \in Nat /\ Student(m) \in Nat
            /\ Cardinality(InDelivery(m)) \in Nat
        BY <1>0, CountersNat, BookingsFinite DEF CountersTyped, InDelivery, LiveBookings
      <3>2. 0 = Unsold(m) + School(m) + Student(m) + Cardinality(InDelivery(m))
        BY <1>0, <2>1 DEF Ledger
      <3> QED BY <3>1, <3>2
    <2> QED BY <2>1, <2>2, FundedKept DEF School
  <1>12. ASSUME NEW u \in Users, NEW b \in BookingIds, ClaimBooking(u, b) \/ CancelClaim(u, b)
         PROVE  Funded'
    <2>1. PICK m \in ModuleIds, c \in Int : ModuleMoves(m, 0, 0, c)
      BY <1>0, <1>12, ClaimModuleMoves
    <2>2. \A i \in ModuleIds : School(i)' = School(i)
      BY <2>1, NoneAssumption DEF ModuleMoves, School, Module
    <2>3. UNCHANGED sponsorships
      BY <1>12 DEF ClaimBooking, CancelClaim, sponsorVars
    <2> QED BY <2>2, <2>3, FundedKept
  <1>13. ASSUME UNCHANGED <<modules, sponsorships>> PROVE Funded'
    BY <1>13, FundedKept DEF School
  <1>14. ASSUME NEW u \in Users, NEW b \in BookingIds,
                \/ \E score \in Scores : SubmitImpactScore(u, b, score)
                                         \/ DisputeScore(u, b, score)
                \/ \E accept \in BOOLEAN : ResolveDispute(u, b, accept)
                \/ FinalizeScore(u, b)
                \/ \E kind \in Kinds, r \in Recipients : MintCredential(u, b, kind, r)
         PROVE  Funded'
    BY <1>13, <1>14 DEF SubmitImpactScore, DisputeScore, ResolveDispute, FinalizeScore,
                        MintCredential, moduleVars, sponsorVars
  <1>15. ASSUME NEW u \in Users,
                \/ RegisterDeliverer(u) \/ UnregisterDeliverer(u)
                \/ \E c \in cancellations : ClearOldCancellation(u, c)
                \/ \E r \in RoleNames : ChangeRole(u, r)
         PROVE  Funded'
    BY <1>13, <1>15 DEF RegisterDeliverer, UnregisterDeliverer, ClearOldCancellation,
                        ChangeRole, moduleVars, sponsorVars
  <1>16. ASSUME \/ \E b \in BookingIds : StrayToBookingEscrow(b)
                \/ \E s \in SponsorIds : StrayToSponsorEscrow(s)
                \/ UpdateConfig \/ WithdrawTreasury \/ Tick \/ UNCHANGED vars
         PROVE  Funded'
    BY <1>13, <1>16 DEF StrayToBookingEscrow, StrayToSponsorEscrow, UpdateConfig,
                        WithdrawTreasury, Tick,
                        vars, moduleVars, sponsorVars
  <1> QED BY <1>1, <1>2, <1>3, <1>4, <1>6, <1>8, <1>9, <1>10, <1>11, <1>12, <1>14, <1>15,
             <1>16 DEF Next

LEMMA FundedInit == Init => Funded
  <1> SUFFICES ASSUME Init, NEW m \in ModuleIds PROVE School(m) = SumFunction(Offers(m))
    BY DEF Funded
  <1>1. TypeOK
    BY InitOK
  <1>2. \A s \in SponsorIds : Offers(m)[s] = 0
    BY DEF Init, Offers
  <1>3. SumFunction(Offers(m)) = 0
    BY <1>1, <1>2, OffersNat, SumZero DEF OffersTyped
  <1> QED BY <1>3 DEF Init, School

\* A module's school allocation is what its open sponsorships still offer: a
\* school can book while the module has tokens for schools, and no sponsor is
\* refunded a token that a booking already took.
THEOREM FundedTheorem == Spec => []SchoolAllocationFunded
  <1>1. Init => BInv /\ Funded
    BY BInvInit, FundedInit
  <1>2. BInv /\ Funded /\ [Next]_vars => BInv' /\ Funded'
    BY BInvStep, FundedStep
  <1>3. Funded => SchoolAllocationFunded
    BY DEF Funded, SchoolAllocationFunded, School
  <1> QED BY <1>1, <1>2, <1>3, PTL DEF Spec
-----------------------------------------------------------------------------
(* The XCAV vault *)

ModuleDeposits    == SumFunction(Deposits(modules))
BookingDeposits   == SumFunction(Deposits(bookings))
DelivererDeposits == SumFunction(Deposits(deliverers))

DepositsTyped ==
  /\ vault \in Nat
  /\ Deposits(modules) \in [ModuleIds -> Nat] /\ ModuleDeposits \in Nat
  /\ Deposits(bookings) \in [BookingIds -> Nat] /\ BookingDeposits \in Nat
  /\ Deposits(deliverers) \in [Users -> Nat] /\ DelivererDeposits \in Nat
  /\ ModuleDeposits = SumFunctionOnSet(Deposits(modules), ModuleIds)
  /\ BookingDeposits = SumFunctionOnSet(Deposits(bookings), BookingIds)
  /\ DelivererDeposits = SumFunctionOnSet(Deposits(deliverers), Users)

LEMMA IdsFinite ==
  IsFiniteSet(ModuleIds) /\ IsFiniteSet(BookingIds) /\ IsFiniteSet(Users)
  <1>1. IsFiniteSet(ModuleIds)
    BY BoundsAssumption, FS_Interval DEF ModuleIds
  <1>2. IsFiniteSet(BookingIds)
    BY BoundsAssumption, FS_Interval DEF BookingIds
  <1> QED BY <1>1, <1>2, UsersAssumption

LEMMA DepositsNat == TypeOK => DepositsTyped
  <1> SUFFICES ASSUME TypeOK PROVE DepositsTyped
    OBVIOUS
  <1>1. /\ Deposits(modules) \in [ModuleIds -> Nat]
        /\ ModuleDeposits = SumFunctionOnSet(Deposits(modules), ModuleIds)
    <2>1. DOMAIN modules = ModuleIds
      BY DEF TypeOK
    <2>2. Deposits(modules) \in [ModuleIds -> Nat]
      BY <2>1 DEF TypeOK, Deposits, Module
    <2> QED BY <2>1, <2>2 DEF ModuleDeposits, SumFunction
  <1>2. /\ Deposits(bookings) \in [BookingIds -> Nat]
        /\ BookingDeposits = SumFunctionOnSet(Deposits(bookings), BookingIds)
    <2>1. DOMAIN bookings = BookingIds
      BY DEF TypeOK
    <2>2. Deposits(bookings) \in [BookingIds -> Nat]
      BY <2>1 DEF TypeOK, Deposits, Booking
    <2> QED BY <2>1, <2>2 DEF BookingDeposits, SumFunction
  <1>3. /\ Deposits(deliverers) \in [Users -> Nat]
        /\ DelivererDeposits = SumFunctionOnSet(Deposits(deliverers), Users)
    <2>1. DOMAIN deliverers = Users
      BY DEF TypeOK
    <2>2. Deposits(deliverers) \in [Users -> Nat]
      BY <2>1 DEF TypeOK, Deposits, Deliverer
    <2> QED BY <2>1, <2>2 DEF DelivererDeposits, SumFunction
  <1>4. vault \in Nat
    BY DEF TypeOK
  <1> QED BY <1>1, <1>2, <1>3, <1>4, IdsFinite, SumNat DEF DepositsTyped

LEMMA ModuleDepositsMove ==
  ASSUME TypeOK, TypeOK', NEW m \in ModuleIds,
         \A i \in ModuleIds \ {m} : modules'[i] = modules[i]
  PROVE  ModuleDeposits' = ModuleDeposits - Deposits(modules)[m] + Deposits(modules)'[m]
  <1>1. DepositsTyped /\ DepositsTyped'
    BY DepositsNat, PTL
  <1>2. \A i \in ModuleIds \ {m} : Deposits(modules)'[i] = Deposits(modules)[i]
    BY DEF Deposits, TypeOK
  <1> QED BY <1>1, <1>2, IdsFinite, SumChange DEF DepositsTyped

LEMMA BookingDepositsMove ==
  ASSUME TypeOK, TypeOK', NEW b \in BookingIds,
         \A i \in BookingIds \ {b} : bookings'[i] = bookings[i]
  PROVE  BookingDeposits' = BookingDeposits - Deposits(bookings)[b] + Deposits(bookings)'[b]
  <1>1. DepositsTyped /\ DepositsTyped'
    BY DepositsNat, PTL
  <1>2. \A i \in BookingIds \ {b} : Deposits(bookings)'[i] = Deposits(bookings)[i]
    BY DEF Deposits, TypeOK
  <1> QED BY <1>1, <1>2, IdsFinite, SumChange DEF DepositsTyped

LEMMA DelivererDepositsMove ==
  ASSUME TypeOK, TypeOK', NEW u \in Users,
         \A i \in Users \ {u} : deliverers'[i] = deliverers[i]
  PROVE  DelivererDeposits' = DelivererDeposits - Deposits(deliverers)[u]
                                                + Deposits(deliverers)'[u]
  <1>1. DepositsTyped /\ DepositsTyped'
    BY DepositsNat, PTL
  <1>2. \A i \in Users \ {u} : Deposits(deliverers)'[i] = Deposits(deliverers)[i]
    BY DEF Deposits, TypeOK
  <1> QED BY <1>1, <1>2, IdsFinite, SumChange DEF DepositsTyped

\* Tokens and claims move no deposit.
LEMMA MovesKeepModuleDeposits ==
  ASSUME TypeOK, TypeOK', NEW m \in ModuleIds, NEW a, NEW c, NEW t, ModuleMoves(m, a, c, t)
  PROVE  ModuleDeposits' = ModuleDeposits
  <1>1. modules[m] # None /\ modules'[m] # None
    BY NoneAssumption DEF ModuleMoves
  <1>2. Deposits(modules)[m] = modules[m].deposit /\ Deposits(modules)'[m] = modules'[m].deposit
    BY <1>1 DEF TypeOK, Deposits
  <1>3. Deposits(modules)'[m] = Deposits(modules)[m]
    BY <1>2 DEF ModuleMoves
  <1>4. Deposits(modules)[m] \in Nat /\ ModuleDeposits \in Nat
    BY DepositsNat DEF DepositsTyped
  <1> QED BY <1>3, <1>4, ModuleDepositsMove DEF ModuleMoves

LEMMA InPlaceKeepsDeposits ==
  ASSUME TypeOK, TypeOK', InPlace
  PROVE  BookingDeposits' = BookingDeposits
  <1>1. \A i \in BookingIds : Deposits(bookings)'[i] = Deposits(bookings)[i]
    BY DEF TypeOK, InPlace, SaleKept, Deposits
  <1>2. DepositsTyped /\ DepositsTyped'
    BY DepositsNat, PTL
  <1>3. Deposits(bookings)' = Deposits(bookings)
    BY <1>1, <1>2 DEF DepositsTyped
  <1> QED BY <1>2, <1>3 DEF DepositsTyped

\* The deposit an account holds, 0 without an account.
LEMMA DepositOf ==
  TypeOK => /\ \A m \in ModuleIds : Deposits(modules)[m] =
                 IF modules[m] = None THEN 0 ELSE modules[m].deposit
            /\ \A b \in BookingIds : Deposits(bookings)[b] =
                 IF bookings[b] = None THEN 0 ELSE bookings[b].deposit
            /\ \A u \in Users : Deposits(deliverers)[u] =
                 IF deliverers[u] = None THEN 0 ELSE deliverers[u].deposit
  BY DEF TypeOK, Deposits

\* What the vault holds beyond the deposits of the open accounts; every
\* instruction leaves it alone, and Solvent says that there is none.
Surplus     == vault - ModuleDeposits - BookingDeposits - DelivererDeposits
SurplusKept == Surplus' = Surplus
Solvent     == Surplus = 0

LEMMA CreateModuleSolvent ==
  ASSUME LInv, LInv', NEW u \in Users, NEW n \in Amounts, CreateModule(u, n)
  PROVE  SurplusKept
  <1>0. TypeOK /\ TypeOK' /\ FreshModules /\ DepositsTyped
    BY DepositsNat DEF LInv, Base, EInv
  <1>1. PICK m \in ModuleIds : m = next_id.module
    BY <1>0, BoundsAssumption DEF TypeOK, CreateModule, ModuleIds
  <1>2. modules[m] = None
    BY <1>0, <1>1 DEF FreshModules, ModuleIds
  <1>3. PICK r : /\ r = [creator |-> u, deposit |-> config.module_deposit,
                         terms |-> config.terms, sponsor_allocation |-> n,
                         school_allocation |-> 0, student_allocation |-> 0]
    OBVIOUS
  <1>4. r # None /\ r.deposit = config.module_deposit /\ config.module_deposit \in Nat
    BY <1>0, <1>3, ConfigOK, NoneAssumption, AmountNat DEF TypeOK, Module, ConfigParams
  <1>5. modules' = [modules EXCEPT ![m] = r]
    BY <1>1, <1>3 DEF CreateModule
  <1>6. modules'[m] = r /\ \A i \in ModuleIds \ {m} : modules'[i] = modules[i]
    BY <1>0, <1>5 DEF TypeOK
  <1>7. Deposits(modules)[m] = 0 /\ Deposits(modules)'[m] = config.module_deposit
    BY <1>0, <1>2, <1>4, <1>6 DEF TypeOK, Deposits
  <1>8. ModuleDeposits' = ModuleDeposits + config.module_deposit
    BY <1>0, <1>4, <1>6, <1>7, ModuleDepositsMove DEF DepositsTyped
  <1>9. UNCHANGED <<bookings, deliverers>> /\ vault' = vault + config.module_deposit
    BY DEF CreateModule, bookingVars
  <1> QED BY <1>0, <1>4, <1>8, <1>9 DEF SurplusKept, Surplus, BookingDeposits, DelivererDeposits, DepositsTyped

LEMMA RemoveModuleSolvent ==
  ASSUME LInv, LInv', NEW u \in Users, NEW m \in ModuleIds, RemoveModule(u, m)
  PROVE  SurplusKept
  <1>0. TypeOK /\ TypeOK' /\ DepositsTyped
    BY DepositsNat DEF LInv, Base, EInv
  <1>1. /\ modules[m] # None /\ modules'[m] = None
        /\ \A i \in ModuleIds \ {m} : modules'[i] = modules[i]
    BY <1>0 DEF RemoveModule, TypeOK
  <1>2. Deposits(modules)[m] = modules[m].deposit /\ Deposits(modules)'[m] = 0
    BY <1>0, <1>1 DEF TypeOK, Deposits
  <1>3. /\ ModuleDeposits' = ModuleDeposits - modules[m].deposit
        /\ modules[m].deposit \in Nat
    BY <1>0, <1>1, <1>2, ModuleDepositsMove DEF DepositsTyped
  <1>4. UNCHANGED <<bookings, deliverers>> /\ vault' = vault - modules[m].deposit
    BY DEF RemoveModule, bookingVars
  <1> QED BY <1>0, <1>3, <1>4 DEF SurplusKept, Surplus, BookingDeposits, DelivererDeposits, DepositsTyped

LEMMA BookModuleSolvent ==
  ASSUME LInv, LInv', NEW u \in Users, NEW s \in SponsorIds,
         NEW t \in now..(now + config.max_delivery_window), BookModule(u, s, t)
  PROVE  SurplusKept
  <1>0. TypeOK /\ TypeOK' /\ Fresh /\ DepositsTyped
    BY DepositsNat DEF LInv, Base, EInv
  <1>1. PICK b \in BookingIds : b = next_id.booking
    BY <1>0, BoundsAssumption DEF TypeOK, BookModule, BookingIds
  <1>2. bookings[b] = None
    BY <1>0, <1>1 DEF Fresh, FreshBooking, BookingIds
  <1>3. /\ bookings'[b] # None /\ bookings'[b].deposit = config.booking_deposit
        /\ config.booking_deposit \in Nat
        /\ \A i \in BookingIds \ {b} : bookings'[i] = bookings[i]
    <2> DEFINE p == sponsorships[s]
               k == [module |-> p.module, sponsorship |-> s, school |-> u,
                     lecturer |-> None, asset |-> p.asset,
                     price_per_token |-> p.price_per_token,
                     score |-> None, score_at |-> None, settled |-> FALSE,
                     disputer |-> None, proposed_score |-> None,
                     deposit |-> config.booking_deposit, delivery_at |-> t]
    <2>1. bookings' = [bookings EXCEPT ![b] = k]
      BY <1>1 DEF BookModule
    <2>2. /\ k.deposit = config.booking_deposit /\ k \in Booking
          /\ config.booking_deposit \in Nat
      <3>1. config.booking_deposit \in Nat /\ t \in Nat
        BY <1>0, ConfigOK DEF TypeOK, ConfigParams
      <3>2. p \in Sponsorship
        BY <1>0 DEF TypeOK, BookModule
      <3> QED BY <3>1, <3>2 DEF Booking, Sponsorship
    <2> HIDE DEF k
    <2> QED BY <1>0, <2>1, <2>2, NoneAssumption DEF TypeOK
  <1>4. Deposits(bookings)[b] = 0 /\ Deposits(bookings)'[b] = config.booking_deposit
    BY <1>0, <1>2, <1>3 DEF TypeOK, Deposits
  <1>5. BookingDeposits' = BookingDeposits + config.booking_deposit
    BY <1>0, <1>3, <1>4, BookingDepositsMove DEF DepositsTyped
  <1>6. ModuleDeposits' = ModuleDeposits
    BY <1>0, BookModuleMoves, MovesKeepModuleDeposits
  <1>7. UNCHANGED deliverers /\ vault' = vault + config.booking_deposit
    BY DEF BookModule
  <1> QED BY <1>0, <1>3, <1>5, <1>6, <1>7 DEF SurplusKept, Surplus, DelivererDeposits, DepositsTyped

\* A booking's deposit leaves with the booking.
LEMMA BookingClosedSolvent ==
  ASSUME TypeOK, TypeOK', NEW b \in BookingIds, bookings[b] # None,
         bookings'[b] = None, \A i \in BookingIds \ {b} : bookings'[i] = bookings[i],
         ModuleDeposits' = ModuleDeposits, DelivererDeposits' = DelivererDeposits,
         vault' = vault - bookings[b].deposit
  PROVE  SurplusKept
  <1>0. DepositsTyped
    BY DepositsNat
  <1>1. Deposits(bookings)[b] = bookings[b].deposit /\ Deposits(bookings)'[b] = 0
    BY DEF TypeOK, Deposits
  <1>2. /\ BookingDeposits' = BookingDeposits - bookings[b].deposit
        /\ bookings[b].deposit \in Nat
    BY <1>0, <1>1, BookingDepositsMove DEF DepositsTyped
  <1> QED BY <1>0, <1>2 DEF SurplusKept, Surplus, DepositsTyped

\* A deliverer's record changes and its deposit does not.
LEMMA DelivererDepositKept ==
  ASSUME TypeOK, TypeOK', NEW u \in Users, deliverers[u] # None, deliverers'[u] # None,
         deliverers'[u].deposit = deliverers[u].deposit,
         \A i \in Users \ {u} : deliverers'[i] = deliverers[i]
  PROVE  DelivererDeposits' = DelivererDeposits
  <1>1. Deposits(deliverers)'[u] = Deposits(deliverers)[u]
    BY DEF TypeOK, Deposits
  <1>2. Deposits(deliverers)[u] \in Nat /\ DelivererDeposits \in Nat
    BY DepositsNat DEF DepositsTyped
  <1> QED BY <1>1, <1>2, DelivererDepositsMove

LEMMA ReturnTokenSolvent ==
  ASSUME TypeOK, TypeOK', NEW b \in BookingIds, bookings[b] # None, ReturnToken(b),
         vault' = vault - bookings[b].deposit
  PROVE  SurplusKept
  <1>1. PICK k \in Booking : k = bookings[b]
    BY DEF TypeOK
  <1>2. PICK m \in ModuleIds : m = k.module
    BY <1>1 DEF Booking
  <1>3. PICK v \in Users \cup {None} : v = k.lecturer
    BY <1>1 DEF Booking
  <1>4. /\ bookings'[b] = None /\ \A i \in BookingIds \ {b} : bookings'[i] = bookings[i]
        /\ ModuleMoves(m, 0, 1, IF v = None THEN 0 - 1 ELSE 0)
    BY <1>1, <1>2, <1>3, ReturnTokenMoves
  <1>5. ModuleDeposits' = ModuleDeposits
    BY <1>4, MovesKeepModuleDeposits
  <1>6. DelivererDeposits' = DelivererDeposits
    <2>1. CASE v = None
      <3>1. UNCHANGED deliverers
        BY <1>1, <1>3, <2>1, ReturnTokenMoves
      <3> QED BY <3>1 DEF DelivererDeposits
    <2>2. CASE v # None
      <3>1. /\ deliverers[v] \in Deliverer /\ deliverers'[v] \in Deliverer
            /\ deliverers'[v].deposit = deliverers[v].deposit
            /\ \A i \in Users \ {v} : deliverers'[i] = deliverers[i]
        BY <1>1, <1>3, <2>2, ReturnTokenMoves
      <3>2. v \in Users /\ deliverers[v] # None /\ deliverers'[v] # None
        BY <2>2, <3>1, NoneAssumption
      <3> QED BY <3>1, <3>2, DelivererDepositKept
    <2> QED BY <2>1, <2>2
  <1> QED BY <1>4, <1>5, <1>6, BookingClosedSolvent

LEMMA FinishBookingSolvent ==
  ASSUME TypeOK, TypeOK', NEW b \in BookingIds, FinishBooking(b)
  PROVE  SurplusKept
  <1>1. /\ bookings[b] # None /\ bookings'[b] = None
        /\ \A i \in BookingIds \ {b} : bookings'[i] = bookings[i]
    BY FinishBookingMoves
  <1>2. UNCHANGED <<modules, deliverers>> /\ vault' = vault - bookings[b].deposit
    BY DEF FinishBooking, moduleVars
  <1> QED BY <1>1, <1>2, BookingClosedSolvent DEF ModuleDeposits, DelivererDeposits

LEMMA ClaimSolvent ==
  ASSUME TypeOK, TypeOK', NEW u \in Users, NEW b \in BookingIds, ClaimBooking(u, b)
  PROVE  SurplusKept
  <1>1. BookingDeposits' = BookingDeposits
    BY ChangesInPlace, InPlaceKeepsDeposits DEF Changes
  <1>2. ModuleDeposits' = ModuleDeposits
    BY ClaimModuleMoves, MovesKeepModuleDeposits
  <1>3. DelivererDeposits' = DelivererDeposits
    BY ClaimDeliverer, NoneAssumption, DelivererDepositKept
  <1>4. vault' = vault
    BY DEF ClaimBooking, xcavVars
  <1> QED BY <1>1, <1>2, <1>3, <1>4 DEF SurplusKept, Surplus

LEMMA CancelClaimSolvent ==
  ASSUME TypeOK, TypeOK', NEW u \in Users, NEW b \in BookingIds, CancelClaim(u, b)
  PROVE  SurplusKept
  <1>0. DepositsTyped
    BY DepositsNat
  <1>1. BookingDeposits' = BookingDeposits
    BY ChangesInPlace, InPlaceKeepsDeposits DEF Changes
  <1>2. ModuleDeposits' = ModuleDeposits
    BY ClaimModuleMoves, MovesKeepModuleDeposits
  <1>3. PICK slash \in Nat : /\ deliverers'[u].deposit = deliverers[u].deposit - slash
                             /\ vault' = vault - slash
    BY CancelClaimDeliverer
  <1>4. /\ deliverers[u] # None /\ deliverers'[u] # None /\ deliverers[u].deposit \in Nat
        /\ \A v \in Users \ {u} : deliverers'[v] = deliverers[v]
    BY CancelClaimDeliverer, NoneAssumption DEF Deliverer
  <1>5. /\ Deposits(deliverers)[u] = deliverers[u].deposit
        /\ Deposits(deliverers)'[u] = deliverers[u].deposit - slash
    BY <1>3, <1>4 DEF TypeOK, Deposits
  <1>6. DelivererDeposits' = DelivererDeposits - slash
    BY <1>0, <1>4, <1>5, DelivererDepositsMove DEF DepositsTyped
  <1> QED BY <1>0, <1>1, <1>2, <1>3, <1>6 DEF SurplusKept, Surplus, DepositsTyped

LEMMA FinalizeSolvent ==
  ASSUME TypeOK, TypeOK', NEW u \in Users, NEW b \in BookingIds, FinalizeScore(u, b)
  PROVE  SurplusKept
  <1>1. BookingDeposits' = BookingDeposits
    BY ChangesInPlace, InPlaceKeepsDeposits DEF Changes
  <1>2. UNCHANGED <<modules, vault>>
    BY DEF FinalizeScore, xcavVars
  <1>3. DelivererDeposits' = DelivererDeposits
    <2>1. PICK v \in Users : v = bookings[b].lecturer
      BY FinalizeScoreMoves, Zenon
    <2>2. /\ deliverers[v] \in Deliverer /\ deliverers'[v] \in Deliverer
          /\ deliverers'[v].deposit = deliverers[v].deposit
          /\ \A i \in Users \ {v} : deliverers'[i] = deliverers[i]
      BY <2>1, FinalizeScoreMoves, Zenon
    <2> QED BY <2>2, NoneAssumption, DelivererDepositKept
  <1> QED BY <1>1, <1>2, <1>3 DEF SurplusKept, Surplus, ModuleDeposits

LEMMA RegisterSolvent ==
  ASSUME TypeOK, TypeOK', NEW u \in Users, RegisterDeliverer(u)
  PROVE  SurplusKept
  <1>0. DepositsTyped
    BY DepositsNat
  <1>1. PICK more \in Nat :
          /\ vault' = vault + more
          /\ deliverers'[u].deposit =
               (IF deliverers[u] = None THEN 0 ELSE deliverers[u].deposit) + more
    BY RegisterMoves
  <1>2. deliverers'[u] # None /\ \A v \in Users \ {u} : deliverers'[v] = deliverers[v]
    BY RegisterMoves, NoneAssumption
  <1>3. Deposits(deliverers)'[u] = Deposits(deliverers)[u] + more
    BY <1>1, <1>2 DEF TypeOK, Deposits
  <1>4. DelivererDeposits' = DelivererDeposits + more
    BY <1>0, <1>2, <1>3, DelivererDepositsMove DEF DepositsTyped
  <1>5. UNCHANGED <<modules, bookings>>
    BY DEF RegisterDeliverer, moduleVars, bookingVars
  <1> QED BY <1>0, <1>1, <1>4, <1>5
          DEF SurplusKept, Surplus, ModuleDeposits, BookingDeposits, DepositsTyped

LEMMA UnregisterSolvent ==
  ASSUME TypeOK, TypeOK', NEW u \in Users, UnregisterDeliverer(u)
  PROVE  SurplusKept
  <1>0. DepositsTyped
    BY DepositsNat
  <1>1. /\ deliverers[u] # None /\ deliverers'[u] = None
        /\ \A v \in Users \ {u} : deliverers'[v] = deliverers[v]
        /\ vault' = vault - deliverers[u].deposit /\ UNCHANGED <<modules, bookings>>
    BY DEF TypeOK, UnregisterDeliverer, moduleVars, bookingVars
  <1>2. Deposits(deliverers)[u] = deliverers[u].deposit /\ Deposits(deliverers)'[u] = 0
    BY <1>1 DEF TypeOK, Deposits
  <1>3. /\ DelivererDeposits' = DelivererDeposits - deliverers[u].deposit
        /\ deliverers[u].deposit \in Nat
    BY <1>0, <1>1, <1>2, DelivererDepositsMove DEF DepositsTyped
  <1> QED BY <1>0, <1>1, <1>3
          DEF SurplusKept, Surplus, ModuleDeposits, BookingDeposits, DepositsTyped

LEMMA SolventStep ==
  ASSUME LInv, LInv', [Next]_vars
  PROVE  SurplusKept
  <1>0. TypeOK /\ TypeOK'
    BY DEF LInv, Base, EInv
  <1>1. ASSUME NEW u \in Users,
               \/ \E n \in Amounts : CreateModule(u, n)
               \/ \E m \in ModuleIds : RemoveModule(u, m)
               \/ \E s \in SponsorIds : \E t \in now..(now + config.max_delivery_window) :
                    BookModule(u, s, t)
               \/ RegisterDeliverer(u) \/ UnregisterDeliverer(u)
        PROVE  SurplusKept
    BY <1>0, <1>1, CreateModuleSolvent, RemoveModuleSolvent, BookModuleSolvent,
       RegisterSolvent, UnregisterSolvent
  <1>2. ASSUME NEW u \in Users, NEW b \in BookingIds,
               ClaimBooking(u, b) \/ CancelClaim(u, b) \/ FinalizeScore(u, b)
        PROVE  SurplusKept
    BY <1>0, <1>2, ClaimSolvent, CancelClaimSolvent, FinalizeSolvent
  <1>3. ASSUME NEW b \in BookingIds,
               \/ ExpireBooking(b) \/ FinishBooking(b)
               \/ \E u \in Users : CancelBooking(u, b)
        PROVE  SurplusKept
    BY <1>0, <1>3, ReturnTokenSolvent, FinishBookingSolvent DEF ExpireBooking, MayExpireBooking, CancelBooking, MayCancelBooking
  <1>4. ASSUME NEW u \in Users, NEW b \in BookingIds,
               \/ \E score \in Scores : SubmitImpactScore(u, b, score)
                                        \/ DisputeScore(u, b, score)
               \/ \E accept \in BOOLEAN : ResolveDispute(u, b, accept)
        PROVE  SurplusKept
    <2>1. BookingDeposits' = BookingDeposits
      BY <1>0, <1>4, ChangesInPlace, InPlaceKeepsDeposits DEF Changes
    <2>2. UNCHANGED <<modules, deliverers, vault>>
      BY <1>4 DEF SubmitImpactScore, DisputeScore, ResolveDispute, moduleVars, xcavVars
    <2> QED BY <2>1, <2>2 DEF SurplusKept, Surplus, ModuleDeposits, DelivererDeposits
  <1>5. ASSUME NEW m \in ModuleIds, NEW a, NEW c, NEW t, ModuleMoves(m, a, c, t),
               UNCHANGED <<bookings, deliverers, vault>>
        PROVE  SurplusKept
    BY <1>0, <1>5, MovesKeepModuleDeposits DEF SurplusKept, Surplus, BookingDeposits, DelivererDeposits
  <1>6. ASSUME NEW u \in Users, NEW m \in ModuleIds, NEW a \in Assets, NEW n \in Amounts,
               SponsorModule(u, m, a, n)
        PROVE  SurplusKept
    BY <1>0, <1>5, <1>6, SponsorModuleMoves DEF SponsorModule, bookingVars, xcavVars
  <1>7. ASSUME NEW u \in Users, NEW m \in ModuleIds, NEW n \in Amounts,
               BurnUnsponsored(u, m, n)
        PROVE  SurplusKept
    BY <1>0, <1>5, <1>7, BurnMoves DEF BurnUnsponsored, bookingVars, xcavVars
  <1>8. ASSUME NEW u \in Users, NEW s \in SponsorIds, NEW n \in Amounts,
               ReclaimSponsorship(u, s, n)
        PROVE  SurplusKept
    BY <1>0, <1>5, <1>8, ReclaimMoves DEF ReclaimSponsorship, bookingVars, xcavVars
  <1>9. ASSUME UNCHANGED <<modules, bookings, deliverers, vault>> PROVE SurplusKept
    BY <1>9 DEF SurplusKept, Surplus, ModuleDeposits, BookingDeposits, DelivererDeposits
  <1>10. ASSUME NEW u \in Users,
                \/ \E s \in SponsorIds : CloseSponsorship(u, s)
                \/ \E b \in BookingIds, kind \in Kinds, r \in Recipients :
                     MintCredential(u, b, kind, r)
                \/ \E c \in cancellations : ClearOldCancellation(u, c)
                \/ \E r \in RoleNames : ChangeRole(u, r)
         PROVE  SurplusKept
    BY <1>9, <1>10 DEF CloseSponsorship, MintCredential, ClearOldCancellation, ChangeRole,
                       moduleVars, bookingVars, xcavVars
  <1>11. ASSUME \/ \E b \in BookingIds : StrayToBookingEscrow(b)
                \/ \E s \in SponsorIds : StrayToSponsorEscrow(s)
                \/ UpdateConfig \/ WithdrawTreasury \/ Tick \/ UNCHANGED vars
         PROVE  SurplusKept
    BY <1>9, <1>11 DEF StrayToBookingEscrow, StrayToSponsorEscrow, UpdateConfig,
                       WithdrawTreasury, Tick,
                       vars, moduleVars, bookingVars, xcavVars
  <1> QED BY <1>1, <1>2, <1>3, <1>4, <1>6, <1>7, <1>8, <1>10, <1>11 DEF Next

LEMMA SolventInit == Init => Solvent
  <1> SUFFICES ASSUME Init PROVE Solvent
    OBVIOUS
  <1>1. DepositsTyped
    BY InitOK, DepositsNat
  <1>2. /\ \A m \in ModuleIds : Deposits(modules)[m] = 0
        /\ \A b \in BookingIds : Deposits(bookings)[b] = 0
        /\ \A u \in Users : Deposits(deliverers)[u] = 0
    BY DEF Init, Deposits
  <1>3. ModuleDeposits = 0 /\ BookingDeposits = 0 /\ DelivererDeposits = 0
    BY <1>1, <1>2, IdsFinite, SumZero DEF DepositsTyped
  <1> QED BY <1>3 DEF Solvent, Surplus, Init

\* The vault always holds exactly the deposits of the open accounts, however
\* deposits are locked, topped up, slashed and released and whatever the
\* parameters were when each was locked: a release never pays out of another's.
THEOREM SolvencyTheorem == Spec => []VaultSolvent
  <1>1. Init => LInv /\ Solvent
    BY LInvInit, SolventInit
  <1>2. LInv /\ Solvent /\ [Next]_vars => LInv' /\ Solvent'
    BY LInvStep, SolventStep DEF Solvent, SurplusKept
  <1>3. LInv /\ Solvent => VaultSolvent
    <2> SUFFICES ASSUME LInv, Solvent PROVE VaultSolvent
      OBVIOUS
    <2>1. DepositsTyped
      BY DepositsNat DEF LInv, Base, EInv
    <2>2. vault = ModuleDeposits + BookingDeposits + DelivererDeposits
      BY <2>1 DEF Solvent, Surplus, DepositsTyped
    <2> QED BY <2>2 DEF VaultSolvent, ModuleDeposits, BookingDeposits, DelivererDeposits
  <1> QED BY <1>1, <1>2, <1>3, PTL DEF Spec
-----------------------------------------------------------------------------
(* Bookings follow BookingLifecycle.  A booking's view, its phase and what   *)
(* the lifecycle sees of it, is read off its record alone (its escrow by     *)
(* EInv), so one instruction moves the view of one booking.                  *)

Phases        == [b \in BookingIds |-> Phase(b)]
Column(field) == [b \in BookingIds |-> OfBooking(b, field)]
Payments      == [b \in BookingIds |-> Held(b)]

\* What the lifecycle sees of b is left alone.
Shown(b) ==
  /\ Phase(b)' = Phase(b) /\ Held(b)' = Held(b)
  /\ OfBooking(b, "school")' = OfBooking(b, "school")
  /\ OfBooking(b, "lecturer")' = OfBooking(b, "lecturer")
  /\ OfBooking(b, "score")' = OfBooking(b, "score")
  /\ OfBooking(b, "proposed_score")' = OfBooking(b, "proposed_score")

\* What b's escrow holds of its payment, by EInv.
Payment(b) == IF bookings[b] = None THEN 0
              ELSE IF bookings[b].settled THEN 0 ELSE bookings[b].price_per_token

PaymentsHeld == \A b \in BookingIds : Held(b) = Payment(b)

LEMMA HeldExact == EInv => PaymentsHeld
  <1> SUFFICES ASSUME EInv, NEW b \in BookingIds PROVE Held(b) = Payment(b)
    BY DEF PaymentsHeld
  <1>1. BookingExact(b) /\ stray.booking[b] \in Nat /\ bookings[b] \in Booking \cup {None}
    BY DEF EInv, TypeOK
  <1>2. \A n \in Nat : n # None
    BY NoneAssumption
  <1>3. CASE bookings[b] = None
    <2>1. booking_escrow[b] = IF stray.booking[b] = 0 THEN None ELSE stray.booking[b]
      BY <1>1, <1>3 DEF BookingExact, CloseIfEmpty
    <2>2. (IF booking_escrow[b] = None THEN 0 ELSE booking_escrow[b]) = stray.booking[b]
      BY <1>1, <1>2, <2>1
    <2> QED BY <1>1, <1>3, <2>2 DEF Held, Payment
  <1>4. CASE bookings[b] # None
    <2>1. Payment(b) \in Nat /\ booking_escrow[b] = stray.booking[b] + Payment(b)
      BY <1>1, <1>4 DEF BookingExact, Payment, Booking
    <2> QED BY <1>1, <1>2, <2>1 DEF Held
  <1> QED BY <1>3, <1>4

LEMMA ShownKept ==
  ASSUME EInv, EInv', NEW b \in BookingIds, bookings'[b] = bookings[b],
         b >= next_id'.booking <=> b >= next_id.booking
  PROVE  Shown(b)
  <1>1. PaymentsHeld /\ PaymentsHeld'
    BY HeldExact, PTL
  <1>2. Held(b) = Payment(b) /\ Held(b)' = Payment(b)'
    BY <1>1 DEF PaymentsHeld
  <1> QED BY <1>2 DEF Shown, Payment, Phase, OfBooking

LEMMA AllShown ==
  ASSUME \A b \in BookingIds : Shown(b)
  PROVE  UNCHANGED Lifecycle!vars
  BY DEF Lifecycle!vars, Shown

LEMMA OneShown ==
  ASSUME NEW b \in BookingIds, \A i \in BookingIds \ {b} : Shown(i)
  PROVE  /\ Phases' = [Phases EXCEPT ![b] = Phase(b)']
         /\ Payments' = [Payments EXCEPT ![b] = Held(b)']
         /\ Column("school")' = [Column("school") EXCEPT ![b] = OfBooking(b, "school")']
         /\ Column("lecturer")' = [Column("lecturer") EXCEPT ![b] = OfBooking(b, "lecturer")']
         /\ Column("score")' = [Column("score") EXCEPT ![b] = OfBooking(b, "score")']
         /\ Column("proposed_score")' =
              [Column("proposed_score") EXCEPT ![b] = OfBooking(b, "proposed_score")']
  BY DEF Phases, Payments, Column, Shown

\* A step on one booking leaves the views of the others, and this one's id was
\* given out.
LEMMA OneViewMoves ==
  ASSUME Base, Base', NEW b \in BookingIds, bookings[b] # None, UNCHANGED next_id,
         \A i \in BookingIds \ {b} : bookings'[i] = bookings[i]
  PROVE  /\ \A i \in BookingIds \ {b} : Shown(i)
         /\ ~(b >= next_id.booking) /\ ~(b >= next_id'.booking)
         /\ Held(b) = Payment(b) /\ Held(b)' = Payment(b)'
         /\ bookings[b] \in Booking /\ Shape(bookings[b])
  <1>1. EInv /\ EInv' /\ Shapes /\ TypeOK
    BY DEF Base, EInv
  <1>2. PaymentsHeld /\ PaymentsHeld'
    BY <1>1, HeldExact, PTL
  <1>3. ~(b >= next_id.booking)
    BY <1>1 DEF EInv, Fresh, FreshBooking
  <1>4. \A i \in BookingIds \ {b} : Shown(i)
    BY <1>1, ShownKept
  <1> QED BY <1>1, <1>2, <1>3, <1>4 DEF PaymentsHeld, TypeOK, Shapes

LEMMA ClaimLifecycle ==
  ASSUME Base, Base', NEW u \in Users, NEW b \in BookingIds, ClaimBooking(u, b)
  PROVE  Lifecycle!Claim(b)
  <1>1. TypeOK
    BY DEF Base, EInv
  <1>2. /\ bookings[b] # None /\ UNCHANGED next_id /\ bookings' = [bookings EXCEPT ![b].lecturer = u]
        /\ bookings[b].lecturer = None /\ bookings[b].school # u
    BY DEF ClaimBooking
  <1>3. /\ bookings'[b] # None /\ bookings'[b] = [bookings[b] EXCEPT !.lecturer = u]
        /\ \A i \in BookingIds \ {b} : bookings'[i] = bookings[i]
    BY <1>1, <1>2, LecturerSet
  <1>4. /\ \A i \in BookingIds \ {b} : Shown(i)
        /\ ~(b >= next_id.booking) /\ ~(b >= next_id'.booking)
        /\ Held(b) = Payment(b) /\ Held(b)' = Payment(b)'
        /\ bookings[b] \in Booking /\ Shape(bookings[b])
    BY <1>2, <1>3, OneViewMoves
  <1>5. /\ bookings[b].score = None /\ ~bookings[b].settled /\ bookings[b].proposed_score = None
        /\ bookings[b].disputer = None /\ u # None
    BY <1>2, <1>4, NoneAssumption DEF Shape
  <1>6. /\ bookings'[b].lecturer = u /\ bookings'[b].school = bookings[b].school
        /\ bookings'[b].score = None /\ bookings'[b].settled = bookings[b].settled
        /\ bookings'[b].proposed_score = None /\ bookings'[b].disputer = None
        /\ bookings'[b].price_per_token = bookings[b].price_per_token
    BY <1>3, <1>4, <1>5 DEF Booking
  <1>7. Phase(b) = "Open" /\ Phase(b)' = "Claimed"
    BY <1>2, <1>3, <1>4, <1>5, <1>6 DEF Phase
  <1>8. /\ OfBooking(b, "school") = bookings[b].school
        /\ OfBooking(b, "school")' = OfBooking(b, "school")
        /\ OfBooking(b, "lecturer")' = u
        /\ OfBooking(b, "score")' = OfBooking(b, "score")
        /\ OfBooking(b, "proposed_score")' = OfBooking(b, "proposed_score")
        /\ Held(b)' = Held(b)
    BY <1>2, <1>3, <1>4, <1>5, <1>6 DEF OfBooking, Payment
  <1> QED BY <1>2, <1>4, <1>7, <1>8, OneShown
          DEF Lifecycle!Claim, Lifecycle!Move, Phases, Column, Payments

LEMMA CancelClaimLifecycle ==
  ASSUME Base, Base', NEW u \in Users, NEW b \in BookingIds, CancelClaim(u, b)
  PROVE  Lifecycle!GiveUp(b)
  <1>1. TypeOK
    BY DEF Base, EInv
  <1>2. /\ bookings[b] # None /\ UNCHANGED next_id /\ bookings[b].lecturer = u
        /\ bookings' = [bookings EXCEPT ![b].lecturer = None] /\ bookings[b].score = None
    BY DEF CancelClaim
  <1>3. /\ bookings'[b] # None /\ bookings'[b] = [bookings[b] EXCEPT !.lecturer = None]
        /\ \A i \in BookingIds \ {b} : bookings'[i] = bookings[i]
    <2>0. bookings[b] # None
      BY <1>2
    <2>1. PICK l \in Users \cup {None} : l = None
      OBVIOUS
    <2>2. bookings' = [bookings EXCEPT ![b].lecturer = l]
      BY <1>2, <2>1
    <2>3. /\ bookings'[b] # None /\ bookings'[b] = [bookings[b] EXCEPT !.lecturer = l]
          /\ \A i \in BookingIds \ {b} : bookings'[i] = bookings[i]
      BY <1>1, <2>0, <2>2, LecturerSet
    <2> QED BY <2>1, <2>3
  <1>4. /\ \A i \in BookingIds \ {b} : Shown(i)
        /\ ~(b >= next_id.booking) /\ ~(b >= next_id'.booking)
        /\ Held(b) = Payment(b) /\ Held(b)' = Payment(b)'
        /\ bookings[b] \in Booking /\ Shape(bookings[b])
    BY <1>2, <1>3, OneViewMoves
  <1>5. /\ ~bookings[b].settled /\ bookings[b].proposed_score = None
        /\ bookings[b].disputer = None /\ u # None
    BY <1>2, <1>4, NoneAssumption DEF Shape
  <1>6. /\ bookings'[b].lecturer = None /\ bookings'[b].school = bookings[b].school
        /\ bookings'[b].score = None /\ bookings'[b].settled = bookings[b].settled
        /\ bookings'[b].proposed_score = None /\ bookings'[b].disputer = None
        /\ bookings'[b].price_per_token = bookings[b].price_per_token
    BY <1>2, <1>3, <1>4, <1>5 DEF Booking
  <1>7. Phase(b) = "Claimed" /\ Phase(b)' = "Open"
    BY <1>2, <1>3, <1>4, <1>5, <1>6 DEF Phase
  <1>8. /\ OfBooking(b, "school")' = OfBooking(b, "school")
        /\ OfBooking(b, "lecturer")' = None
        /\ OfBooking(b, "score")' = OfBooking(b, "score")
        /\ OfBooking(b, "proposed_score")' = OfBooking(b, "proposed_score")
        /\ Held(b)' = Held(b)
    BY <1>2, <1>3, <1>4, <1>5, <1>6 DEF OfBooking, Payment
  <1> QED BY <1>4, <1>7, <1>8, OneShown
          DEF Lifecycle!GiveUp, Lifecycle!Move, Phases, Column, Payments

LEMMA ReturnLifecycle ==
  ASSUME Base, Base', NEW b \in BookingIds, bookings[b] # None, bookings[b].score = None,
         UNCHANGED next_id, ReturnToken(b)
  PROVE  Lifecycle!Return(b)
  <1>1. TypeOK /\ TypeOK'
    BY DEF Base, EInv
  <1>2. bookings'[b] = None /\ \A i \in BookingIds \ {b} : bookings'[i] = bookings[i]
    BY <1>1, ReturnTokenMoves
  <1>3. /\ \A i \in BookingIds \ {b} : Shown(i)
        /\ ~(b >= next_id.booking) /\ ~(b >= next_id'.booking)
        /\ Held(b)' = Payment(b)' /\ Shape(bookings[b])
    BY <1>2, OneViewMoves
  <1>4. Phase(b) \in {"Open", "Claimed"}
    BY <1>3 DEF Phase, Shape
  <1>5. Phase(b)' = "Closed" /\ Held(b)' = 0
    BY <1>2, <1>3 DEF Phase, Payment
  <1>6. /\ OfBooking(b, "school")' = None /\ OfBooking(b, "lecturer")' = None
        /\ OfBooking(b, "score")' = None /\ OfBooking(b, "proposed_score")' = None
    BY <1>2 DEF OfBooking
  <1> QED BY <1>3, <1>4, <1>5, <1>6, OneShown
          DEF Lifecycle!Return, Lifecycle!Forget, Lifecycle!Move, Phases, Column, Payments

LEMMA FinishLifecycle ==
  ASSUME Base, Base', NEW b \in BookingIds, FinishBooking(b)
  PROVE  Lifecycle!Close(b)
  <1>1. TypeOK /\ TypeOK'
    BY DEF Base, EInv
  <1>2. /\ bookings[b] # None /\ UNCHANGED next_id /\ bookings[b].settled
        /\ bookings'[b] = None /\ \A i \in BookingIds \ {b} : bookings'[i] = bookings[i]
    BY <1>1, FinishBookingMoves DEF FinishBooking, MayFinishBooking
  <1>3. /\ \A i \in BookingIds \ {b} : Shown(i)
        /\ ~(b >= next_id.booking) /\ ~(b >= next_id'.booking)
        /\ Held(b) = Payment(b) /\ Held(b)' = Payment(b)'
    BY <1>2, OneViewMoves
  <1>4. Phase(b) = "Settled" /\ Phase(b)' = "Closed" /\ Held(b)' = Held(b)
    BY <1>2, <1>3 DEF Phase, Payment
  <1>5. /\ OfBooking(b, "school")' = None /\ OfBooking(b, "lecturer")' = None
        /\ OfBooking(b, "score")' = None /\ OfBooking(b, "proposed_score")' = None
    BY <1>2 DEF OfBooking
  <1> QED BY <1>3, <1>4, <1>5, OneShown
          DEF Lifecycle!Close, Lifecycle!Forget, Lifecycle!Move, Phases, Column, Payments

LEMMA ScoreBps ==
  ASSUME NEW x \in Scores PROVE x \in Bps /\ x # None
  <1>1. x \in Bps
    BY InputsAssumption
  <1>2. \A n \in Nat : n # None
    BY NoneAssumption
  <1>3. x \in Nat
    BY <1>1 DEF Bps
  <1> QED BY <1>1, <1>2, <1>3

LEMMA SubmitLifecycle ==
  ASSUME Base, Base', NEW u \in Users, NEW b \in BookingIds, NEW x \in Scores,
         SubmitImpactScore(u, b, x)
  PROVE  Lifecycle!Score(b)
  <1>1. TypeOK
    BY DEF Base, EInv
  <1>2. /\ bookings[b] # None /\ UNCHANGED next_id /\ bookings[b].lecturer # None
        /\ bookings[b].score = None
    BY DEF SubmitImpactScore
  <1>3. /\ bookings[b] \in Booking /\ bookings'[b] \in Booking
        /\ bookings'[b] = [bookings[b] EXCEPT !.score = x, !.score_at = now]
        /\ \A i \in BookingIds \ {b} : bookings'[i] = bookings[i]
    BY <1>1, SubmitMoves, Zenon
  <1>4. /\ \A i \in BookingIds \ {b} : Shown(i)
        /\ ~(b >= next_id.booking) /\ ~(b >= next_id'.booking)
        /\ Held(b) = Payment(b) /\ Held(b)' = Payment(b)'
        /\ Shape(bookings[b])
    BY <1>2, <1>3, OneViewMoves
  <1>5. /\ ~bookings[b].settled /\ bookings[b].proposed_score = None
        /\ bookings[b].disputer = None /\ x \in Bps /\ x # None /\ bookings'[b] # None
    <2>1. x \in Bps /\ x # None
      BY ScoreBps
    <2>2. bookings'[b] # None
      BY <1>3, NoneAssumption
    <2> QED BY <1>2, <1>4, <2>1, <2>2 DEF Shape
  <1>6. /\ bookings'[b].score = x /\ bookings'[b].school = bookings[b].school
        /\ bookings'[b].lecturer = bookings[b].lecturer
        /\ bookings'[b].settled = bookings[b].settled
        /\ bookings'[b].proposed_score = bookings[b].proposed_score
        /\ bookings'[b].disputer = None
        /\ bookings'[b].price_per_token = bookings[b].price_per_token
    BY <1>3, <1>5 DEF Booking
  <1>7. Phase(b) = "Claimed" /\ Phase(b)' = "Scored"
    BY <1>2, <1>4, <1>5, <1>6 DEF Phase
  <1>8. /\ OfBooking(b, "school")' = OfBooking(b, "school")
        /\ OfBooking(b, "lecturer")' = OfBooking(b, "lecturer")
        /\ OfBooking(b, "score")' = x
        /\ OfBooking(b, "proposed_score")' = OfBooking(b, "proposed_score")
        /\ Held(b)' = Held(b)
    BY <1>2, <1>4, <1>5, <1>6 DEF OfBooking, Payment
  <1> QED BY <1>4, <1>5, <1>7, <1>8, OneShown
          DEF Lifecycle!Score, Lifecycle!Move, Phases, Column, Payments

LEMMA DisputeLifecycle ==
  ASSUME Base, Base', NEW u \in Users, NEW b \in BookingIds, NEW x \in Scores,
         DisputeScore(u, b, x)
  PROVE  Lifecycle!Dispute(b)
  <1>1. TypeOK
    BY DEF Base, EInv
  <1>2. /\ bookings[b] # None /\ UNCHANGED next_id /\ ~bookings[b].settled
        /\ bookings[b].score_at # None /\ bookings[b].disputer = None
    BY DEF DisputeScore, Undisputed
  <1>3. /\ bookings[b] \in Booking /\ bookings'[b] \in Booking
        /\ bookings'[b] = [bookings[b] EXCEPT !.disputer = u, !.proposed_score = x]
        /\ \A i \in BookingIds \ {b} : bookings'[i] = bookings[i]
    BY <1>1, DisputeMoves, Zenon
  <1>4. /\ \A i \in BookingIds \ {b} : Shown(i)
        /\ ~(b >= next_id.booking) /\ ~(b >= next_id'.booking)
        /\ Held(b) = Payment(b) /\ Held(b)' = Payment(b)'
        /\ Shape(bookings[b])
    BY <1>2, <1>3, OneViewMoves
  <1>5. /\ bookings[b].score # None /\ bookings[b].proposed_score = None
        /\ x \in Bps /\ x # None /\ bookings'[b] # None
    <2>1. x \in Bps /\ x # None
      BY ScoreBps
    <2>2. bookings'[b] # None
      BY <1>3, NoneAssumption
    <2> QED BY <1>2, <1>4, <2>1, <2>2 DEF Shape
  <1>6. /\ bookings'[b].score = bookings[b].score /\ bookings'[b].school = bookings[b].school
        /\ bookings'[b].lecturer = bookings[b].lecturer
        /\ bookings'[b].settled = bookings[b].settled
        /\ bookings'[b].proposed_score = x
        /\ bookings'[b].price_per_token = bookings[b].price_per_token
    BY <1>3 DEF Booking
  <1>7. Phase(b) = "Scored" /\ Phase(b)' = "Disputed"
    BY <1>2, <1>4, <1>5, <1>6 DEF Phase
  <1>8. /\ OfBooking(b, "school")' = OfBooking(b, "school")
        /\ OfBooking(b, "lecturer")' = OfBooking(b, "lecturer")
        /\ OfBooking(b, "score")' = OfBooking(b, "score")
        /\ OfBooking(b, "proposed_score")' = x
        /\ Held(b)' = Held(b)
    BY <1>2, <1>4, <1>5, <1>6 DEF OfBooking, Payment
  <1> QED BY <1>4, <1>5, <1>7, <1>8, OneShown
          DEF Lifecycle!Dispute, Lifecycle!Move, Phases, Column, Payments

LEMMA ResolveLifecycle ==
  ASSUME Base, Base', NEW u \in Users, NEW b \in BookingIds, NEW accept \in BOOLEAN,
         ResolveDispute(u, b, accept)
  PROVE  Lifecycle!Resolve(b)
  <1>1. TypeOK
    BY DEF Base, EInv
  <1>2. /\ bookings[b] # None /\ UNCHANGED next_id /\ ~bookings[b].settled
        /\ bookings[b].proposed_score # None /\ bookings[b].disputer # None
    BY DEF ResolveDispute
  <1>3. /\ bookings[b] \in Booking /\ bookings'[b] \in Booking
        /\ \E y \in {bookings[b].score, bookings[b].proposed_score} :
             bookings'[b] = [bookings[b] EXCEPT !.score = y, !.proposed_score = None]
        /\ \A i \in BookingIds \ {b} : bookings'[i] = bookings[i]
    BY <1>1, ResolveMoves, Zenon
  <1>4. /\ \A i \in BookingIds \ {b} : Shown(i)
        /\ ~(b >= next_id.booking) /\ ~(b >= next_id'.booking)
        /\ Held(b) = Payment(b) /\ Held(b)' = Payment(b)'
    BY <1>2, <1>3, OneViewMoves
  <1>5. PICK y \in {bookings[b].score, bookings[b].proposed_score} :
               bookings'[b] = [bookings[b] EXCEPT !.score = y, !.proposed_score = None]
    BY <1>3
  <1>6. /\ bookings'[b].score = y /\ bookings'[b].school = bookings[b].school
        /\ bookings'[b].lecturer = bookings[b].lecturer
        /\ bookings'[b].settled = bookings[b].settled
        /\ bookings'[b].proposed_score = None /\ bookings'[b].disputer = bookings[b].disputer
        /\ bookings'[b].price_per_token = bookings[b].price_per_token
        /\ bookings'[b] # None
    BY <1>3, <1>5, NoneAssumption DEF Booking
  <1>7. Phase(b) = "Disputed" /\ Phase(b)' = "Resolved"
    BY <1>2, <1>4, <1>6 DEF Phase
  <1>8. /\ OfBooking(b, "school")' = OfBooking(b, "school")
        /\ OfBooking(b, "lecturer")' = OfBooking(b, "lecturer")
        /\ OfBooking(b, "score")' \in {OfBooking(b, "score"), OfBooking(b, "proposed_score")}
        /\ OfBooking(b, "proposed_score")' = None
        /\ Held(b)' = Held(b)
    BY <1>2, <1>4, <1>5, <1>6 DEF OfBooking, Payment
  <1>9. /\ Phases' = [Phases EXCEPT ![b] = "Resolved"]
        /\ Phases[b] \in {"Disputed"}
        /\ \/ Column("score")' = [Column("score") EXCEPT ![b] = Column("proposed_score")[b]]
           \/ UNCHANGED Column("score")
        /\ Column("proposed_score")' = [Column("proposed_score") EXCEPT ![b] = None]
        /\ UNCHANGED <<Column("school"), Column("lecturer"), Payments>>
    BY <1>4, <1>7, <1>8, OneShown, ZenonT(30) DEF Phases, Column, Payments
  <1> QED BY <1>9
          DEF Lifecycle!Resolve, Lifecycle!Move, Phases, Column, Payments

LEMMA FinalizeLifecycle ==
  ASSUME Base, Base', NEW u \in Users, NEW b \in BookingIds, FinalizeScore(u, b)
  PROVE  Lifecycle!Settle(b)
  <1>1. TypeOK /\ TypeOK'
    BY DEF Base, EInv
  <1>2. UNCHANGED next_id /\ bookings[b].score # None /\ bookings[b].lecturer # None
    BY DEF FinalizeScore, MayFinalizeScore
  <1>3. /\ bookings[b] \in Booking /\ bookings[b] # None /\ bookings'[b] \in Booking
        /\ ~bookings[b].settled
        /\ bookings'[b] = [bookings[b] EXCEPT !.proposed_score = None, !.settled = TRUE]
        /\ \A i \in BookingIds \ {b} : bookings'[i] = bookings[i]
    BY <1>1, FinalizeScoreMoves, Zenon
  <1>4. /\ \A i \in BookingIds \ {b} : Shown(i)
        /\ ~(b >= next_id.booking) /\ ~(b >= next_id'.booking)
        /\ Held(b)' = Payment(b)'
    BY <1>2, <1>3, OneViewMoves
  <1>5. /\ bookings'[b].score = bookings[b].score /\ bookings'[b].school = bookings[b].school
        /\ bookings'[b].lecturer = bookings[b].lecturer /\ bookings'[b].settled
        /\ bookings'[b].proposed_score = None /\ bookings'[b] # None
    BY <1>3, NoneAssumption DEF Booking
  <1>6. Phase(b) \in {"Scored", "Disputed", "Resolved"} /\ Phase(b)' = "Settled"
    BY <1>2, <1>3, <1>4, <1>5 DEF Phase
  <1>7. /\ OfBooking(b, "school")' = OfBooking(b, "school")
        /\ OfBooking(b, "lecturer")' = OfBooking(b, "lecturer")
        /\ OfBooking(b, "score")' = OfBooking(b, "score")
        /\ OfBooking(b, "proposed_score")' = None
        /\ Held(b)' = 0
    BY <1>3, <1>4, <1>5 DEF OfBooking, Payment
  <1> QED BY <1>4, <1>6, <1>7, OneShown
          DEF Lifecycle!Settle, Lifecycle!Move, Phases, Column, Payments

\* A sponsorship pays something for each token, so a booking holds a payment.
Priced == \A s \in SponsorIds : sponsorships[s] # None => sponsorships[s].price_per_token > 0

LEMMA PricePositive ==
  ASSUME NEW terms \in Terms, NEW a \in Assets
  PROVE  price_per_token(terms, Decimals[a]) > 0
  <1> DEFINE base == scale_to_asset(terms.price, Decimals[a])
  <1>1. \A x, y \in Nat \ {0} : x * y \in Nat \ {0}
    OBVIOUS
  <1>2. base \in Nat \ {0} /\ terms.fees \in Fees
    BY <1>1, DecimalsAssumption, WidthAssumption DEF Terms, scale_to_asset
  <1>3. \A f \in Bps : fee_ceil(base, f) \in Nat
    BY <1>2, FeeNat
  <1> HIDE DEF base
  <1>4. TokenPrice(base, terms.fees) > 0
    BY <1>2, <1>3 DEF TokenPrice, fee_parts, Fees
  <1> QED BY <1>4 DEF price_per_token, base

LEMMA PricedStep ==
  ASSUME TypeOK, TypeOK', Priced, [Next]_vars
  PROVE  Priced'
  <1>1. ASSUME NEW u \in Users, NEW m \in ModuleIds, NEW a \in Assets, NEW n \in Amounts,
               SponsorModule(u, m, a, n)
        PROVE  Priced'
    <2> DEFINE price == price_per_token(modules[m].terms, Decimals[a])
    <2>1. modules[m].terms \in Terms
      BY <1>1 DEF TypeOK, SponsorModule, Module
    <2>2. price > 0
      BY <2>1, PricePositive
    <2> HIDE DEF price
    <2>3. sponsorships' = [sponsorships EXCEPT ![next_id.sponsor] =
            [module |-> m, sponsor |-> u, asset |-> a, amount |-> n,
             active_bookings |-> 0, price_per_token |-> price, sponsored_at |-> now]]
      BY <1>1 DEF SponsorModule, price
    <2>4. ASSUME NEW s \in SponsorIds, sponsorships'[s] # None
          PROVE  sponsorships'[s].price_per_token > 0
      BY <2>2, <2>3, <2>4 DEF TypeOK, Priced
    <2> QED BY <2>4 DEF Priced
  <1>2. ASSUME \A s \in SponsorIds : OfferKept(s) PROVE Priced'
    BY <1>2 DEF Priced, OfferKept
  <1> QED BY <1>1, <1>2, OffersKept

LEMMA BookLifecycle ==
  ASSUME Base, Base', Priced, NEW u \in Users, NEW s \in SponsorIds,
         NEW t \in now..(now + config.max_delivery_window), BookModule(u, s, t)
  PROVE  \E b \in BookingIds : Lifecycle!Book(b)
  <1>0. TypeOK /\ TypeOK' /\ EInv /\ EInv'
    BY DEF Base, EInv
  <1>1. PICK b \in BookingIds : b = next_id.booking
    BY <1>0, BoundsAssumption DEF TypeOK, BookModule, BookingIds
  <1>2. PICK p \in Sponsorship : p = sponsorships[s]
    BY <1>0 DEF TypeOK, BookModule
  <1>3. p.price_per_token \in Nat \ {0}
    BY <1>2, NoneAssumption DEF Priced, Sponsorship
  <1>4. next_id'.booking = next_id.booking + 1 /\ next_id.booking \in Nat
    BY <1>0 DEF BookModule, TypeOK
  <1>5. bookings' = [bookings EXCEPT ![b] =
              [module |-> p.module, sponsorship |-> s, school |-> u, lecturer |-> None,
               asset |-> p.asset, price_per_token |-> p.price_per_token,
               score |-> None, score_at |-> None, settled |-> FALSE,
               disputer |-> None, proposed_score |-> None,
               deposit |-> config.booking_deposit, delivery_at |-> t]]
    BY <1>1, <1>2 DEF BookModule
  <1>6. /\ bookings'[b].school = u /\ bookings'[b].lecturer = None /\ ~bookings'[b].settled
        /\ bookings'[b].score = None /\ bookings'[b].disputer = None
        /\ bookings'[b].proposed_score = None /\ bookings'[b].price_per_token = p.price_per_token
        /\ \A i \in BookingIds \ {b} : bookings'[i] = bookings[i]
    BY <1>0, <1>5 DEF TypeOK
  <1>7. bookings[b] = None /\ bookings'[b] # None
    <2>1. bookings[b] = None
      BY <1>0, <1>1, <1>4 DEF EInv, Fresh, FreshBooking
    <2>2. b >= next_id'.booking <=> FALSE
      BY <1>1, <1>4
    <2>3. bookings'[b] # None
      <3>1. \A k \in Booking : k # None
        BY NoneAssumption
      <3>2. [module |-> p.module, sponsorship |-> s, school |-> u, lecturer |-> None,
             asset |-> p.asset, price_per_token |-> p.price_per_token,
             score |-> None, score_at |-> None, settled |-> FALSE,
             disputer |-> None, proposed_score |-> None,
             deposit |-> config.booking_deposit, delivery_at |-> t] \in Booking
        BY <1>0, ConfigOK DEF Booking, Sponsorship, ConfigParams, TypeOK
      <3> QED BY <1>0, <1>5, <3>1, <3>2 DEF TypeOK
    <2> QED BY <2>1, <2>3
  <1>8. PaymentsHeld /\ PaymentsHeld'
    BY <1>0, HeldExact, PTL
  <1>9. Held(b)' = p.price_per_token
    BY <1>6, <1>7, <1>8 DEF PaymentsHeld, Payment
  <1>10. \A i \in BookingIds \ {b} : Shown(i)
    <2>1. \A i \in BookingIds \ {b} : i >= next_id'.booking <=> i >= next_id.booking
      BY <1>1, <1>4 DEF BookingIds
    <2> QED BY <1>0, <1>6, <2>1, ShownKept
  <1>11. Phase(b) = "None" /\ Phase(b)' = "Open"
    BY <1>1, <1>4, <1>6, <1>7 DEF Phase
  <1>12. /\ OfBooking(b, "school")' = u
         /\ OfBooking(b, "lecturer")' = OfBooking(b, "lecturer")
         /\ OfBooking(b, "score")' = OfBooking(b, "score")
         /\ OfBooking(b, "proposed_score")' = OfBooking(b, "proposed_score")
    BY <1>6, <1>7 DEF OfBooking
  <1>13. Lifecycle!Book(b)
    BY <1>3, <1>9, <1>10, <1>11, <1>12, OneShown
       DEF Lifecycle!Book, Lifecycle!Move, Phases, Column, Payments
  <1> QED BY <1>13

LEMMA LifecycleInit == Init => Lifecycle!Init
  <1> SUFFICES ASSUME Init PROVE Lifecycle!Init
    OBVIOUS
  <1>1. ASSUME NEW b \in BookingIds
        PROVE  Phase(b) = "None" /\ Held(b) = 0 /\ bookings[b] = None
    BY <1>1 DEF Init, Phase, Held, BookingIds
  <1> QED BY <1>1 DEF Lifecycle!Init, OfBooking

RInv == Base /\ Priced

LEMMA RInvInit == Init => RInv
  BY BaseInit DEF RInv, Priced, Init

LEMMA RInvStep == RInv /\ [Next]_vars => RInv'
  <1> SUFFICES ASSUME RInv, [Next]_vars PROVE RInv'
    OBVIOUS
  <1>1. Base /\ Base' /\ Priced
    BY BaseStep DEF RInv
  <1> QED BY <1>1, PricedStep DEF RInv, Base, EInv

LEMMA LifecycleStep == RInv /\ [Next]_vars => [Lifecycle!Next]_(Lifecycle!vars)
  <1> SUFFICES ASSUME RInv, [Next]_vars PROVE [Lifecycle!Next]_(Lifecycle!vars)
    OBVIOUS
  <1>0. Base /\ Base' /\ Priced /\ EInv /\ EInv'
    BY BaseStep DEF RInv, Base
  <1> DEFINE Step == [Lifecycle!Next]_(Lifecycle!vars)
  <1>1. ASSUME NEW b \in BookingIds,
               \/ Lifecycle!Book(b) \/ Lifecycle!Claim(b) \/ Lifecycle!GiveUp(b)
               \/ Lifecycle!Return(b) \/ Lifecycle!Score(b) \/ Lifecycle!Dispute(b)
               \/ Lifecycle!Resolve(b) \/ Lifecycle!Settle(b) \/ Lifecycle!Close(b)
        PROVE  Step
    BY <1>1 DEF Lifecycle!Next
  <1>2. ASSUME UNCHANGED bookings, next_id'.booking = next_id.booking PROVE Step
    BY <1>0, <1>2, ShownKept, AllShown
  <1> HIDE DEF Step
  <1>3. ASSUME NEW u \in Users, NEW s \in SponsorIds,
               NEW t \in now..(now + config.max_delivery_window), BookModule(u, s, t)
        PROVE  Step
    BY <1>0, <1>1, <1>3, BookLifecycle
  <1>4. ASSUME NEW u \in Users, NEW b \in BookingIds, Changes(u, b) PROVE Step
    BY <1>0, <1>1, <1>4, ClaimLifecycle, CancelClaimLifecycle, SubmitLifecycle,
       DisputeLifecycle, ResolveLifecycle, FinalizeLifecycle DEF Changes
  <1>5. ASSUME NEW b \in BookingIds,
               \/ \E u \in Users : CancelBooking(u, b)
               \/ ExpireBooking(b)
        PROVE  Step
    <2>1. bookings[b] # None /\ bookings[b].score = None /\ UNCHANGED next_id /\ ReturnToken(b)
      BY <1>5 DEF CancelBooking, MayCancelBooking, ExpireBooking, MayExpireBooking
    <2> QED BY <1>0, <1>1, <2>1, ReturnLifecycle
  <1>6. ASSUME NEW b \in BookingIds, FinishBooking(b) PROVE Step
    BY <1>0, <1>1, <1>6, FinishLifecycle
  <1>7. ASSUME NEW u \in Users,
               \/ \E m \in ModuleIds, n \in Amounts : BurnUnsponsored(u, m, n)
               \/ \E m \in ModuleIds : RemoveModule(u, m)
               \/ \E s \in SponsorIds, n \in Amounts : ReclaimSponsorship(u, s, n)
               \/ \E s \in SponsorIds : CloseSponsorship(u, s)
               \/ RegisterDeliverer(u) \/ UnregisterDeliverer(u)
               \/ \E b \in BookingIds, kind \in Kinds, r \in Recipients :
                    MintCredential(u, b, kind, r)
               \/ \E c \in cancellations : ClearOldCancellation(u, c)
               \/ \E r \in RoleNames : ChangeRole(u, r)
        PROVE  Step
    BY <1>2, <1>7
       DEF BurnUnsponsored, RemoveModule, ReclaimSponsorship, CloseSponsorship,
           RegisterDeliverer, UnregisterDeliverer, MintCredential, ClearOldCancellation,
           ChangeRole, bookingVars
  <1>8. ASSUME NEW u \in Users,
               \/ \E n \in Amounts : CreateModule(u, n)
               \/ \E m \in ModuleIds, a \in Assets, n \in Amounts : SponsorModule(u, m, a, n)
        PROVE  Step
    <2>1. UNCHANGED bookings /\ next_id'.booking = next_id.booking
      BY <1>0, <1>8 DEF CreateModule, SponsorModule, bookingVars, EInv, TypeOK
    <2> QED BY <1>2, <2>1
  <1>9. ASSUME \/ \E b \in BookingIds : StrayToBookingEscrow(b)
               \/ \E s \in SponsorIds : StrayToSponsorEscrow(s)
               \/ UpdateConfig \/ WithdrawTreasury \/ Tick \/ UNCHANGED vars
        PROVE  Step
    BY <1>2, <1>9 DEF StrayToBookingEscrow, StrayToSponsorEscrow, UpdateConfig,
                      WithdrawTreasury, Tick,
                      vars, bookingVars
  <1>10. Step
    BY <1>3, <1>4, <1>5, <1>6, <1>7, <1>8, <1>9 DEF Next, Changes
  <1> QED BY <1>10 DEF Step

\* Whatever else happens around it, every booking goes through the phases of
\* BookingLifecycle: claimed by someone else than its school, scored once,
\* disputed at most once, its score changed only to the amendment on the table,
\* its payment released once, at settlement, or returned before any score.
THEOREM LifecycleTheorem == Spec => ImplementsLifecycle
  BY RInvInit, RInvStep, LifecycleInit, LifecycleStep, PTL
     DEF Spec, ImplementsLifecycle, Lifecycle!Spec
-----------------------------------------------------------------------------
(* What a booking's end leaves behind.  A closed booking's id is never used  *)
(* again and a settled one keeps its score until it is closed: both are read *)
(* off the lifecycle.                                                        *)

Ended(b) ==
  /\ Phase(b) = "Closed" => Phase(b)' = "Closed"
  /\ Phase(b) = "Settled" => \/ Phase(b)' = "Closed"
                             \/ /\ Phase(b)' = "Settled"
                                /\ OfBooking(b, "score")' = OfBooking(b, "score")

LEMMA EndedStays ==
  ASSUME RInv, [Next]_vars
  PROVE  \A b \in BookingIds : Ended(b)
  <1> DEFINE All == \A b \in BookingIds : Ended(b)
  <1>1. [Lifecycle!Next]_(Lifecycle!vars)
    BY LifecycleStep
  <1>0. ASSUME NEW b \in BookingIds
        PROVE  /\ Phases[b] = Phase(b) /\ Phases'[b] = Phase(b)'
               /\ Column("score")[b] = OfBooking(b, "score")
               /\ Column("score")'[b] = OfBooking(b, "score")'
    BY DEF Phases, Column
  <1>2. ASSUME NEW i \in BookingIds, Ended(i), NEW to, Phases' = [Phases EXCEPT ![i] = to],
               \A b \in BookingIds \ {i} : Column("score")'[b] = Column("score")[b]
        PROVE  All
    <2>1. ASSUME NEW b \in BookingIds, b # i PROVE Ended(b)
      <3>1. Phases'[b] = Phases[b] /\ Column("score")'[b] = Column("score")[b]
        BY <1>2, <2>1 DEF Phases
      <3> QED BY <1>0, <3>1 DEF Ended
    <2> QED BY <1>2, <2>1
  <1>3. ASSUME UNCHANGED Lifecycle!vars PROVE All
    <2>1. ASSUME NEW b \in BookingIds PROVE Ended(b)
      <3>1. /\ [i \in BookingIds |-> Phase(i)]' = [i \in BookingIds |-> Phase(i)]
            /\ [i \in BookingIds |-> OfBooking(i, "score")]' =
                 [i \in BookingIds |-> OfBooking(i, "score")]
        BY <1>3 DEF Lifecycle!vars
      <3>2. Phases' = Phases /\ Column("score")' = Column("score")
        BY <3>1 DEF Phases, Column
      <3> QED BY <1>0, <3>2 DEF Ended
    <2> QED BY <2>1
  <1> HIDE DEF All
  <1>4. ASSUME NEW b \in BookingIds,
               \/ Lifecycle!Book(b) \/ Lifecycle!Claim(b) \/ Lifecycle!GiveUp(b)
               \/ Lifecycle!Dispute(b)
        PROVE  All
    <2>1. UNCHANGED Column("score")
      BY <1>4 DEF Lifecycle!Book, Lifecycle!Claim, Lifecycle!GiveUp, Lifecycle!Dispute, Column
    <2>2. /\ Phases[b] \in {"None", "Open", "Claimed", "Scored"}
          /\ \E to : Phases' = [Phases EXCEPT ![b] = to]
      BY <1>4 DEF Lifecycle!Book, Lifecycle!Claim, Lifecycle!GiveUp, Lifecycle!Dispute,
                  Lifecycle!Move, Phases
    <2>3. Ended(b)
      BY <1>0, <2>2 DEF Ended
    <2> QED BY <1>2, <2>1, <2>2, <2>3
  <1>5. ASSUME NEW b \in BookingIds,
               \/ Lifecycle!Return(b) \/ Lifecycle!Score(b) \/ Lifecycle!Resolve(b)
               \/ Lifecycle!Close(b)
        PROVE  All
    <2>1. \A i \in BookingIds \ {b} : Column("score")'[i] = Column("score")[i]
      BY <1>5 DEF Lifecycle!Return, Lifecycle!Score, Lifecycle!Resolve, Lifecycle!Close,
                  Lifecycle!Forget, Column
    <2>2. /\ \/ Phases[b] \in {"Open", "Claimed", "Disputed"}
             \/ Phases[b] = "Settled" /\ Phases'[b] = "Closed"
          /\ \E to : Phases' = [Phases EXCEPT ![b] = to]
      BY <1>5 DEF Lifecycle!Return, Lifecycle!Score, Lifecycle!Resolve, Lifecycle!Close,
                  Lifecycle!Move, Phases
    <2>3. Ended(b)
      BY <1>0, <2>2 DEF Ended
    <2> QED BY <1>2, <2>1, <2>2, <2>3
  <1>6. ASSUME NEW b \in BookingIds, Lifecycle!Settle(b) PROVE All
    <2>1. /\ UNCHANGED Column("score")
          /\ Phases[b] \in {"Scored", "Disputed", "Resolved"}
          /\ Phases' = [Phases EXCEPT ![b] = "Settled"]
      BY <1>6 DEF Lifecycle!Settle, Lifecycle!Move, Phases, Column
    <2>2. Ended(b)
      BY <1>0, <2>1 DEF Ended
    <2> QED BY <1>2, <2>1, <2>2
  <1>7. All
    BY <1>1, <1>3, <1>4, <1>5, <1>6 DEF Lifecycle!Next
  <1> QED BY <1>7 DEF All
-----------------------------------------------------------------------------
(* Cancellation records.  There is one record per cancelled booking, whose   *)
(* id is never used again: a new record is really new, so the counter        *)
(* follows it.                                                               *)

RecordsOf(u) == {c \in cancellations : c.school = u}

CInv ==
  /\ RInv
  /\ IsFiniteSet(cancellations)
  /\ \A u \in Users : counters[u] = Cardinality(RecordsOf(u))
  /\ \A c \in cancellations : Phase(c.booking) = "Closed"

LEMMA CInvInit == Init => CInv
  <1> SUFFICES ASSUME Init PROVE CInv
    OBVIOUS
  <1>1. RInv /\ cancellations = {} /\ \A u \in Users : counters[u] = 0
    BY RInvInit DEF Init
  <1>2. \A u \in Users : RecordsOf(u) = {}
    BY <1>1 DEF RecordsOf
  <1> QED BY <1>1, <1>2, FS_EmptySet DEF CInv

LEMMA CancelBookingCounted ==
  ASSUME CInv, RInv', NEW u \in Users, NEW b \in BookingIds, CancelBooking(u, b)
  PROVE  /\ IsFiniteSet(cancellations')
         /\ \A v \in Users : counters'[v] = Cardinality(RecordsOf(v))'
         /\ \A c \in cancellations' : c \in cancellations \/ Phase(c.booking)' = "Closed"
  <1> DEFINE new == [school |-> u, booking |-> b, created_at |-> now]
  <1>1. /\ cancellations' = cancellations \cup {new}
        /\ counters' = [counters EXCEPT ![u] = counters[u] + 1]
        /\ bookings[b] # None /\ bookings[b].score = None /\ UNCHANGED next_id /\ ReturnToken(b)
    BY DEF CancelBooking, MayCancelBooking
  <1>2. Base /\ Base' /\ TypeOK
    BY DEF CInv, RInv, Base, EInv
  <1>3. Lifecycle!Return(b)
    BY <1>1, <1>2, ReturnLifecycle
  <1>4. Phases[b] \in {"Open", "Claimed"} /\ Phases' = [Phases EXCEPT ![b] = "Closed"]
    BY <1>3 DEF Lifecycle!Return, Lifecycle!Move, Phases
  <1>5. Phase(b) # "Closed" /\ Phase(b)' = "Closed"
    BY <1>4 DEF Phases
  <1>6. new.booking = b /\ new.school = u
    OBVIOUS
  <1>7. new \notin cancellations
    BY <1>5, <1>6 DEF CInv
  <1> HIDE DEF new
  <1>8. IsFiniteSet(cancellations) /\ IsFiniteSet(cancellations')
    BY <1>1, FS_AddElement DEF CInv
  <1>9. ASSUME NEW v \in Users PROVE counters'[v] = Cardinality(RecordsOf(v))'
    <2>1. IsFiniteSet(RecordsOf(v)) /\ new \notin RecordsOf(v)
      BY <1>7, <1>8, FS_Subset DEF RecordsOf
    <2>2. counters[v] = Cardinality(RecordsOf(v)) /\ counters \in [Users -> Nat]
      BY <1>2 DEF CInv, TypeOK
    <2>3. CASE v = u
      <3>1. RecordsOf(v)' = RecordsOf(v) \cup {new}
        BY <1>1, <1>6, <2>3 DEF RecordsOf
      <3>2. Cardinality(RecordsOf(v)') = Cardinality(RecordsOf(v)) + 1
        BY <2>1, <3>1, FS_AddElement
      <3> QED BY <1>1, <2>2, <2>3, <3>2
    <2>4. CASE v # u
      <3>1. RecordsOf(v)' = RecordsOf(v)
        BY <1>1, <1>6, <2>4 DEF RecordsOf
      <3> QED BY <1>1, <2>2, <2>4, <3>1
    <2> QED BY <2>3, <2>4
  <1> QED BY <1>1, <1>5, <1>6, <1>8, <1>9

LEMMA ClearCounted ==
  ASSUME CInv, NEW u \in Users, NEW c \in cancellations, ClearOldCancellation(u, c)
  PROVE  /\ IsFiniteSet(cancellations')
         /\ \A v \in Users : counters'[v] = Cardinality(RecordsOf(v))'
         /\ cancellations' \subseteq cancellations
  <1>1. /\ cancellations' = cancellations \ {c} /\ c.school = u
        /\ counters' = [counters EXCEPT ![u] = IF @ = 0 THEN 0 ELSE @ - 1]
    BY DEF ClearOldCancellation, Decrement
  <1>2. TypeOK
    BY DEF CInv, RInv, Base, EInv
  <1>3. IsFiniteSet(cancellations) /\ IsFiniteSet(cancellations')
    BY <1>1, FS_Subset DEF CInv
  <1>4. ASSUME NEW v \in Users PROVE counters'[v] = Cardinality(RecordsOf(v))'
    <2>1. IsFiniteSet(RecordsOf(v))
      BY <1>3, FS_Subset DEF RecordsOf
    <2>2. counters[v] = Cardinality(RecordsOf(v)) /\ counters \in [Users -> Nat]
      BY <1>2 DEF CInv, TypeOK
    <2>3. CASE v = u
      <3>1. RecordsOf(v)' = RecordsOf(v) \ {c} /\ c \in RecordsOf(v)
        BY <1>1, <2>3 DEF RecordsOf
      <3>2. Cardinality(RecordsOf(v)') = Cardinality(RecordsOf(v)) - 1
        BY <2>1, <3>1, FS_RemoveElement
      <3>3. Cardinality(RecordsOf(v)) # 0
        BY <2>1, <3>1, FS_EmptySet
      <3>4. counters'[v] = counters[v] - 1
        BY <1>1, <2>2, <2>3, <3>3
      <3> QED BY <2>2, <3>2, <3>4
    <2>4. CASE v # u
      <3>1. RecordsOf(v)' = RecordsOf(v)
        BY <1>1, <2>4 DEF RecordsOf
      <3> QED BY <1>1, <2>2, <2>4, <3>1
    <2> QED BY <2>3, <2>4
  <1> QED BY <1>1, <1>3, <1>4

\* No other instruction writes a cancellation record or a counter.
LEMMA CancelVarsKept ==
  ASSUME [Next]_vars
  PROVE  \/ \E u \in Users, b \in BookingIds : CancelBooking(u, b)
         \/ \E u \in Users : \E c \in cancellations : ClearOldCancellation(u, c)
         \/ UNCHANGED cancelVars
  <1> DEFINE Kept == UNCHANGED cancelVars
             Cancels == \E u \in Users, b \in BookingIds : CancelBooking(u, b)
             Clears == \E u \in Users : \E c \in cancellations : ClearOldCancellation(u, c)
  <1>1. ASSUME NEW u \in Users,
               \/ \E n \in Amounts : CreateModule(u, n)
               \/ \E m \in ModuleIds, n \in Amounts : BurnUnsponsored(u, m, n)
               \/ \E m \in ModuleIds : RemoveModule(u, m)
               \/ \E s \in SponsorIds, n \in Amounts : ReclaimSponsorship(u, s, n)
               \/ \E s \in SponsorIds : CloseSponsorship(u, s)
               \/ RegisterDeliverer(u) \/ UnregisterDeliverer(u)
               \/ \E r \in RoleNames : ChangeRole(u, r)
        PROVE  Kept
    BY <1>1 DEF CreateModule, BurnUnsponsored, RemoveModule, ReclaimSponsorship,
                CloseSponsorship, RegisterDeliverer, UnregisterDeliverer, ChangeRole
  <1>2. ASSUME NEW u \in Users, NEW m \in ModuleIds, NEW a \in Assets, NEW n \in Amounts,
               SponsorModule(u, m, a, n)
        PROVE  Kept
    BY <1>2 DEF SponsorModule
  <1>3. ASSUME NEW u \in Users, NEW s \in SponsorIds,
               NEW t \in now..(now + config.max_delivery_window), BookModule(u, s, t)
        PROVE  Kept
    BY <1>3 DEF BookModule
  <1>4. ASSUME NEW u \in Users, NEW b \in BookingIds,
               \/ ClaimBooking(u, b) \/ CancelClaim(u, b)
               \/ \E score \in Scores : SubmitImpactScore(u, b, score)
                                        \/ DisputeScore(u, b, score)
               \/ \E accept \in BOOLEAN : ResolveDispute(u, b, accept)
               \/ FinalizeScore(u, b)
               \/ \E kind \in Kinds, r \in Recipients : MintCredential(u, b, kind, r)
        PROVE  Kept
    BY <1>4 DEF ClaimBooking, CancelClaim, SubmitImpactScore, DisputeScore, ResolveDispute,
                FinalizeScore, MintCredential
  <1>5. ASSUME \/ \E b \in BookingIds : \/ ExpireBooking(b) \/ FinishBooking(b)
                                        \/ StrayToBookingEscrow(b)
               \/ \E s \in SponsorIds : StrayToSponsorEscrow(s)
               \/ UpdateConfig \/ WithdrawTreasury \/ Tick \/ UNCHANGED vars
        PROVE  Kept
    BY <1>5 DEF ExpireBooking, FinishBooking, StrayToBookingEscrow, StrayToSponsorEscrow,
                UpdateConfig, WithdrawTreasury, Tick, vars
  <1>6. ASSUME NEW u \in Users, NEW b \in BookingIds, CancelBooking(u, b) PROVE Cancels
    BY <1>6
  <1>7. ASSUME NEW u \in Users, NEW c \in cancellations, ClearOldCancellation(u, c)
        PROVE  Clears
    BY <1>7
  <1> HIDE DEF Kept, Cancels, Clears
  <1>8. Kept \/ Cancels \/ Clears
    BY <1>1, <1>2, <1>3, <1>4, <1>5, <1>6, <1>7 DEF Next
  <1> QED BY <1>8 DEF Kept, Cancels, Clears

LEMMA CInvStep == CInv /\ [Next]_vars => CInv'
  <1> SUFFICES ASSUME CInv, [Next]_vars PROVE CInv'
    OBVIOUS
  <1>1. RInv /\ RInv'
    BY RInvStep DEF CInv
  <1>2. ASSUME NEW c \in cancellations PROVE Phase(c.booking)' = "Closed"
    <2>1. PICK b \in BookingIds : b = c.booking
      BY <1>1 DEF RInv, Base, EInv, TypeOK, Cancellation
    <2> QED BY <1>1, <2>1, EndedStays DEF Ended, CInv
  <1>3. CASE \E u \in Users, b \in BookingIds : CancelBooking(u, b)
    BY <1>1, <1>2, <1>3, CancelBookingCounted DEF CInv
  <1>4. CASE \E u \in Users : \E c \in cancellations : ClearOldCancellation(u, c)
    BY <1>1, <1>2, <1>4, ClearCounted DEF CInv
  <1>5. CASE UNCHANGED cancelVars
    <2>1. cancellations' = cancellations /\ counters' = counters
          /\ \A u \in Users : RecordsOf(u)' = RecordsOf(u)
      BY <1>5 DEF cancelVars, RecordsOf
    <2> QED BY <1>1, <1>2, <2>1 DEF CInv
  <1> QED BY <1>3, <1>4, <1>5, CancelVarsKept

\* However many bookings a school cancels and records anyone clears, in any
\* order, its counter is the number of records left.
THEOREM CancellationsTheorem == Spec => []CancellationsCounted
  <1>1. CInv => CancellationsCounted
    BY DEF CInv, CancellationsCounted, RecordsOf
  <1> QED BY <1>1, CInvInit, CInvStep, PTL DEF Spec
-----------------------------------------------------------------------------
(* Credentials attest a final score. *)

KInv ==
  /\ RInv
  /\ \A c \in credentials :
       /\ Phase(c.booking) \in {"Settled", "Closed"}
       /\ Phase(c.booking) = "Settled" => c.score \in {None, OfBooking(c.booking, "score")}
       /\ c.score # None <=> c.kind = "Student"
  /\ \A c, d \in credentials : c.booking = d.booking /\ c.kind = d.kind => c.score = d.score

LEMMA KInvInit == Init => KInv
  BY RInvInit DEF KInv, Init

LEMMA MintKInv ==
  ASSUME KInv, RInv', NEW u \in Users, NEW b \in BookingIds, NEW kind \in Kinds,
         NEW r \in Recipients, MintCredential(u, b, kind, r)
  PROVE  KInv'
  <1>0. PICK new : new = [booking |-> b, kind |-> kind, recipient |-> r,
                          score |-> IF kind = "Student" THEN bookings[b].score ELSE None]
    OBVIOUS
  <1>1. /\ credentials' = credentials \cup {new} /\ bookings[b] # None /\ bookings[b].settled
        /\ UNCHANGED <<bookings, next_id>>
    BY <1>0 DEF MintCredential, Attestable, bookingVars
  <1>2. Base /\ RInv
    BY DEF KInv, RInv
  <1>3. Shape(bookings[b]) /\ ~(b >= next_id.booking)
    BY <1>1, <1>2 DEF Base, Shapes, EInv, Fresh, FreshBooking
  <1>4. bookings[b].score # None
    BY <1>1, <1>3 DEF Shape
  <1>5. Phase(b) = "Settled" /\ OfBooking(b, "score") = bookings[b].score
    BY <1>1, <1>3 DEF Phase, OfBooking
  <1>6. ASSUME NEW i PROVE Phase(i)' = Phase(i) /\ OfBooking(i, "score")' = OfBooking(i, "score")
    BY <1>1 DEF Phase, OfBooking
  <1>7. /\ new.booking = b /\ new.kind = kind
        /\ new.score = IF kind = "Student" THEN bookings[b].score ELSE None
    BY <1>0
  <1>8. ASSUME NEW c \in credentials, c.booking = b, c.kind = kind PROVE c.score = new.score
    BY <1>4, <1>5, <1>7, <1>8 DEF KInv
  <1>9. /\ Phase(new.booking)' \in {"Settled", "Closed"}
        /\ new.score \in {None, OfBooking(new.booking, "score")'}
        /\ new.score # None <=> new.kind = "Student"
    <2>1. Phase(new.booking)' = "Settled"
          /\ OfBooking(new.booking, "score")' = bookings[b].score
      BY <1>5, <1>6, <1>7
    <2>2. new.score \in {None, bookings[b].score}
      BY <1>7
    <2>3. new.score # None <=> new.kind = "Student"
      BY <1>4, <1>7
    <2> QED BY <2>1, <2>2, <2>3
  <1>10. ASSUME NEW c \in credentials'
         PROVE  /\ Phase(c.booking)' \in {"Settled", "Closed"}
                /\ Phase(c.booking)' = "Settled" => c.score \in {None, OfBooking(c.booking, "score")'}
                /\ c.score # None <=> c.kind = "Student"
    <2>1. CASE c = new
      BY <1>9, <2>1
    <2>2. CASE c \in credentials
      <3>1. /\ Phase(c.booking) \in {"Settled", "Closed"}
            /\ Phase(c.booking) = "Settled" => c.score \in {None, OfBooking(c.booking, "score")}
            /\ c.score # None <=> c.kind = "Student"
        BY <2>2 DEF KInv
      <3>2. PICK i : i = c.booking
        OBVIOUS
      <3>3. Phase(i)' = Phase(i) /\ OfBooking(i, "score")' = OfBooking(i, "score")
        BY <1>6
      <3> QED BY <3>1, <3>2, <3>3
    <2> QED BY <1>1, <2>1, <2>2
  <1>11. ASSUME NEW c \in credentials', NEW d \in credentials',
                c.booking = d.booking, c.kind = d.kind
         PROVE  c.score = d.score
    BY <1>1, <1>7, <1>8, <1>11 DEF KInv
  <1> QED BY <1>10, <1>11 DEF KInv

LEMMA CredentialsKept ==
  ASSUME [Next]_vars
  PROVE  \/ \E u \in Users, b \in BookingIds, kind \in Kinds, r \in Recipients :
              MintCredential(u, b, kind, r)
         \/ UNCHANGED credentials
  <1> DEFINE Kept == UNCHANGED credentials
             Mints == \E u \in Users, b \in BookingIds, kind \in Kinds, r \in Recipients :
                        MintCredential(u, b, kind, r)
  <1>1. ASSUME NEW u \in Users,
               \/ \E n \in Amounts : CreateModule(u, n)
               \/ \E m \in ModuleIds, n \in Amounts : BurnUnsponsored(u, m, n)
               \/ \E m \in ModuleIds : RemoveModule(u, m)
               \/ \E s \in SponsorIds, n \in Amounts : ReclaimSponsorship(u, s, n)
               \/ \E s \in SponsorIds : CloseSponsorship(u, s)
               \/ RegisterDeliverer(u) \/ UnregisterDeliverer(u)
               \/ \E c \in cancellations : ClearOldCancellation(u, c)
               \/ \E r \in RoleNames : ChangeRole(u, r)
        PROVE  Kept
    BY <1>1 DEF CreateModule, BurnUnsponsored, RemoveModule, ReclaimSponsorship,
                CloseSponsorship, RegisterDeliverer, UnregisterDeliverer,
                ClearOldCancellation, ChangeRole
  <1>2. ASSUME NEW u \in Users, NEW m \in ModuleIds, NEW a \in Assets, NEW n \in Amounts,
               SponsorModule(u, m, a, n)
        PROVE  Kept
    BY <1>2 DEF SponsorModule
  <1>3. ASSUME NEW u \in Users, NEW s \in SponsorIds,
               NEW t \in now..(now + config.max_delivery_window), BookModule(u, s, t)
        PROVE  Kept
    BY <1>3 DEF BookModule
  <1>4. ASSUME NEW u \in Users, NEW b \in BookingIds,
               \/ ClaimBooking(u, b) \/ CancelClaim(u, b) \/ CancelBooking(u, b)
               \/ \E score \in Scores : SubmitImpactScore(u, b, score)
                                        \/ DisputeScore(u, b, score)
               \/ \E accept \in BOOLEAN : ResolveDispute(u, b, accept)
               \/ FinalizeScore(u, b)
        PROVE  Kept
    BY <1>4 DEF ClaimBooking, CancelClaim, CancelBooking, SubmitImpactScore, DisputeScore,
                ResolveDispute, FinalizeScore
  <1>5. ASSUME \/ \E b \in BookingIds : \/ ExpireBooking(b) \/ FinishBooking(b)
                                        \/ StrayToBookingEscrow(b)
               \/ \E s \in SponsorIds : StrayToSponsorEscrow(s)
               \/ UpdateConfig \/ WithdrawTreasury \/ Tick \/ UNCHANGED vars
        PROVE  Kept
    BY <1>5 DEF ExpireBooking, FinishBooking, StrayToBookingEscrow, StrayToSponsorEscrow,
                UpdateConfig, WithdrawTreasury, Tick, vars
  <1>6. ASSUME NEW u \in Users, NEW b \in BookingIds, NEW kind \in Kinds, NEW r \in Recipients,
               MintCredential(u, b, kind, r)
        PROVE  Mints
    BY <1>6
  <1> HIDE DEF Kept, Mints
  <1>7. Kept \/ Mints
    BY <1>1, <1>2, <1>3, <1>4, <1>5, <1>6 DEF Next
  <1> QED BY <1>7 DEF Kept, Mints

LEMMA KInvStep == KInv /\ [Next]_vars => KInv'
  <1> SUFFICES ASSUME KInv, [Next]_vars PROVE KInv'
    OBVIOUS
  <1>1. RInv /\ RInv'
    BY RInvStep DEF KInv
  <1>2. CASE \E u \in Users, b \in BookingIds, kind \in Kinds, r \in Recipients :
               MintCredential(u, b, kind, r)
    BY <1>1, <1>2, MintKInv DEF KInv
  <1>3. CASE UNCHANGED credentials
    <2>1. ASSUME NEW c \in credentials
          PROVE  /\ Phase(c.booking)' \in {"Settled", "Closed"}
                 /\ Phase(c.booking)' = "Settled" =>
                      c.score \in {None, OfBooking(c.booking, "score")'}
      <3>1. PICK b \in BookingIds : b = c.booking
        BY <1>1 DEF RInv, Base, EInv, TypeOK, Credential
      <3>2. Ended(b)
        BY <1>1, EndedStays
      <3> QED BY <3>1, <3>2 DEF Ended, KInv
    <2> QED BY <1>1, <1>3, <2>1 DEF KInv
  <1> QED BY <1>2, <1>3, CredentialsKept

LEMMA KInvAgree == KInv => CredentialsAgree
  <1> SUFFICES ASSUME KInv PROVE CredentialsAgree
    OBVIOUS
  <1>1. ASSUME NEW c \in credentials, bookings[c.booking] # None
        PROVE  /\ bookings[c.booking].settled
               /\ c.score \in {None, bookings[c.booking].score}
    <2>1. PICK b \in BookingIds : b = c.booking
      BY DEF KInv, RInv, Base, EInv, TypeOK, Credential
    <2>2. Phase(b) \in {"Settled", "Closed"}
      BY <2>1 DEF KInv
    <2>3. Phase(b) = "Settled" /\ bookings[b].settled
      BY <1>1, <2>1, <2>2 DEF Phase
    <2>4. c.score \in {None, OfBooking(b, "score")}
      BY <2>1, <2>3 DEF KInv
    <2> QED BY <1>1, <2>1, <2>3, <2>4 DEF OfBooking
  <1> QED BY <1>1 DEF CredentialsAgree, KInv

\* Whenever a booking is scored, disputed, settled and closed between two mints,
\* the credentials of its students carry one score, the one it settled at.
THEOREM CredentialsTheorem == Spec => []CredentialsAgree
  BY KInvInit, KInvStep, KInvAgree, PTL DEF Spec
-----------------------------------------------------------------------------
(* Claims are backed by the deposit.  An authority that raises the deposit   *)
(* or the slash leaves earlier claims underbacked (the code re-checks only   *)
(* new claims), so this is a fact about steps that keep the parameters.      *)

Backs(u) == deliverers[u] # None =>
  deliverers[u].deposit >= slash_per_strike * deliverers[u].active_claims

QInv == TypeOK /\ \A u \in Users : Backs(u)

\* One claim fewer needs no more, and one slash less.
LEMMA FewerClaims ==
  ASSUME NEW x \in Nat, NEW n \in Nat, n >= 1
  PROVE  x * (n - 1) = x * n - x /\ x * n \in Nat
  BY ProductNat

LEMMA OneBacks ==
  ASSUME QInv, TypeOK', NEW u \in Users, slash_per_strike' = slash_per_strike,
         Backs(u)', \A v \in Users \ {u} : deliverers'[v] = deliverers[v]
  PROVE  QInv'
  BY DEF QInv, Backs

LEMMA FewerBacked ==
  ASSUME QInv, TypeOK', NEW u \in Users, slash_per_strike' = slash_per_strike,
         deliverers[u] \in Deliverer, deliverers'[u] \in Deliverer,
         deliverers[u].active_claims >= 1,
         deliverers'[u].active_claims = deliverers[u].active_claims - 1,
         NEW slash \in Nat, slash <= slash_per_strike,
         deliverers'[u].deposit = deliverers[u].deposit - slash,
         \A v \in Users \ {u} : deliverers'[v] = deliverers[v]
  PROVE  QInv'
  <1>1. /\ deliverers[u].active_claims \in Nat /\ deliverers[u].deposit \in Nat
        /\ slash_per_strike \in Nat
    BY SlashNat DEF QInv, Deliverer
  <1>2. deliverers[u].deposit >= slash_per_strike * deliverers[u].active_claims
    BY NoneAssumption DEF QInv, Backs
  <1>3. /\ slash_per_strike * (deliverers[u].active_claims - 1)
             = slash_per_strike * deliverers[u].active_claims - slash_per_strike
        /\ slash_per_strike * deliverers[u].active_claims \in Nat
    BY <1>1, FewerClaims
  <1>4. deliverers'[u].deposit >= slash_per_strike * (deliverers[u].active_claims - 1)
    BY <1>1, <1>2, <1>3
  <1>5. Backs(u)'
    BY <1>4 DEF Backs
  <1> QED BY <1>5, OneBacks

LEMMA QInvInit == Init => QInv
  BY InitOK DEF QInv, Backs, Init

LEMMA QInvStep == QInv /\ [Next]_vars /\ config' = config => QInv'
  <1> SUFFICES ASSUME QInv, [Next]_vars, config' = config PROVE QInv'
    OBVIOUS
  <1>0. TypeOK /\ TypeOK' /\ slash_per_strike' = slash_per_strike
    BY StepOK DEF QInv, slash_per_strike
  <1>1. ASSUME UNCHANGED deliverers PROVE QInv'
    BY <1>0, <1>1 DEF QInv, Backs
  <1>2. ASSUME NEW u \in Users, RegisterDeliverer(u) PROVE QInv'
    <2>1. PICK more \in Nat :
            deliverers'[u].deposit =
              (IF deliverers[u] = None THEN 0 ELSE deliverers[u].deposit) + more
      BY <1>0, <1>2, RegisterMoves
    <2>2. /\ deliverers'[u] \in Deliverer /\ deliverers'[u].active_claims = ClaimsHeld(u)
          /\ \A v \in Users \ {u} : deliverers'[v] = deliverers[v]
      BY <1>0, <1>2, RegisterMoves
    <2>3. slash_per_strike \in Nat
      BY <1>0, SlashNat
    <2>4. deliverers'[u].deposit >= slash_per_strike * ClaimsHeld(u)
      <3>1. CASE deliverers[u] = None
        <4>1. ClaimsHeld(u) = 0 /\ slash_per_strike * 0 = 0
          BY <2>3, <3>1 DEF ClaimsHeld
        <4> QED BY <2>1, <3>1, <4>1
      <3>2. CASE deliverers[u] # None
        <4>1. /\ deliverers[u] \in Deliverer /\ ClaimsHeld(u) = deliverers[u].active_claims
              /\ deliverers[u].deposit >= slash_per_strike * ClaimsHeld(u)
          BY <1>0, <3>2 DEF TypeOK, ClaimsHeld, QInv, Backs
        <4>2. deliverers[u].deposit \in Nat /\ slash_per_strike * ClaimsHeld(u) \in Nat
          BY <2>3, <4>1, ProductNat DEF Deliverer
        <4> QED BY <2>1, <3>2, <4>1, <4>2
      <3> QED BY <3>1, <3>2
    <2>5. Backs(u)'
      BY <1>0, <2>2, <2>4 DEF Backs
    <2> QED BY <1>0, <2>2, <2>5, OneBacks
  <1>3. ASSUME NEW u \in Users, UnregisterDeliverer(u) PROVE QInv'
    <2>1. deliverers'[u] = None /\ \A v \in Users \ {u} : deliverers'[v] = deliverers[v]
      BY <1>0, <1>3 DEF UnregisterDeliverer, TypeOK
    <2> QED BY <1>0, <2>1, OneBacks DEF Backs
  <1>4. ASSUME NEW u \in Users, NEW b \in BookingIds, ClaimBooking(u, b) PROVE QInv'
    <2>1. deliverers[u].deposit >= slash_per_strike * (deliverers[u].active_claims + 1)
      BY <1>4 DEF ClaimBooking, BacksOneMore
    <2>2. Backs(u)'
      BY <1>0, <1>4, <2>1, ClaimDeliverer DEF Backs
    <2> QED BY <1>0, <1>4, <2>2, ClaimDeliverer, OneBacks
  <1>5. ASSUME NEW u \in Users, NEW b \in BookingIds, CancelClaim(u, b) PROVE QInv'
    <2>1. PICK slash \in Nat : /\ slash <= slash_per_strike
                               /\ deliverers'[u].deposit = deliverers[u].deposit - slash
      BY <1>0, <1>5, CancelClaimDeliverer
    <2> QED BY <1>0, <1>5, <2>1, CancelClaimDeliverer, FewerBacked
  <1>6. ASSUME NEW b \in BookingIds,
               \/ \E u \in Users : CancelBooking(u, b)
               \/ ExpireBooking(b)
        PROVE  QInv'
    <2>1. bookings[b] # None /\ ReturnToken(b)
      BY <1>6 DEF CancelBooking, MayCancelBooking, ExpireBooking, MayExpireBooking
    <2>2. CASE bookings[b].lecturer = None
      BY <1>0, <1>1, <2>1, <2>2, ReturnTokenMoves
    <2>3. CASE bookings[b].lecturer # None
      <3>1. PICK v \in Users : v = bookings[b].lecturer
        BY <1>0, <2>1, <2>3 DEF TypeOK, Booking
      <3>2. /\ deliverers[v] \in Deliverer /\ deliverers'[v] \in Deliverer
            /\ deliverers'[v].active_claims = deliverers[v].active_claims - 1
            /\ deliverers'[v].deposit = deliverers[v].deposit
            /\ \A i \in Users \ {v} : deliverers'[i] = deliverers[i]
        BY <1>0, <2>1, <2>3, <3>1, ReturnTokenMoves
      <3>3. /\ deliverers[v].active_claims >= 1
            /\ deliverers'[v].deposit = deliverers[v].deposit - 0
            /\ 0 <= slash_per_strike
        BY <1>0, <3>2, SlashNat DEF Deliverer
      <3> QED BY <1>0, <3>2, <3>3, FewerBacked
    <2> QED BY <2>2, <2>3
  <1>7. ASSUME NEW u \in Users, NEW b \in BookingIds, FinalizeScore(u, b) PROVE QInv'
    <2>1. PICK v \in Users : v = bookings[b].lecturer
      BY <1>0, <1>7, FinalizeScoreMoves, Zenon
    <2>2. /\ deliverers[v] \in Deliverer /\ deliverers'[v] \in Deliverer
          /\ deliverers[v].active_claims >= 1
          /\ deliverers'[v].active_claims = deliverers[v].active_claims - 1
          /\ deliverers'[v].deposit = deliverers[v].deposit
          /\ \A i \in Users \ {v} : deliverers'[i] = deliverers[i]
      BY <1>0, <1>7, <2>1, FinalizeScoreMoves, Zenon
    <2>3. deliverers'[v].deposit = deliverers[v].deposit - 0 /\ 0 <= slash_per_strike
      BY <1>0, <2>2, SlashNat DEF Deliverer
    <2> QED BY <1>0, <2>2, <2>3, FewerBacked
  <1>8. ASSUME NEW u \in Users,
               \/ \E n \in Amounts : CreateModule(u, n)
               \/ \E m \in ModuleIds, n \in Amounts : BurnUnsponsored(u, m, n)
               \/ \E m \in ModuleIds : RemoveModule(u, m)
               \/ \E s \in SponsorIds, n \in Amounts : ReclaimSponsorship(u, s, n)
               \/ \E s \in SponsorIds : CloseSponsorship(u, s)
               \/ \E c \in cancellations : ClearOldCancellation(u, c)
               \/ \E r \in RoleNames : ChangeRole(u, r)
        PROVE  QInv'
    BY <1>1, <1>8 DEF CreateModule, BurnUnsponsored, RemoveModule, ReclaimSponsorship,
                      CloseSponsorship, ClearOldCancellation, ChangeRole
  <1>9. ASSUME NEW u \in Users, NEW m \in ModuleIds, NEW a \in Assets, NEW n \in Amounts,
               SponsorModule(u, m, a, n)
        PROVE  QInv'
    BY <1>1, <1>9 DEF SponsorModule
  <1>10. ASSUME NEW u \in Users, NEW s \in SponsorIds,
                NEW t \in now..(now + config.max_delivery_window), BookModule(u, s, t)
         PROVE  QInv'
    BY <1>1, <1>10 DEF BookModule
  <1>11. ASSUME NEW u \in Users, NEW b \in BookingIds,
                \/ \E score \in Scores : SubmitImpactScore(u, b, score)
                                         \/ DisputeScore(u, b, score)
                \/ \E accept \in BOOLEAN : ResolveDispute(u, b, accept)
                \/ \E kind \in Kinds, r \in Recipients : MintCredential(u, b, kind, r)
         PROVE  QInv'
    BY <1>1, <1>11 DEF SubmitImpactScore, DisputeScore, ResolveDispute, MintCredential
  <1>12. ASSUME \/ \E b \in BookingIds : FinishBooking(b) \/ StrayToBookingEscrow(b)
                \/ \E s \in SponsorIds : StrayToSponsorEscrow(s)
                \/ UpdateConfig \/ WithdrawTreasury \/ Tick \/ UNCHANGED vars
         PROVE  QInv'
    BY <1>1, <1>12 DEF FinishBooking, StrayToBookingEscrow, StrayToSponsorEscrow,
                       UpdateConfig, WithdrawTreasury, Tick, vars
  <1> DEFINE Goal == QInv'
  <1> HIDE DEF Goal
  <1>13. Goal
    BY <1>2, <1>3, <1>4, <1>5, <1>6, <1>7, <1>8, <1>9, <1>10, <1>11, <1>12 DEF Next, Goal
  <1> QED BY <1>13 DEF Goal

\* While the authority leaves the parameters alone, a lecturer's deposit covers a
\* slash for each claim, through any claims, slashes, top-ups and settlements.
THEOREM BackingTheorem == Spec /\ [][config' = config]_vars => []ClaimsBacked
  <1>1. QInv => ClaimsBacked
    BY DEF QInv, Backs, ClaimsBacked
  <1>2. QInv /\ [Next]_vars /\ [config' = config]_vars => QInv'
    BY QInvStep DEF vars, envVars
  <1> QED BY <1>1, <1>2, QInvInit, PTL DEF Spec
-----------------------------------------------------------------------------
(* No crank ever reverts.  A live booking has everything a crank looks up:   *)
(* its accounts are open and counted (Ledger), its payment is in its escrow  *)
(* (EInv), its deposit in the vault (Solvent), and the arithmetic of the     *)
(* settlement was in range when the price was accepted (Sold).               *)

\* A module's terms are those it was created with.
TermsKept(m) == modules'[m] # None =>
  modules[m] # None /\ modules'[m].terms = modules[m].terms

LEMMA OneModuleTerms ==
  ASSUME TypeOK, NEW m \in ModuleIds, NEW r, modules' = [modules EXCEPT ![m] = r],
         r # None => modules[m] # None /\ r.terms = modules[m].terms
  PROVE  \A i \in ModuleIds : TermsKept(i)
  <1> SUFFICES ASSUME NEW i \in ModuleIds PROVE TermsKept(i)
    OBVIOUS
  <1>1. modules'[i] = IF i = m THEN r ELSE modules[i]
    BY DEF TypeOK
  <1> QED BY <1>1 DEF TermsKept

LEMMA TermsStep ==
  ASSUME TypeOK, TypeOK', [Next]_vars
  PROVE  \/ \E u \in Users, n \in Amounts : CreateModule(u, n)
         \/ next_id'.module = next_id.module /\ \A m \in ModuleIds : TermsKept(m)
  <1> DEFINE Kept == next_id'.module = next_id.module /\ \A m \in ModuleIds : TermsKept(m)
             Creates == \E u \in Users, n \in Amounts : CreateModule(u, n)
  <1>1. ASSUME NEW u \in Users, NEW n \in Amounts, CreateModule(u, n) PROVE Creates
    BY <1>1
  <1>2. ASSUME next_id'.module = next_id.module, modules' = modules PROVE Kept
    BY <1>2 DEF TermsKept
  <1>3. ASSUME NEW m \in ModuleIds, next_id'.module = next_id.module, NEW r,
               modules' = [modules EXCEPT ![m] = r], modules[m] # None,
               r = None \/ r.terms = modules[m].terms
        PROVE  Kept
    BY <1>3, OneModuleTerms
  <1>4. ASSUME NEW u \in Users, NEW m \in ModuleIds,
               \/ \E a \in Assets, n \in Amounts : SponsorModule(u, m, a, n)
               \/ \E n \in Amounts : BurnUnsponsored(u, m, n)
               \/ RemoveModule(u, m)
        PROVE  Kept
    <2>1. /\ next_id'.module = next_id.module /\ modules[m] # None
          /\ modules[m] \in Module
      BY <1>4 DEF SponsorModule, BurnUnsponsored, RemoveModule, TypeOK
    <2>2. ASSUME NEW a \in Assets, NEW n \in Amounts, SponsorModule(u, m, a, n) PROVE Kept
      <3>1. modules' = [modules EXCEPT ![m] = [modules[m] EXCEPT !.sponsor_allocation = @ - n,
                                                                 !.school_allocation = @ + n]]
        BY <2>2 DEF SponsorModule, TypeOK
      <3>2. [modules[m] EXCEPT !.sponsor_allocation = @ - n,
                               !.school_allocation = @ + n].terms = modules[m].terms
        BY <2>1 DEF Module
      <3> QED BY <1>3, <2>1, <3>1, <3>2
    <2>3. ASSUME NEW n \in Amounts, BurnUnsponsored(u, m, n) PROVE Kept
      <3>1. modules' = [modules EXCEPT ![m] = [modules[m] EXCEPT !.sponsor_allocation = @ - n]]
        BY <2>3 DEF BurnUnsponsored, TypeOK
      <3>2. [modules[m] EXCEPT !.sponsor_allocation = @ - n].terms = modules[m].terms
        BY <2>1 DEF Module
      <3> QED BY <1>3, <2>1, <3>1, <3>2
    <2>4. ASSUME RemoveModule(u, m) PROVE Kept
      BY <1>3, <2>1, <2>4 DEF RemoveModule
    <2> QED BY <1>4, <2>2, <2>3, <2>4
  <1>5. ASSUME NEW u \in Users, NEW s \in SponsorIds,
               \/ \E n \in Amounts : ReclaimSponsorship(u, s, n)
               \/ \E t \in now..(now + config.max_delivery_window) : BookModule(u, s, t)
        PROVE  Kept
    <2> DEFINE m == sponsorships[s].module
    <2>1. /\ next_id'.module = next_id.module /\ modules[m] # None
          /\ m \in ModuleIds /\ modules[m] \in Module
      BY <1>5 DEF ReclaimSponsorship, BookModule, TypeOK, Sponsorship
    <2>2. ASSUME NEW n \in Amounts, ReclaimSponsorship(u, s, n) PROVE Kept
      <3>1. modules' = [modules EXCEPT ![m] = [modules[m] EXCEPT !.school_allocation = @ - n,
                                                                 !.sponsor_allocation = @ + n]]
        BY <2>1, <2>2 DEF ReclaimSponsorship, TypeOK
      <3>2. [modules[m] EXCEPT !.school_allocation = @ - n,
                               !.sponsor_allocation = @ + n].terms = modules[m].terms
        BY <2>1 DEF Module
      <3> QED BY <1>3, <2>1, <3>1, <3>2
    <2>3. ASSUME NEW t \in now..(now + config.max_delivery_window), BookModule(u, s, t)
          PROVE  Kept
      <3>1. modules' = [modules EXCEPT ![m] = [modules[m] EXCEPT !.school_allocation = @ - 1,
                                                                 !.student_allocation = @ + 1]]
        BY <2>1, <2>3 DEF BookModule, TypeOK
      <3>2. [modules[m] EXCEPT !.school_allocation = @ - 1,
                               !.student_allocation = @ + 1].terms = modules[m].terms
        BY <2>1 DEF Module
      <3> QED BY <1>3, <2>1, <3>1, <3>2
    <2> QED BY <1>5, <2>2, <2>3
  <1>6. ASSUME NEW b \in BookingIds,
               \/ \E u \in Users : ClaimBooking(u, b) \/ CancelClaim(u, b)
                                     \/ CancelBooking(u, b)
               \/ ExpireBooking(b)
        PROVE  Kept
    <2> DEFINE m == bookings[b].module
    <2>1. bookings[b] # None /\ modules[m] # None
      BY <1>6 DEF ClaimBooking, CancelClaim, CancelBooking, MayCancelBooking,
                  ExpireBooking, MayExpireBooking, MayReturnToken
    <2>2. m \in ModuleIds /\ modules[m] \in Module
      BY <2>1 DEF TypeOK, Booking
    <2>3. next_id'.module = next_id.module
      BY <1>6 DEF ClaimBooking, CancelClaim, CancelBooking, ExpireBooking
    <2>4. ASSUME NEW u \in Users, ClaimBooking(u, b) PROVE Kept
      <3>1. modules' = [modules EXCEPT ![m] =
              [modules[m] EXCEPT !.student_allocation = @ - 1]]
        BY <2>2, <2>4 DEF ClaimBooking, TypeOK
      <3>2. [modules[m] EXCEPT !.student_allocation = @ - 1].terms = modules[m].terms
        BY <2>2 DEF Module
      <3> QED BY <1>3, <2>1, <2>2, <2>3, <3>1, <3>2
    <2>5. ASSUME NEW u \in Users, CancelClaim(u, b) PROVE Kept
      <3>1. modules' = [modules EXCEPT ![m] =
              [modules[m] EXCEPT !.student_allocation = @ + 1]]
        BY <2>2, <2>5 DEF CancelClaim, TypeOK
      <3>2. [modules[m] EXCEPT !.student_allocation = @ + 1].terms = modules[m].terms
        BY <2>2 DEF Module
      <3> QED BY <1>3, <2>1, <2>2, <2>3, <3>1, <3>2
    <2>6. ASSUME ReturnToken(b) PROVE Kept
      <3>1. modules' = [modules EXCEPT ![m] =
              ModuleAfterReturn(modules[m], bookings[b].lecturer # None)]
        BY <2>2, <2>6 DEF ReturnToken, TypeOK
      <3>2. ModuleAfterReturn(modules[m], bookings[b].lecturer # None).terms
              = modules[m].terms
        BY <2>2 DEF Module, ModuleAfterReturn
      <3> QED BY <1>3, <2>1, <2>2, <2>3, <3>1, <3>2
    <2> QED BY <1>6, <2>4, <2>5, <2>6 DEF CancelBooking, ExpireBooking
  <1>7. ASSUME NEW u \in Users, NEW b \in BookingIds,
               \/ \E score \in Scores : SubmitImpactScore(u, b, score)
                                        \/ DisputeScore(u, b, score)
               \/ \E accept \in BOOLEAN : ResolveDispute(u, b, accept)
               \/ FinalizeScore(u, b)
               \/ \E kind \in Kinds, r \in Recipients : MintCredential(u, b, kind, r)
        PROVE  Kept
    BY <1>2, <1>7 DEF SubmitImpactScore, DisputeScore, ResolveDispute, FinalizeScore,
                      MintCredential, moduleVars
  <1>8. ASSUME NEW u \in Users,
               \/ \E s \in SponsorIds : CloseSponsorship(u, s)
               \/ RegisterDeliverer(u) \/ UnregisterDeliverer(u)
               \/ \E c \in cancellations : ClearOldCancellation(u, c)
               \/ \E r \in RoleNames : ChangeRole(u, r)
        PROVE  Kept
    BY <1>2, <1>8 DEF CloseSponsorship, RegisterDeliverer, UnregisterDeliverer,
                      ClearOldCancellation, ChangeRole, moduleVars
  <1>9. ASSUME \/ \E b \in BookingIds : FinishBooking(b) \/ StrayToBookingEscrow(b)
               \/ \E s \in SponsorIds : StrayToSponsorEscrow(s)
               \/ UpdateConfig \/ WithdrawTreasury \/ Tick \/ UNCHANGED vars
        PROVE  Kept
    BY <1>2, <1>9 DEF FinishBooking, StrayToBookingEscrow, StrayToSponsorEscrow,
                      UpdateConfig, WithdrawTreasury, Tick, vars, moduleVars
  <1> HIDE DEF Kept, Creates
  <1>10. Creates \/ Kept
    BY <1>1, <1>4, <1>5, <1>6, <1>7, <1>8, <1>9 DEF Next
  <1> QED BY <1>10 DEF Creates, Kept

\* A sponsorship's module was created before it, and while the module is open
\* its terms give the price the sponsorship was opened at, in range.
SoldAt(s) == sponsorships[s] # None =>
  LET p == sponsorships[s]
      terms == modules[p.module].terms
  IN  /\ p.module < next_id.module
      /\ modules[p.module] # None =>
           /\ PriceFits(terms, Decimals[p.asset])
           /\ p.price_per_token = price_per_token(terms, Decimals[p.asset])

Sold == \A s \in SponsorIds : SoldAt(s)

LEMMA SoldStep ==
  ASSUME TypeOK, TypeOK', FreshModules, Sold, [Next]_vars
  PROVE  Sold'
  <1>1. ASSUME NEW u \in Users, NEW m \in ModuleIds, NEW a \in Assets, NEW n \in Amounts,
               SponsorModule(u, m, a, n)
        PROVE  Sold'
    <2> DEFINE price == price_per_token(modules[m].terms, Decimals[a])
               fits == PriceFits(modules[m].terms, Decimals[a])
    <2>1. /\ modules[m] # None /\ modules[m] \in Module /\ fits
          /\ next_id.module \in Nat /\ next_id'.module = next_id.module
      BY <1>1 DEF TypeOK, SponsorModule
    <2>2. m < next_id.module
      BY <2>1 DEF FreshModules, ModuleIds
    <2>3. ModuleMoves(m, 0 - n, n, 0)
      BY <1>1, SponsorModuleMoves
    <2>4. \A i \in ModuleIds : TermsKept(i)
      <3>1. modules' = [modules EXCEPT ![m] = [modules[m] EXCEPT !.sponsor_allocation = @ - n,
                                                                 !.school_allocation = @ + n]]
        BY <1>1 DEF SponsorModule, TypeOK
      <3>2. [modules[m] EXCEPT !.sponsor_allocation = @ - n,
                               !.school_allocation = @ + n].terms = modules[m].terms
        BY <2>1 DEF Module
      <3> QED BY <2>1, <3>1, <3>2, OneModuleTerms
    <2>5. sponsorships' = [sponsorships EXCEPT ![next_id.sponsor] =
            [module |-> m, sponsor |-> u, asset |-> a, amount |-> n,
             active_bookings |-> 0, price_per_token |-> price, sponsored_at |-> now]]
      BY <1>1 DEF SponsorModule
    <2> HIDE DEF price
    <2>6. ASSUME NEW s \in SponsorIds, s = next_id.sponsor PROVE SoldAt(s)'
      <3>1. /\ sponsorships'[s].module = m /\ sponsorships'[s].asset = a
            /\ sponsorships'[s].price_per_token = price
        BY <2>5, <2>6 DEF TypeOK
      <3>2. modules'[m] # None => modules'[m].terms = modules[m].terms
        BY <2>4 DEF TermsKept
      <3> QED BY <2>1, <2>2, <3>1, <3>2 DEF SoldAt, price
    <2>7. ASSUME NEW s \in SponsorIds, s # next_id.sponsor PROVE SoldAt(s)'
      <3> SUFFICES ASSUME sponsorships'[s] # None PROVE SoldAt(s)'
        BY DEF SoldAt
      <3>1. sponsorships'[s] = sponsorships[s] /\ sponsorships[s].module \in ModuleIds
        BY <2>5, <2>7 DEF TypeOK, Sponsorship
      <3>2. SoldAt(s) /\ TermsKept(sponsorships[s].module)
        BY <2>4, <3>1 DEF Sold
      <3> QED BY <2>1, <3>1, <3>2 DEF SoldAt, TermsKept
    <2> QED BY <2>6, <2>7 DEF Sold
  <1>2. ASSUME \A s \in SponsorIds : OfferKept(s),
               next_id'.module = next_id.module, \A m \in ModuleIds : TermsKept(m)
        PROVE  Sold'
    <2> SUFFICES ASSUME NEW s \in SponsorIds, sponsorships'[s] # None PROVE SoldAt(s)'
      BY DEF Sold, SoldAt
    <2>1. OfferKept(s) /\ SoldAt(s)
      BY <1>2 DEF Sold
    <2>2. sponsorships[s] # None /\ sponsorships[s].module \in ModuleIds
      BY <2>1 DEF OfferKept, TypeOK, Sponsorship
    <2>3. TermsKept(sponsorships[s].module)
      BY <1>2, <2>2
    <2> QED BY <1>2, <2>1, <2>2, <2>3 DEF SoldAt, OfferKept, TermsKept
  <1>3. ASSUME NEW u \in Users, NEW n \in Amounts, CreateModule(u, n) PROVE Sold'
    <2>1. /\ next_id'.module = next_id.module + 1 /\ next_id.module \in Nat
          /\ \A i \in ModuleIds \ {next_id.module} : modules'[i] = modules[i]
          /\ sponsorships' = sponsorships
      BY <1>3 DEF CreateModule, TypeOK, sponsorVars
    <2> SUFFICES ASSUME NEW s \in SponsorIds, sponsorships[s] # None PROVE SoldAt(s)'
      BY <2>1 DEF Sold, SoldAt
    <2>2. SoldAt(s) /\ sponsorships[s].module \in ModuleIds
      BY DEF Sold, TypeOK, Sponsorship
    <2>3. sponsorships[s].module < next_id.module /\ sponsorships[s].module \in Nat
      BY <2>2 DEF SoldAt, ModuleIds
    <2>4. modules'[sponsorships[s].module] = modules[sponsorships[s].module]
      BY <2>1, <2>2, <2>3
    <2>5. sponsorships[s].module < next_id'.module
      BY <2>1, <2>3
    <2> QED BY <2>1, <2>2, <2>4, <2>5 DEF SoldAt
  <1> QED BY <1>1, <1>2, <1>3, OffersKept, TermsStep

\* A set of bookings with a member counts at least one.
LEMMA CountsOne ==
  ASSUME NEW T \in SUBSET BookingIds, NEW b \in T
  PROVE  Cardinality(T) >= 1
  <1>1. IsFiniteSet(T) /\ Cardinality(T) \in Nat
    BY BookingsFinite
  <1>2. Cardinality(T) # 0
    BY <1>1, FS_EmptySet
  <1> QED BY <1>1, <1>2

\* The vault covers the deposit of every live booking.
LEMMA DepositCovered ==
  ASSUME TypeOK, Surplus >= 0, NEW b \in LiveBookings
  PROVE  vault >= bookings[b].deposit
  <1>1. b \in BookingIds /\ bookings[b] # None
    BY DEF LiveBookings
  <1>2. Deposits(bookings)[b] = bookings[b].deposit
    BY <1>1, DepositOf
  <1>3. DepositsTyped
    BY DepositsNat
  <1>4. BookingDeposits >= Deposits(bookings)[b]
    BY <1>1, <1>3, IdsFinite, SumBounds DEF DepositsTyped
  <1>5. /\ ModuleDeposits \in Nat /\ BookingDeposits \in Nat
        /\ DelivererDeposits \in Nat /\ bookings[b].deposit \in Nat
    BY <1>1, <1>3 DEF DepositsTyped, TypeOK, Booking
  <1>6. vault \in Nat /\ vault - ModuleDeposits - BookingDeposits - DelivererDeposits >= 0
    BY <1>3 DEF Surplus, DepositsTyped
  <1> QED BY <1>2, <1>4, <1>5, <1>6

CrankInv == BInv /\ Surplus >= 0 /\ Sold

\* What a crank finds of a live booking.
Ready(b) ==
  LET k == bookings[b]
      s == k.sponsorship
      m == k.module
      d == k.lecturer
  IN  /\ k \in Booking /\ Shape(k)
      /\ vault >= k.deposit
      /\ booking_escrow[b] # None /\ sponsor_escrow[s] # None
      /\ sponsorships[s] # None /\ sponsorships[s].active_bookings >= 1
      /\ ~k.settled =>
           /\ booking_escrow[b] >= k.price_per_token
           /\ modules[m] # None
           /\ PriceFits(modules[m].terms, Decimals[k.asset])
           /\ k.price_per_token = price_per_token(modules[m].terms, Decimals[k.asset])
           /\ d = None => modules[m].student_allocation >= 1
           /\ d # None => /\ deliverers[d] # None /\ deliverers[d].active_claims >= 1
                          /\ module_vault[m] >= 1

LEMMA AllReady ==
  ASSUME CrankInv, NEW b \in LiveBookings
  PROVE  Ready(b)
  <1>0. /\ TypeOK /\ Ledger /\ Shapes /\ Sold /\ Surplus >= 0
        /\ \A s \in SponsorIds : SponsorExact(s)
        /\ BookingExact(b)
    BY DEF CrankInv, BInv, LInv, Base, EInv, LiveBookings
  <1>1. b \in BookingIds /\ bookings[b] # None
    BY DEF LiveBookings
  <1>2. PICK k \in Booking : k = bookings[b]
    BY <1>0, <1>1 DEF TypeOK
  <1>3. PICK s \in SponsorIds : s = k.sponsorship
    BY <1>2 DEF Booking
  <1>4. PICK m \in ModuleIds : m = k.module
    BY <1>2 DEF Booking
  <1>5. /\ sponsorships[s] # None
        /\ sponsorships[s].module = m /\ sponsorships[s].asset = k.asset
        /\ sponsorships[s].price_per_token = k.price_per_token
        /\ ~k.settled => modules[m] # None
    <2>1. BookingsBacked
      BY BInvBacked DEF CrankInv
    <2> QED BY <1>2, <1>3, <1>4, <2>1 DEF BookingsBacked
  <1>6. sponsorships[s].active_bookings >= 1
    <2>1. Active(s) = Cardinality(BookingsOf(s))
      BY <1>0 DEF Ledger
    <2>2. BookingsOf(s) \in SUBSET BookingIds /\ b \in BookingsOf(s)
      BY <1>1, <1>2, <1>3 DEF BookingsOf, LiveBookings
    <2>3. Cardinality(BookingsOf(s)) >= 1
      BY <2>2, CountsOne
    <2> QED BY <1>5, <2>1, <2>3 DEF Active
  <1>7. sponsor_escrow[s] # None
    <2>1. SponsorExact(s) /\ stray.sponsor[s] \in Nat /\ sponsorships[s] \in Sponsorship
      BY <1>0, <1>5 DEF TypeOK
    <2>2. /\ sponsorships[s].price_per_token \in Nat /\ sponsorships[s].amount \in Nat
      BY <2>1 DEF Sponsorship
    <2>3. sponsorships[s].price_per_token * sponsorships[s].amount \in Nat
      BY <2>2, ProductNat
    <2>4. sponsor_escrow[s] \in Nat
      BY <1>5, <2>1, <2>3 DEF SponsorExact
    <2> QED BY <2>4, NoneAssumption
  <1>8. /\ booking_escrow[b] # None
        /\ ~k.settled => booking_escrow[b] >= k.price_per_token
    <2>1. stray.booking[b] \in Nat /\ k.price_per_token \in Nat
      BY <1>0, <1>1, <1>2 DEF TypeOK, Booking
    <2>2. booking_escrow[b] = stray.booking[b] + (IF k.settled THEN 0 ELSE k.price_per_token)
      BY <1>0, <1>1, <1>2 DEF BookingExact
    <2>3. booking_escrow[b] \in Nat
      BY <2>1, <2>2
    <2> QED BY <2>1, <2>2, <2>3, NoneAssumption
  <1>9. vault >= k.deposit
    BY <1>0, <1>2, DepositCovered
  <1>10. ASSUME ~k.settled
         PROVE  /\ PriceFits(modules[m].terms, Decimals[k.asset])
                /\ k.price_per_token = price_per_token(modules[m].terms, Decimals[k.asset])
    <2>1. SoldAt(s)
      BY <1>0 DEF Sold
    <2> QED BY <1>5, <1>10, <2>1 DEF SoldAt
  <1>11. ASSUME ~k.settled, k.lecturer = None
         PROVE  modules[m].student_allocation >= 1
    <2>1. Unclaimed(m) \in SUBSET BookingIds /\ b \in Unclaimed(m)
      BY <1>1, <1>2, <1>4, <1>11 DEF Unclaimed, LiveBookings
    <2>2. Student(m) = Cardinality(Unclaimed(m)) /\ Cardinality(Unclaimed(m)) >= 1
      BY <1>0, <2>1, CountsOne DEF Ledger
    <2> QED BY <1>5, <1>11, <2>2 DEF Student
  <1>12. ASSUME ~k.settled, k.lecturer # None
         PROVE  /\ deliverers[k.lecturer] # None
                /\ deliverers[k.lecturer].active_claims >= 1
                /\ module_vault[m] >= 1
    <2>1. PICK d \in Users : d = k.lecturer
      BY <1>2, <1>12 DEF Booking
    <2>2. ClaimsOf(d) \in SUBSET BookingIds /\ b \in ClaimsOf(d)
      BY <1>1, <1>2, <1>12, <2>1 DEF ClaimsOf, LiveBookings
    <2>3. ClaimsHeld(d) = Cardinality(ClaimsOf(d)) /\ Cardinality(ClaimsOf(d)) >= 1
      BY <1>0, <2>2, CountsOne DEF Ledger
    <2>4. deliverers[d] # None /\ deliverers[d].active_claims >= 1
      BY <2>3 DEF ClaimsHeld
    <2>5. InDelivery(m) \in SUBSET BookingIds /\ b \in InDelivery(m)
      BY <1>1, <1>2, <1>4, <1>12 DEF InDelivery, LiveBookings
    <2>6. /\ module_vault[m] = Unsold(m) + School(m) + Student(m) + Cardinality(InDelivery(m))
          /\ Cardinality(InDelivery(m)) >= 1
      BY <1>0, <2>5, CountsOne DEF Ledger
    <2>7. Unsold(m) \in Nat /\ School(m) \in Nat /\ Student(m) \in Nat
      BY <1>0 DEF TypeOK, Module, Unsold, School, Student
    <2>8. Cardinality(InDelivery(m)) \in Nat
      BY <2>5, BookingsFinite
    <2>9. module_vault[m] >= 1
      BY <2>6, <2>7, <2>8
    <2> QED BY <2>1, <2>4, <2>9
  <1>13. Shape(k)
    BY <1>0, <1>1, <1>2 DEF Shapes
  <1> QED BY <1>2, <1>3, <1>4, <1>5, <1>6, <1>7, <1>8, <1>9, <1>10, <1>11, <1>12, <1>13
          DEF Ready

LEMMA CrankInvReverts == CrankInv => CranksNeverRevert
  <1> SUFFICES ASSUME CrankInv, NEW b \in LiveBookings
               PROVE
                 LET k == bookings[b] IN
                 /\ k.score = None => MayCancelBooking(k.school, b)
                 /\ k.score = None /\ NoShow(k) => MayExpireBooking(b)
                 /\ k.score # None /\ ~k.settled /\ now >= k.score_at + config.dispute_window =>
                      \A u \in Users : MayFinalizeScore(u, b)
                 /\ k.settled => MayFinishBooking(b)
    BY DEF CranksNeverRevert
  <1> DEFINE k == bookings[b]
             m == k.module
  <1>1. Ready(b) /\ b \in BookingIds /\ k # None /\ TypeOK
    BY AllReady DEF LiveBookings, CrankInv, BInv, LInv, Base, EInv
  <1>2. ASSUME k.score = None
        PROVE  ~k.settled /\ MayReturnToken(b) /\ vault >= k.deposit
    <2>1. ~k.settled
      BY <1>1, <1>2 DEF Ready, Shape
    <2> QED BY <1>1, <2>1 DEF Ready, MayReturnToken
  <1>3. k.score = None => MayCancelBooking(k.school, b)
    BY <1>1, <1>2 DEF MayCancelBooking
  <1>4. k.score = None /\ NoShow(k) => MayExpireBooking(b)
    BY <1>1, <1>2 DEF MayExpireBooking
  <1>5. ASSUME k.score # None, ~k.settled, now >= k.score_at + config.dispute_window,
               NEW u \in Users
        PROVE  MayFinalizeScore(u, b)
    <2> DEFINE terms == modules[m].terms
               base == scale_to_asset(terms.price, Decimals[k.asset])
    <2>1. /\ k.lecturer # None /\ k.score_at # None /\ k \in Booking
          /\ modules[m] # None
      BY <1>1, <1>5 DEF Ready, Shape
    <2>2. k.score \in Bps /\ k.asset \in Assets /\ m \in ModuleIds
      BY <1>5, <2>1 DEF Booking
    <2>3. terms \in Terms
      BY <1>1, <2>1, <2>2 DEF TypeOK, Module
    <2>4. base \in Nat /\ terms.fees \in Fees
      <3>1. terms.price \in Nat /\ terms.fees \in Fees /\ 10^Decimals[k.asset] \in Nat
        BY <2>2, <2>3, DecimalsAssumption, WidthAssumption DEF Terms
      <3> QED BY <3>1, ProductNat DEF scale_to_asset
    <2>5. /\ PartsFit(base, terms.fees) /\ TokenPrice(base, terms.fees) <= U64Max
          /\ k.price_per_token = TokenPrice(base, terms.fees)
      BY <1>1, <1>5 DEF Ready, PriceFits, price_per_token
    <2>6. config.min_impact_score_bps \in Bps
      BY <1>1, ConfigOK DEF TypeOK, ConfigParams
    <2>7. PayoutFits(base, terms.fees, k.price_per_token, k.score,
                     config.min_impact_score_bps)
      BY <2>2, <2>4, <2>5, <2>6, AcceptedPriceSettles
    <2>8. /\ deliverers[k.lecturer] # None /\ deliverers[k.lecturer].active_claims >= 1
          /\ booking_escrow[b] # None /\ booking_escrow[b] >= k.price_per_token
          /\ module_vault[m] >= 1
      BY <1>1, <1>5, <2>1 DEF Ready
    <2> QED BY <1>1, <1>5, <2>1, <2>7, <2>8 DEF MayFinalizeScore
  <1>6. k.settled => MayFinishBooking(b)
    BY <1>1 DEF Ready, MayFinishBooking
  <1> QED BY <1>3, <1>4, <1>5, <1>6

\* No booking is ever stuck: once the waiting time of a crank is over, expiry,
\* finalization and closing pass every check and every checked operation,
\* whoever sends them, and a school can always withdraw an unscored booking.
\* No price, fee split, score, stray transfer, slash or parameter change can
\* make the accounts, the vault or the arithmetic refuse it.
THEOREM CranksTheorem == Spec => []CranksNeverRevert
  <1>1. Init => CrankInv
    BY BInvInit, SolventInit DEF CrankInv, Solvent, Sold, SoldAt, Init
  <1>2. CrankInv /\ [Next]_vars => CrankInv'
    <2> SUFFICES ASSUME CrankInv, [Next]_vars PROVE CrankInv'
      OBVIOUS
    <2>1. BInv' /\ BInv
      BY BInvStep DEF CrankInv
    <2>2. TypeOK /\ TypeOK' /\ FreshModules /\ LInv /\ LInv'
      BY <2>1 DEF BInv, LInv, Base, EInv
    <2>3. Surplus' >= 0
      BY <2>2, SolventStep DEF CrankInv, SurplusKept
    <2>4. Sold'
      BY <2>2, SoldStep DEF CrankInv
    <2> QED BY <2>1, <2>3, <2>4 DEF CrankInv
  <1> QED BY <1>1, <1>2, CrankInvReverts, PTL DEF Spec
=============================================================================
