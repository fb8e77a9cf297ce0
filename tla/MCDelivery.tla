----------------------------- MODULE MCDelivery -----------------------------
(***************************************************************************)
(* Small instances of Delivery.  Three people: a school, a lecturer and a  *)
(* staff member who creates, sponsors and scores (and is an outsider to    *)
(* every booking).  In some runs the school is a registered deliverer and  *)
(* the lecturer books, so that one person stands on both sides.            *)
(***************************************************************************)
EXTENDS Delivery

CONSTANTS school, lecturer, staff, usd,
          strike_limit, cancels, windows \* parameters that runs vary

MCUsers == {school, lecturer, staff}
MCRecipients == {school, lecturer}
MCAssets == {usd}
MCDecimals == [a \in MCAssets |-> 0]

Staff == {<<staff, "ModuleCreator">>, <<staff, "ModuleSponsor">>,
          <<staff, "ModuleAIAgent">>}
MCRoles == Staff \cup {<<school, "ModuleBooker">>, <<lecturer, "ModuleDeliverer">>}
MCBothSides == MCRoles \cup {<<lecturer, "ModuleBooker">>, <<school, "ModuleDeliverer">>}
MCNoLecturer == Staff \cup {<<school, "ModuleBooker">>}
MCNoChanges == {}
MCDelivererChanges == {<<lecturer, "ModuleDeliverer">>}

\* A token costs 2: price 1 and one unit of fees.  One strike costs 1 of 2.
MCConfig ==
  [module_deposit |-> 1, booking_deposit |-> 1, deliverer_deposit |-> 2,
   max_module_tokens |-> 2,
   terms |-> [price |-> 1,
              fees |-> [content_creator |-> 1000, regional_operator |-> 0,
                        protocol |-> 0, dbs |-> 0]],
   min_impact_score_bps |-> 5000, strike_slash_bps |-> 5000,
   sponsorship_window |-> windows, cancellation_window |-> windows,
   no_show_grace |-> windows, max_delivery_window |-> windows,
   dispute_window |-> windows, max_cancellations |-> cancels,
   max_strikes |-> strike_limit, deliveries_per_strike_reduction |-> 1,
   accepted_assets |-> MCAssets]
MCOneConfig == {MCConfig}

\* An authority that doubles the deposits and the windows, and tightens the bar.
MCTwoConfigs ==
  {MCConfig,
   [MCConfig EXCEPT !.booking_deposit = 2, !.deliverer_deposit = 4,
                    !.no_show_grace = 2 * windows, !.dispute_window = 2 * windows,
                    !.min_impact_score_bps = 10000]}
-----------------------------------------------------------------------------
(* What comments in the source say and the code does not do *)

\* initialize.rs, UpdateConfig: "In-flight modules, bookings, and proposals keep
\* the values they were created with."  So an update neither opens nor closes
\* the dispute window of a score already submitted.
InFlightKeepTerms ==
  [][\A b \in BookingIds :
       /\ bookings[b] # None /\ bookings'[b] # None
       /\ bookings[b].score_at # None /\ now' = now
       => (now < bookings[b].score_at + config.dispute_window)
            = (now < bookings[b].score_at + config'.dispute_window)]_vars

\* state.rs, max_cancellations: "School cancellations within the window before
\* its deposit is slashed."  So a deposit is slashed only when that many
\* cancellations, this one included, lie within the window.
SlashedWithinWindowOnly ==
  [][\A b \in BookingIds :
       bookings[b] # None /\ bookings'[b] = None /\ treasury' > treasury =>
         Cardinality({c \in cancellations' :
                        /\ c.school = bookings[b].school
                        /\ now - c.created_at <= config.cancellation_window})
           >= config.max_cancellations]_vars
=============================================================================
