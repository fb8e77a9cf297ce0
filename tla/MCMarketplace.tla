---------------------------- MODULE MCMarketplace ----------------------------
(***************************************************************************)
(* A small instance of Marketplace: a staff member who proposes, sponsors, *)
(* votes, builds, reviews and delivers, a school that proposes and books,  *)
(* and an authority that changes price and deposits while a proposal or a  *)
(* booking is open.                                                        *)
(***************************************************************************)
EXTENDS Marketplace

CONSTANTS school, staff, usd

MCUsers == {school, staff}
MCAssets == {usd}
MCDecimals == [a \in MCAssets |-> 0]
MCRoles == {<<staff, "ModuleCreator">>, <<staff, "ModuleSponsor">>,
            <<staff, "ModuleAIAgent">>, <<staff, "ModuleDeliverer">>,
            <<school, "ModuleBooker">>}

MCFees == [content_creator |-> 1000, regional_operator |-> 0, protocol |-> 0, dbs |-> 0]
MCConfig ==
  [module_deposit |-> 2, booking_deposit |-> 1, deliverer_deposit |-> 1,
   max_module_tokens |-> 2, terms |-> [price |-> 1, fees |-> MCFees],
   min_impact_score_bps |-> 5000, strike_slash_bps |-> 5000,
   sponsorship_window |-> 1, cancellation_window |-> 1, no_show_grace |-> 1,
   max_delivery_window |-> 1, dispute_window |-> 1, max_cancellations |-> 2,
   max_strikes |-> 1, deliveries_per_strike_reduction |-> 1,
   accepted_assets |-> MCAssets]
MCConfigs == {MCConfig, [MCConfig EXCEPT !.module_deposit = 1, !.terms.price = 2]}

\* What Proposals reads of a parameter set.
MCProposalParams ==
  [c \in MCConfigs |->
    [proposal_deposit |-> 1, module_deposit |-> c.module_deposit,
     max_module_tokens |-> c.max_module_tokens, terms |-> c.terms,
     minimum_voting_amount |-> 1, voting_period |-> 1, threshold_bps |-> 5000,
     quorum |-> 1, claim_period |-> 1, upload_period |-> 1, pre_sponsor_amount |-> 1,
     accepted_assets |-> c.accepted_assets]]
=============================================================================
