------------------------------ MODULE MCRegions ------------------------------
(***************************************************************************)
(* A small instance of Regions: two operators who compete for a region and *)
(* vote, a bond that the supply makes 1 or 2, and an authority that moves  *)
(* the threshold and the quorum.                                           *)
(***************************************************************************)
EXTENDS Regions

CONSTANTS ann, bob, england

MCUsers == {ann, bob}
MCRegionCodes == {england}
MCOperators == {ann}
MCConfig == [minimum_voting_amount |-> 1, voting_period |-> 1,
             owner_change_period |-> 2, threshold_bps |-> 5000,
             quorum |-> 2, notice_period |-> 1]
MCTwoConfigs == {MCConfig, [MCConfig EXCEPT !.threshold_bps = 10000, !.quorum = 1,
                                            !.owner_change_period = 1]}
=============================================================================
