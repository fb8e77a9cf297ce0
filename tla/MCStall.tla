------------------------------- MODULE MCStall -------------------------------
(***************************************************************************)
(* MCProposals with a history variable: when each proposal was approved.   *)
(***************************************************************************)
EXTENDS MCProposals

VARIABLE approved_at

Approves(id) ==
  /\ proposals[id] # None /\ proposals'[id] # None
  /\ proposals[id].status = "UnderReview" /\ proposals'[id].status = "Approved"

HInit == Init /\ approved_at = [id \in ProposalIds |-> None]
HNext == /\ Next
         /\ approved_at' = [id \in ProposalIds |->
                              IF Approves(id) THEN now ELSE approved_at[id]]
HSpec == HInit /\ [][HNext]_<<vars, approved_at>>

\* proposal.rs, expire_proposal: "Every other expirable state (reserved but never
\* uploaded, or approved but never minted) is the claimant's own stall, so the
\* bond is slashed to the treasury."  A claimant who stalled had some time after
\* the approval in which to mint.
SlashedForOwnStall ==
  [][\A id \in Live :
       /\ proposals[id].status = "Approved"
       /\ proposals'[id] # None /\ proposals'[id].status = "Rejected"
       /\ treasury' > treasury
       => now > approved_at[id]]_<<vars, approved_at>>
=============================================================================
