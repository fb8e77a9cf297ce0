----------------------------- MODULE MCProposals -----------------------------
(***************************************************************************)
(* A small instance of Proposals: two creators, and a staff member who     *)
(* sponsors, votes and reviews; a ban list for one creator; an authority   *)
(* that changes bond, terms and periods under open proposals.              *)
(***************************************************************************)
EXTENDS Proposals

CONSTANTS amy, ben, staff, usd

MCUsers == {amy, ben, staff}
MCAssets == {usd}
MCDecimals == [a \in MCAssets |-> 0]
MCRoles == {<<amy, "ModuleCreator">>, <<ben, "ModuleCreator">>,
            <<staff, "ModuleSponsor">>, <<staff, "ModuleAIAgent">>}
MCRoleChanges == {<<amy, "ModuleCreator">>}

MCFees == [content_creator |-> 1000, regional_operator |-> 0, protocol |-> 0, dbs |-> 0]
MCConfig ==
  [proposal_deposit |-> 1, module_deposit |-> 2, max_module_tokens |-> 2,
   terms |-> [price |-> 1, fees |-> MCFees], minimum_voting_amount |-> 2,
   voting_period |-> 1, threshold_bps |-> 5000, quorum |-> 2,
   claim_period |-> 1, upload_period |-> 2, pre_sponsor_amount |-> 1,
   accepted_assets |-> MCAssets]
MCTwoConfigs ==
  {MCConfig, [MCConfig EXCEPT !.module_deposit = 1, !.terms.price = 2,
                              !.upload_period = 1]}
-----------------------------------------------------------------------------
(* Unbounded time.  The program compares the clock with deadlines and does    *)
(* nothing else with it, so it makes no difference whether the clock advances *)
(* or every deadline draws nearer.  Age moves the deadlines (one that has come *)
(* is 0, like one that is not set, which no comparison tells apart), so that  *)
(* the states are finitely many and behaviours can be followed for ever; the  *)
(* clock itself still moves up to MaxTime.                                    *)
Nearer(t) == IF t = 0 THEN 0 ELSE t - 1
AgedProposal(p) ==
  [p EXCEPT !.expiry = Nearer(@), !.upload_deadline = Nearer(@),
            !.build_deadline = Nearer(@)]
AgedVote(record) == [record EXCEPT !.expiry = Nearer(@)]

Age ==
  /\ proposals' = [id \in ProposalIds |->
       IF proposals[id] = None THEN None ELSE AgedProposal(proposals[id])]
  /\ votes' = [id \in ProposalIds |-> [u \in Users |->
       IF votes[id][u] = None THEN None ELSE AgedVote(votes[id][u])]]
  /\ UNCHANGED <<envVars, next_id, escrow, stray, minted, xcavVars>>

\* Time passes, and someone sends each permissionless crank while it would
\* succeed.  No claimant, reviewer, voter or sponsor is obliged to act, and none
\* is kept from acting again and again.
AgingSpec ==
  /\ Init /\ [][Next \/ Age]_vars
  /\ WF_vars(Age)
  /\ \A id \in ProposalIds :
       /\ WF_vars(FinalizeProposal(id))
       /\ WF_vars(ReleaseClaim(id))
       /\ WF_vars(ExpireProposal(id))
       /\ WF_vars(ClearProposal(id))

\* A proposal is at its end: minted, closed, or rejected with only the sponsor's
\* own reclaim left to do.
Ended(id) ==
  \/ proposals[id] = None
  \/ proposals[id].status = "Rejected" /\ proposals[id].pre_sponsor_amount > 0

\* A claimant loses the build, and the bond with it goes to the treasury.
Forfeits(id) ==
  /\ ~Ended(id) /\ ~Ended(id)'
  /\ proposals[id].claimant # None /\ proposals'[id].claimant = None
  /\ proposals[id].bond > 0 /\ treasury' = treasury + proposals[id].bond

\* Every proposal comes to an end, or creators pay for ever to keep it going: past
\* the build deadline claim_proposal still accepts, so claims and releases can
\* alternate and expire_proposal, which needs the moment in between or the end of
\* an upload period, may always come too late.  But no proposal goes on without a
\* bond being slashed again and again, and slashed XCAV coming back from the
\* treasury is what makes that possible without end.
EveryProposalEnds ==
  \A id \in ProposalIds : []<>Ended(id) \/ []<><<Forfeits(id)>>_vars
-----------------------------------------------------------------------------
(* What a comment in the source says and the code does not do *)

\* proposal.rs, expire_proposal: "rejecting it so its rent and any pre-sponsorship
\* can be recovered."  So the sponsor of a rejected proposal can take the advance
\* payment back, whatever happened to its escrow meanwhile.
RejectionRecoverable ==
  \A id \in Live :
    proposals[id].status = "Rejected" /\ proposals[id].pre_sponsor_amount > 0 =>
      MayReclaim(proposals[id].proposer, id)
=============================================================================
