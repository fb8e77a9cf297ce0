-------------------------- MODULE ProposalLifecycle --------------------------
(***************************************************************************)
(* What the program promises about one module proposal, without votes,     *)
(* vaults, parameters or clocks: the phases it goes through, who may hold  *)
(* its build, how often they are judged, and what becomes of the builder's *)
(* bond and of the sponsor's advance payment.                              *)
(*                                                                         *)
(*   None -> Voting -> Claimable <-> Claimed <-> UnderReview -> Approved   *)
(*              \_________\_____________\____________/ |           |  \    *)
(*                          Rejected -> Closed         |           | Built *)
(*                              \______________________/___________/       *)
(***************************************************************************)
EXTENDS Integers

CONSTANTS Users, ProposalIds, None

VARIABLES
  phase,      \* by proposal
  builder,    \* who holds the build, or built it
  tries,      \* failed reviews of the present builder
  banned,     \* who may not build any more
  bond,       \* what the builder has at stake
  advance     \* what the sponsor has paid in advance

vars == <<phase, builder, tries, banned, bond, advance>>

Init ==
  /\ phase = [p \in ProposalIds |-> "None"]
  /\ builder = [p \in ProposalIds |-> None]
  /\ tries = [p \in ProposalIds |-> 0]
  /\ banned = [p \in ProposalIds |-> {}]
  /\ bond = [p \in ProposalIds |-> 0]
  /\ advance = [p \in ProposalIds |-> 0]

\* A proposal moves from one phase to another; ids are never used again.
Move(p, from, to) == phase[p] \in from /\ phase' = [phase EXCEPT ![p] = to]

\* Nobody holds the build: the bond has been settled.
Vacate(p) ==
  /\ builder' = [builder EXCEPT ![p] = None]
  /\ tries' = [tries EXCEPT ![p] = 0]
  /\ bond' = [bond EXCEPT ![p] = 0]

Open(p) ==
  /\ Move(p, {"None"}, "Voting")
  /\ advance'[p] \in Nat /\ advance' = [advance EXCEPT ![p] = advance'[p]]
  /\ UNCHANGED <<builder, tries, banned, bond>>

Decide(p) ==
  /\ \/ Move(p, {"Voting"}, "Claimable")
     \/ Move(p, {"Voting"}, "Rejected")
  /\ UNCHANGED <<builder, tries, banned, bond, advance>>

\* Every builder starts with a bond at stake and no failure on record, whatever
\* earlier builders did.
Claim(p) ==
  /\ Move(p, {"Claimable"}, "Claimed")
  /\ \E u \in Users \ banned[p] : builder' = [builder EXCEPT ![p] = u]
  /\ bond'[p] \in Nat \ {0} /\ bond' = [bond EXCEPT ![p] = bond'[p]]
  /\ UNCHANGED <<tries, banned, advance>>

Upload(p) ==
  /\ Move(p, {"Claimed"}, "UnderReview")
  /\ UNCHANGED <<builder, tries, banned, bond, advance>>

Release(p) ==
  /\ Move(p, {"Claimed"}, "Claimable")
  /\ Vacate(p)
  /\ UNCHANGED <<banned, advance>>

Approve(p) ==
  /\ Move(p, {"UnderReview"}, "Approved")
  /\ UNCHANGED <<builder, tries, banned, bond, advance>>

\* The first failed review leaves the build where it is.
Retry(p) ==
  /\ Move(p, {"UnderReview"}, "Claimed")
  /\ tries[p] = 0 /\ tries' = [tries EXCEPT ![p] = 1]
  /\ UNCHANGED <<builder, banned, bond, advance>>

\* The second takes it away for good, or ends the proposal.
Fail(p) ==
  /\ tries[p] = 1
  /\ \/ /\ Move(p, {"UnderReview"}, "Claimable")
        /\ banned' = [banned EXCEPT ![p] = @ \cup {builder[p]}]
     \/ /\ Move(p, {"UnderReview"}, "Rejected")
        /\ UNCHANGED banned
  /\ Vacate(p)
  /\ UNCHANGED advance

\* The bond becomes the module's deposit and the advance its sponsorship: both
\* carry over whole.
Build(p) ==
  /\ Move(p, {"Approved"}, "Built")
  /\ tries' = [tries EXCEPT ![p] = 0]
  /\ banned' = [banned EXCEPT ![p] = {}]
  /\ UNCHANGED <<builder, bond, advance>>

Expire(p) ==
  /\ Move(p, {"Claimable", "Claimed", "UnderReview", "Approved"}, "Rejected")
  /\ Vacate(p)
  /\ UNCHANGED <<banned, advance>>

\* The advance goes back to the sponsor, and nothing is left.
Close(p) ==
  /\ Move(p, {"Rejected"}, "Closed")
  /\ banned' = [banned EXCEPT ![p] = {}]
  /\ advance' = [advance EXCEPT ![p] = 0]
  /\ UNCHANGED <<builder, tries, bond>>

Next == \E p \in ProposalIds :
          \/ Open(p) \/ Decide(p) \/ Claim(p) \/ Upload(p) \/ Release(p)
          \/ Approve(p) \/ Retry(p) \/ Fail(p) \/ Build(p) \/ Expire(p) \/ Close(p)

Spec == Init /\ [][Next]_vars
=============================================================================
