------------------------------ MODULE RoleGate -------------------------------
(***************************************************************************)
(* What the other programs rely on about roles, without the accounts of    *)
(* xcavate-roles: where each person stands with each role, one change at a *)
(* time.  It is the environment ChangeRole of modules Delivery, Proposals  *)
(* and Regions stands for; they look at presence alone, and the permission *)
(* is for programs outside this repository.                                *)
(***************************************************************************)
CONSTANTS Users, RoleNames

VARIABLES
  standing,   \* of each user with each role
  open        \* whether there is an admin at all

gateVars == <<standing, open>>

Init ==
  /\ standing = [u \in Users |-> [r \in RoleNames |-> "Absent"]]
  /\ open = FALSE

Moved(u, r, to) == standing' = [standing EXCEPT ![u][r] = to]

Grant(u, r) == open /\ standing[u][r] = "Absent" /\ Moved(u, r, "Compliant")

Judge(u, r) ==
  /\ open
  /\ \/ standing[u][r] = "Compliant" /\ Moved(u, r, "Revoked")
     \/ standing[u][r] = "Revoked" /\ Moved(u, r, "Compliant")

Leave(u, r) == standing[u][r] # "Absent" /\ Moved(u, r, "Absent")

Next ==
  \/ /\ \E u \in Users, r \in RoleNames : Grant(u, r) \/ Judge(u, r) \/ Leave(u, r)
     /\ UNCHANGED open
  \/ UNCHANGED standing

Spec == Init /\ [][Next]_gateVars
=============================================================================
