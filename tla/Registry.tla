------------------------------ MODULE Registry -------------------------------
(***************************************************************************)
(* The xcavate-roles program: a sudo authority appoints admins, admins     *)
(* grant roles and set the permission of each assignment, and a holder may *)
(* give a role up.  The other programs see of it whether a role account    *)
(* exists (RoleGate).  An account is closed and created again at the same  *)
(* address; None stands for one that does not exist.                       *)
(***************************************************************************)
CONSTANTS Users, None, RoleNames,
          deployer,    \* the upgrade authority of the program
          Candidates   \* whom the authority may appoint

Permissions == {"Compliant", "Revoked"}

VARIABLES
  authority,   \* Config::authority
  admins,      \* those with an Admin account
  assignments  \* permission of each RoleAccount, by user and role

registryVars == <<authority, admins, assignments>>

TypeOK ==
  /\ authority \in Users \cup {None} /\ admins \subseteq Candidates
  /\ assignments \in [Users -> [RoleNames -> Permissions \cup {None}]]

Init ==
  /\ authority = None /\ admins = {}
  /\ assignments = [u \in Users |-> [r \in RoleNames |-> None]]

Assigned(u, r, permission) == [assignments EXCEPT ![u][r] = permission]

\* Closing the account of one role: its address has the role's byte in it.
Closed_AllRoles(u, r) == [assignments EXCEPT ![u] = [q \in RoleNames |-> None]] \* mutant
Closed_Tombstone(u, r) == Assigned(u, r, "Closed")                             \* mutant
Closed(u, r) == Assigned(u, r, None)
-----------------------------------------------------------------------------
InitializeConfig(u) ==
  /\ authority = None /\ u = deployer
  /\ authority' = u
  /\ UNCHANGED <<admins, assignments>>

UpdateAuthority(u, new_authority) ==
  /\ authority = u
  /\ authority' = new_authority
  /\ UNCHANGED <<admins, assignments>>

AddAdmin(u, new_admin) ==
  /\ authority = u /\ new_admin \in Candidates \ admins
  /\ admins' = admins \cup {new_admin}
  /\ UNCHANGED <<authority, assignments>>

\* The roles the admin granted stay.
RemoveAdmin(u, admin) ==
  /\ authority = u /\ admin \in admins
  /\ admins' = admins \ {admin}
  /\ UNCHANGED <<authority, assignments>>

AssignRole(admin, u, r) ==
  /\ admin \in admins /\ assignments[u][r] = None
  /\ assignments' = Assigned(u, r, "Compliant")
  /\ UNCHANGED <<authority, admins>>

RemoveRole(admin, u, r) ==
  /\ admin \in admins /\ assignments[u][r] # None
  /\ assignments' = Closed(u, r)
  /\ UNCHANGED <<authority, admins>>

\* By the holder, or by unregister_deliverer on the holder's behalf.
RenounceRole(u, r) ==
  /\ authority # None /\ assignments[u][r] # None
  /\ assignments' = Closed(u, r)
  /\ UNCHANGED <<authority, admins>>

SetPermission(admin, u, r, permission) ==
  /\ admin \in admins /\ assignments[u][r] # None /\ assignments[u][r] # permission
  /\ assignments' = Assigned(u, r, permission)
  /\ UNCHANGED <<authority, admins>>

Next ==
  \/ \E u \in Users : InitializeConfig(u)
  \/ \E u \in Users, v \in Users :
       UpdateAuthority(u, v) \/ AddAdmin(u, v) \/ RemoveAdmin(u, v)
  \/ \E u \in Users, r \in RoleNames :
       \/ RenounceRole(u, r)
       \/ \E admin \in Users :
            \/ AssignRole(admin, u, r)
            \/ RemoveRole(admin, u, r)
            \/ \E permission \in Permissions : SetPermission(admin, u, r, permission)

Spec == Init /\ [][Next]_registryVars
-----------------------------------------------------------------------------
Gate == INSTANCE RoleGate WITH
  open     <- admins # {},
  standing <- [u \in Users |-> [r \in RoleNames |->
                IF assignments[u][r] = None THEN "Absent" ELSE assignments[u][r]]]

\* Whatever sudo, admins and holders do, in any order and with admins appointed,
\* dismissed and replaced meanwhile: the other programs see one role account
\* appear or disappear at a time, a new assignment starts compliant, and only
\* giving a role up is open to somebody who is no admin.
ImplementsRoleGate == Gate!Spec
=============================================================================
