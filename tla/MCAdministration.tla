-------------------------- MODULE MCAdministration ---------------------------
(***************************************************************************)
(* A small instance of Treasury and of Registry: the deployer and a        *)
(* council the authorities are handed to, two mint addresses, and a mint   *)
(* of each kind that the guard tells apart.                                *)
(*                                                                         *)
(* The two share no variable, and no property reads both, so interleaving  *)
(* them shows nothing that either alone does not: each starts only while   *)
(* the other has not.                                                      *)
(***************************************************************************)
EXTENDS Treasury

CONSTANTS owner, council, RoleNames, Candidates

VARIABLES authority, admins, assignments

registryVars == <<authority, admins, assignments>>
R == INSTANCE Registry

ASSUME RegistryAssumption ==
  Candidates \subseteq Users /\ None \notin Users /\ None \notin R!Permissions

MCUsers == {owner, council}
MCRoleNames == {"RegionalOperator", "ModuleDeliverer"}
MCKinds ==
  {{}, {"freeze_authority"}, {"MintCloseAuthority"}, {"TransferFeeConfig"},
   {"PermanentDelegate"}, {"Pausable"}}
-----------------------------------------------------------------------------
MCInit == Init /\ R!Init

MCNext ==
  \/ authority = None /\ Next /\ UNCHANGED registryVars
  \/ (\A m \in Mints : mints[m] = None) /\ R!Next /\ UNCHANGED treasuryVars

MCSpec == MCInit /\ [][MCNext]_<<treasuryVars, registryVars>>

MCTypeOK == TypeOK /\ R!TypeOK

\* The registry of roles implements RoleGate, the environment the other modules
\* assume: see Registry.
RolesGated == R!ImplementsRoleGate
=============================================================================
