------------------------------ MODULE Treasury -------------------------------
(***************************************************************************)
(* What the configurations of education-regions and real-x-education       *)
(* promise each other: both stake the same XCAV mint, each keeps its       *)
(* deposits in a vault of its own, and real-x-education pays slashed       *)
(* deposits into the treasury account of education-regions, which only     *)
(* that program pays out of.  The mint is an account of the token program: *)
(* its extensions decide what a transfer does and what others may do to    *)
(* the programs' accounts, and the mint guard decides which are let in.    *)
(*                                                                         *)
(* Abstracted: the instructions that lock, return and slash deposits, here *)
(* only their effect on vault and treasury (modules Delivery, Proposals    *)
(* and Regions have the rest), and the parameters of the configurations.   *)
(***************************************************************************)
EXTENDS Integers

CONSTANTS
  Users, None,
  deployer,      \* the upgrade authority of the programs
  Mints,         \* addresses at which a mint may be created
  Kinds,         \* the features a mint may be created with
  Amounts, MaxSupply

Programs == {"regions", "realx"}
Pots     == Programs \cup {"treasury"}

\* mint_guard: extensions that take, freeze or hide funds, or distort a transfer.
Rejected ==
  {"TransferFeeConfig", "MintCloseAuthority", "DefaultAccountState", "NonTransferable",
   "PermanentDelegate", "TransferHook", "Pausable", "ConfidentialTransferMint",
   "ConfidentialMintBurn"}
Features == Rejected \cup {"MetadataPointer", "freeze_authority"}

ASSUME TreasuryAssumption ==
  /\ deployer \in Users /\ None \notin Kinds /\ None \notin Pots
  /\ Kinds \subseteq SUBSET Features /\ Amounts \subseteq Nat \ {0} /\ MaxSupply \in Nat

VARIABLES
  mints,     \* features of each mint, a classic one having no extension; or None
  paused,    \* mints whose transfers a pause or a hook refuses for now
  wallets,   \* tokens of each mint outside the programs
  configs,   \* Config of each program
  pots,      \* the token accounts: a vault per program, and the treasury
  frozen,    \* those the mint's freeze authority has frozen
  owed       \* deposits on record, by program

tokenVars == <<mints, paused, wallets, frozen>>
treasuryVars == <<tokenVars, configs, pots, owed>>

Config == [authority : Users, xcav_mint : Mints]
TokenAccount == [mint : Mints, amount : Nat]
ASSUME NoneAssumption == None \notin Config \cup TokenAccount

TypeOK ==
  /\ mints \in [Mints -> Kinds \cup {None}]
  /\ paused \subseteq Mints /\ wallets \in [Mints -> Nat]
  /\ configs \in [Programs -> Config \cup {None}]
  /\ pots \in [Pots -> TokenAccount \cup {None}] /\ frozen \subseteq Pots
  /\ owed \in [Programs -> Nat]

Init ==
  /\ mints = [m \in Mints |-> None] /\ paused = {}
  /\ wallets = [m \in Mints |-> 0]
  /\ configs = [p \in Programs |-> None]
  /\ pots = [t \in Pots |-> None] /\ frozen = {}
  /\ owed = [p \in Programs |-> 0]
-----------------------------------------------------------------------------
(* The token program *)

Has(m, feature) == mints[m] # None /\ feature \in mints[m]

\* A transfer of the mint succeeds, and delivers all of it or all but a fee of one.
Transferable(m) ==
  /\ mints[m] # None /\ m \notin paused
  /\ mints[m] \cap {"NonTransferable", "DefaultAccountState"} = {}
Delivered(m, n) == IF Has(m, "TransferFeeConfig") THEN n - 1 ELSE n

Credited(t, n) == [pots EXCEPT ![t].amount = @ + n]
Sent(s, t, n, delivered) == [pots EXCEPT ![s].amount = @ - n, ![t].amount = @ + delivered]
Supply(m) ==
  LET In(t) == IF pots[t] # None /\ pots[t].mint = m THEN pots[t].amount ELSE 0
  IN wallets[m] + In("regions") + In("realx") + In("treasury")

CreateMint(m, kind) ==
  /\ mints[m] = None
  /\ mints' = [mints EXCEPT ![m] = kind]
  /\ UNCHANGED <<paused, wallets, frozen, configs, pots, owed>>

\* A close authority may close a mint that has no supply, and the holder of its
\* address may then create another one there.
CloseMint(m) ==
  /\ Has(m, "MintCloseAuthority") /\ Supply(m) = 0
  /\ mints' = [mints EXCEPT ![m] = None]
  /\ paused' = paused \ {m}
  /\ UNCHANGED <<wallets, frozen, configs, pots, owed>>

Issue(m, n) ==
  /\ mints[m] # None /\ m \notin paused /\ Supply(m) + n <= MaxSupply
  /\ wallets' = [wallets EXCEPT ![m] = @ + n]
  /\ UNCHANGED <<mints, paused, frozen, configs, pots, owed>>

Pause(m) ==
  /\ Has(m, "Pausable") \/ Has(m, "TransferHook")
  /\ paused' = IF m \in paused THEN paused \ {m} ELSE paused \cup {m}
  /\ UNCHANGED <<mints, wallets, frozen, configs, pots, owed>>

\* A permanent delegate burns from any account of its mint.
Seize(m, t) ==
  /\ Has(m, "PermanentDelegate") /\ m \notin paused
  /\ IF t = None
     THEN wallets[m] > 0 /\ wallets' = [wallets EXCEPT ![m] = @ - 1] /\ UNCHANGED pots
     ELSE /\ pots[t] # None /\ pots[t].mint = m /\ pots[t].amount > 0
          /\ pots' = [pots EXCEPT ![t].amount = @ - 1] /\ UNCHANGED wallets
  /\ UNCHANGED <<mints, paused, frozen, configs, owed>>

\* The guard knows extensions only: a freeze authority, which a classic mint may
\* have too, is let in.
Freeze(t) ==
  /\ pots[t] # None /\ Has(pots[t].mint, "freeze_authority")
  /\ frozen' = IF t \in frozen THEN frozen \ {t} ELSE frozen \cup {t}
  /\ UNCHANGED <<mints, paused, wallets, configs, pots, owed>>

\* Anyone may transfer tokens into a vault or the treasury.
Stray(t, n) ==
  /\ pots[t] # None /\ t \notin frozen /\ Transferable(pots[t].mint)
  /\ wallets[pots[t].mint] >= n
  /\ wallets' = [wallets EXCEPT ![pots[t].mint] = @ - n]
  /\ pots' = Credited(t, Delivered(pots[t].mint, n))
  /\ UNCHANGED <<mints, paused, frozen, configs, owed>>
-----------------------------------------------------------------------------
(* The configurations *)

\* require_supported_mint
require_supported_mint_AllowsClose(m) == \* mutant
  mints[m] # None /\ mints[m] \cap (Rejected \ {"MintCloseAuthority"}) = {}
require_supported_mint(m) == mints[m] # None /\ mints[m] \cap Rejected = {}

\* The treasury account real-x-education is pinned to exists and is of its mint.
TreasuryAccepts_AnyMint(m) == pots["treasury"] # None  \* mutant
TreasuryAccepts(m) == pots["treasury"] # None /\ pots["treasury"].mint = m

Opened(u, m) == [authority |-> u, xcav_mint |-> m]
Empty(m) == [mint |-> m, amount |-> 0]

InitializeRegions(u, m) ==
  /\ configs["regions"] = None /\ u = deployer
  /\ require_supported_mint(m)
  /\ configs' = [configs EXCEPT !["regions"] = Opened(u, m)]
  /\ pots' = [pots EXCEPT !["regions"] = Empty(m), !["treasury"] = Empty(m)]
  /\ UNCHANGED <<tokenVars, owed>>

InitializeRealx(u, m) ==
  /\ configs["realx"] = None /\ u = deployer
  /\ TreasuryAccepts(m)
  /\ require_supported_mint(m)
  /\ configs' = [configs EXCEPT !["realx"] = Opened(u, m)]
  /\ pots' = [pots EXCEPT !["realx"] = Empty(m)]
  /\ UNCHANGED <<tokenVars, owed>>

UpdateAuthority(p, u, new_authority) ==
  /\ configs[p] # None /\ u = configs[p].authority
  /\ configs' = [configs EXCEPT ![p].authority = new_authority]
  /\ UNCHANGED <<tokenVars, pots, owed>>

\* withdraw_treasury, to a wallet (None) or to any other account of the mint.
MayWithdraw(u, n, to) ==
  /\ configs["regions"] # None /\ u = configs["regions"].authority
  /\ LET m == configs["regions"].xcav_mint IN
     /\ Transferable(m) /\ frozen \cap {"treasury", to} = {}
     /\ to # None => to \in Programs /\ pots[to] # None /\ pots[to].mint = m
  /\ pots["treasury"].amount >= n

WithdrawTreasury(u, n, to) ==
  /\ MayWithdraw(u, n, to)
  /\ LET m == configs["regions"].xcav_mint IN
     \/ /\ to = None
        /\ pots' = [pots EXCEPT !["treasury"].amount = @ - n]
        /\ wallets' = [wallets EXCEPT ![m] = @ + Delivered(m, n)]
     \/ /\ to # None
        /\ pots' = Sent("treasury", to, n, Delivered(m, n))
        /\ UNCHANGED wallets
  /\ UNCHANGED <<mints, paused, frozen, configs, owed>>
-----------------------------------------------------------------------------
(* Deposits, of whichever instruction *)

Lock(p, n) ==
  /\ configs[p] # None
  /\ LET m == configs[p].xcav_mint IN
     /\ Transferable(m) /\ p \notin frozen /\ wallets[m] >= n
     /\ wallets' = [wallets EXCEPT ![m] = @ - n]
     /\ pots' = Credited(p, Delivered(m, n))
  /\ owed' = [owed EXCEPT ![p] = @ + n]
  /\ UNCHANGED <<mints, paused, frozen, configs>>

MayReturn(p, n) ==
  /\ configs[p] # None /\ owed[p] >= n
  /\ Transferable(configs[p].xcav_mint) /\ p \notin frozen
  /\ pots[p].amount >= n

Return(p, n) ==
  /\ MayReturn(p, n)
  /\ LET m == configs[p].xcav_mint IN
     /\ wallets' = [wallets EXCEPT ![m] = @ + Delivered(m, n)]
     /\ pots' = [pots EXCEPT ![p].amount = @ - n]
  /\ owed' = [owed EXCEPT ![p] = @ - n]
  /\ UNCHANGED <<mints, paused, frozen, configs>>

MaySlash(n) ==
  /\ configs["realx"] # None /\ owed["realx"] >= n
  /\ LET m == configs["realx"].xcav_mint IN
     /\ Transferable(m) /\ frozen \cap {"realx", "treasury"} = {}
     /\ pots["treasury"].mint = m
  /\ pots["realx"].amount >= n

Slash(n) ==
  /\ MaySlash(n)
  /\ pots' = Sent("realx", "treasury", n, Delivered(configs["realx"].xcav_mint, n))
  /\ owed' = [owed EXCEPT !["realx"] = @ - n]
  /\ UNCHANGED <<tokenVars, configs>>

Next ==
  \/ \E m \in Mints :
       \/ \E kind \in Kinds : CreateMint(m, kind)
       \/ CloseMint(m)
       \/ Pause(m)
       \/ \E n \in Amounts : Issue(m, n)
       \/ \E t \in Pots \cup {None} : Seize(m, t)
       \/ \E u \in Users : InitializeRegions(u, m) \/ InitializeRealx(u, m)
  \/ \E t \in Pots : Freeze(t)
  \/ \E t \in Pots, n \in Amounts : Stray(t, n)
  \/ \E p \in Programs, u \in Users, new_authority \in Users :
       UpdateAuthority(p, u, new_authority)
  \/ \E u \in Users, n \in Amounts, to \in Programs \cup {None} : WithdrawTreasury(u, n, to)
  \/ \E p \in Programs, n \in Amounts : Lock(p, n) \/ Return(p, n)
  \/ \E n \in Amounts : Slash(n)

Spec == Init /\ [][Next]_treasuryVars
-----------------------------------------------------------------------------
\* Each vault holds at least the deposits its program has on record, although the
\* mint's authorities act as its extensions allow, close it and create another at
\* its address, and the treasury's tokens go wherever its authority sends them.
DepositsCovered ==
  \A p \in Programs : owed[p] > 0 => pots[p].amount >= owed[p]

\* No deposit is stuck: unless the mint's freeze authority froze an account, every
\* one can be returned, those of real-x-education slashed into the treasury, and
\* the treasury emptied by its authority, after any order of initializations and
\* whoever the authorities are by now.  (An instruction whose condition holds
\* succeeds: its other conjuncts only assign the next state.)
FundsMovable ==
  /\ \A p \in Programs \ frozen : owed[p] > 0 => MayReturn(p, owed[p])
  /\ frozen \cap {"realx", "treasury"} = {} /\ owed["realx"] > 0 =>
       MaySlash(owed["realx"])
  /\ "treasury" \notin frozen /\ pots["treasury"] # None =>
       LET n == pots["treasury"].amount IN
       n > 0 => MayWithdraw(configs["regions"].authority, n, None)
=============================================================================
