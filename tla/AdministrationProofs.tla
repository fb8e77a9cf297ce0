------------------------ MODULE AdministrationProofs -------------------------
(***************************************************************************)
(* The vaults cover the deposits on record, for any mints with any         *)
(* features, any users and any amounts.  The argument: a mint that passed  *)
(* the guard can be neither closed, nor seized, nor does it take a fee, so *)
(* that as long as a program exists its mint stays the one it was opened   *)
(* with and every transfer delivers what it takes.                         *)
(*                                                                         *)
(* And the registry of roles implements RoleGate for any users and roles.  *)
(***************************************************************************)
EXTENDS MCAdministration, TLAPS


\* Where a program stands: not set up and owing nothing, or with a vault of its
\* mint, which the guard has let in; the treasury belongs to education-regions,
\* and both programs stake the same mint.
Standing(p) ==
  IF configs[p] = None
  THEN owed[p] = 0 /\ pots[p] = None
  ELSE /\ pots[p] # None /\ pots[p].mint = configs[p].xcav_mint
       /\ require_supported_mint(configs[p].xcav_mint)

TreasurySetUp ==
  IF configs["regions"] = None
  THEN pots["treasury"] = None /\ configs["realx"] = None
  ELSE pots["treasury"] # None /\ pots["treasury"].mint = configs["regions"].xcav_mint

OneMint ==
  configs["realx"] # None => configs["realx"].xcav_mint = configs["regions"].xcav_mint

IInv ==
  /\ TypeOK
  /\ \A p \in Programs : Standing(p)
  /\ TreasurySetUp /\ OneMint
  /\ DepositsCovered

LEMMA PotNames == "regions" \in Pots /\ "realx" \in Pots /\ "treasury" \in Pots
  BY DEF Pots, Programs

LEMMA AmountsPositive == \A n \in Amounts : n \in Nat /\ n > 0
  BY TreasuryAssumption

\* A mint that passed the guard has none of the features that matter here.
LEMMA Supported ==
  ASSUME NEW m, require_supported_mint(m)
  PROVE  /\ mints[m] # None
         /\ ~Has(m, "TransferFeeConfig") /\ ~Has(m, "MintCloseAuthority")
         /\ ~Has(m, "PermanentDelegate") /\ ~Has(m, "Pausable") /\ ~Has(m, "TransferHook")
  BY DEF require_supported_mint, Has, Rejected

LEMMA DeliveredWhole ==
  ASSUME NEW m, require_supported_mint(m), NEW n PROVE Delivered(m, n) = n
  BY Supported DEF Delivered

LEMMA DeliveredNat ==
  ASSUME NEW m, NEW n \in Amounts
  PROVE  Delivered(m, n) \in Nat
  BY AmountsPositive DEF Delivered

\* Setting the amount of one token account leaves the others and the mints alone.
LEMMA AmountSet ==
  ASSUME NEW f \in [Pots -> TokenAccount \cup {None}], NEW t \in Pots, f[t] # None,
         NEW a \in Nat
  PROVE  LET g == [f EXCEPT ![t].amount = a] IN
         /\ g \in [Pots -> TokenAccount \cup {None}]
         /\ g[t] # None /\ g[t].mint = f[t].mint /\ g[t].amount = a
         /\ \A s \in Pots : s # t => g[s] = f[s]
  <1>1. f[t] \in TokenAccount
    OBVIOUS
  <1>2. [f[t] EXCEPT !.amount = a] \in TokenAccount
    BY <1>1 DEF TokenAccount
  <1>3. [f[t] EXCEPT !.amount = a] # None
    BY <1>2, NoneAssumption
  <1>4. /\ [f[t] EXCEPT !.amount = a].mint = f[t].mint
        /\ [f[t] EXCEPT !.amount = a].amount = a
    BY <1>1 DEF TokenAccount
  <1>5. [f EXCEPT ![t].amount = a][t] = [f[t] EXCEPT !.amount = a]
    OBVIOUS
  <1> QED BY <1>2, <1>3, <1>4, <1>5

LEMMA InitOK == Init => IInv
  BY DEF Init, IInv, TypeOK, Standing, TreasurySetUp, OneMint, DepositsCovered,
         Programs, Pots
-----------------------------------------------------------------------------
(* What the token program and the authorities may do *)

\* A step that leaves configurations, accounts and records alone, and every mint
\* in use as it is.
LEMMA MintsStep ==
  ASSUME IInv, TypeOK',
         UNCHANGED <<configs, pots, owed>>,
         \A m \in Mints : require_supported_mint(m) => mints'[m] = mints[m]
  PROVE  IInv'
  <1>1. ASSUME NEW p \in Programs PROVE Standing(p)'
    <2>1. CASE configs[p] = None
      BY <2>1 DEF IInv, Standing
    <2>2. CASE configs[p] # None
      <3>1. configs[p].xcav_mint \in Mints
        BY <2>2 DEF IInv, TypeOK, Config
      <3> QED BY <2>2, <3>1 DEF IInv, Standing, require_supported_mint
    <2> QED BY <2>1, <2>2
  <1> QED BY <1>1 DEF IInv, TreasurySetUp, OneMint, DepositsCovered

LEMMA CreateMintOK ==
  ASSUME IInv, NEW m \in Mints, NEW kind \in Kinds, CreateMint(m, kind) PROVE IInv'
  <1>1. TypeOK'
    BY DEF IInv, TypeOK, CreateMint
  <1>2. \A q \in Mints : require_supported_mint(q) => mints'[q] = mints[q]
    BY DEF IInv, TypeOK, CreateMint, require_supported_mint
  <1> QED BY <1>1, <1>2, MintsStep DEF CreateMint

LEMMA CloseMintOK ==
  ASSUME IInv, NEW m \in Mints, CloseMint(m) PROVE IInv'
  <1>1. TypeOK'
    BY DEF IInv, TypeOK, CloseMint
  <1>2. \A q \in Mints : require_supported_mint(q) => mints'[q] = mints[q]
    BY Supported DEF IInv, TypeOK, CloseMint
  <1> QED BY <1>1, <1>2, MintsStep DEF CloseMint

LEMMA IssueOK ==
  ASSUME IInv, NEW m \in Mints, NEW n \in Amounts, Issue(m, n) PROVE IInv'
  <1>1. TypeOK'
    BY AmountsPositive DEF IInv, TypeOK, Issue
  <1> QED BY <1>1, MintsStep DEF Issue

LEMMA PauseOK ==
  ASSUME IInv, NEW m \in Mints, Pause(m) PROVE IInv'
  <1>1. TypeOK'
    BY DEF IInv, TypeOK, Pause
  <1> QED BY <1>1, MintsStep DEF Pause

LEMMA FreezeOK ==
  ASSUME IInv, NEW t \in Pots, Freeze(t) PROVE IInv'
  <1>1. TypeOK'
    BY DEF IInv, TypeOK, Freeze
  <1> QED BY <1>1, MintsStep DEF Freeze

\* A step that only adds to accounts, or takes from the treasury what is in it.
LEMMA PotsStep ==
  ASSUME IInv, TypeOK', UNCHANGED <<mints, configs, owed>>,
         \A t \in Pots : /\ pots'[t] = None <=> pots[t] = None
                         /\ pots[t] # None => pots'[t].mint = pots[t].mint,
         \A p \in Programs : pots[p] # None => pots'[p].amount >= pots[p].amount
  PROVE  IInv'
  <1>1. ASSUME NEW p \in Programs PROVE Standing(p)'
    BY DEF IInv, Standing, require_supported_mint, Pots
  <1>2. TreasurySetUp' /\ OneMint'
    BY PotNames DEF IInv, TreasurySetUp, OneMint
  <1>3. DepositsCovered'
    <2> SUFFICES ASSUME NEW p \in Programs, owed[p] > 0
                 PROVE  pots'[p].amount >= owed[p]
      BY DEF DepositsCovered
    <2>1. pots[p] # None /\ pots[p].amount >= owed[p]
      BY DEF IInv, Standing, TypeOK, DepositsCovered
    <2>2. pots[p] \in TokenAccount /\ pots'[p] \in TokenAccount /\ owed[p] \in Nat
      BY <2>1 DEF IInv, TypeOK, Pots
    <2> QED BY <2>1, <2>2 DEF TokenAccount
  <1> QED BY <1>1, <1>2, <1>3 DEF IInv

\* A delegate of a mint that was let in does not exist, and the accounts are all
\* of such mints, so that nothing but wallets is ever seized.
LEMMA SeizeOK ==
  ASSUME IInv, NEW m \in Mints, NEW t \in Pots \cup {None}, Seize(m, t) PROVE IInv'
  <1>1. CASE t = None
    <2>1. TypeOK'
      BY <1>1 DEF IInv, TypeOK, Seize
    <2> QED BY <1>1, <2>1, MintsStep DEF Seize
  <1>2. CASE t # None
    <2>1. t \in Pots /\ pots[t] # None /\ Has(pots[t].mint, "PermanentDelegate")
      BY <1>2 DEF Seize
    <2>2. require_supported_mint(pots[t].mint)
      <3>1. CASE t \in Programs
        BY <2>1, <3>1 DEF IInv, Standing
      <3>2. CASE t = "treasury"
        <4>1. configs["regions"] # None /\ pots[t].mint = configs["regions"].xcav_mint
          BY <2>1, <3>2 DEF IInv, TreasurySetUp
        <4> QED BY <4>1 DEF IInv, Standing, Programs
      <3> QED BY <2>1, <3>1, <3>2 DEF Pots
    <2> QED BY <2>1, <2>2, Supported
  <1> QED BY <1>1, <1>2

LEMMA StrayOK ==
  ASSUME IInv, NEW t \in Pots, NEW n \in Amounts, Stray(t, n) PROVE IInv'
  <1>1. pots[t] # None /\ pots[t] \in TokenAccount
    BY DEF IInv, TypeOK, Stray
  <1>2. /\ pots[t].mint \in Mints /\ pots[t].amount \in Nat
        /\ Delivered(pots[t].mint, n) \in Nat /\ n \in Nat
    BY <1>1, AmountsPositive, DeliveredNat DEF TokenAccount
  <1> DEFINE a == pots[t].amount + Delivered(pots[t].mint, n)
  <1>3. pots' = [pots EXCEPT ![t].amount = a] /\ a \in Nat /\ a >= pots[t].amount
    BY <1>2 DEF Stray, Credited
  <1>4. /\ pots' \in [Pots -> TokenAccount \cup {None}]
        /\ pots'[t] # None /\ pots'[t].mint = pots[t].mint /\ pots'[t].amount = a
        /\ \A s \in Pots : s # t => pots'[s] = pots[s]
    BY <1>1, <1>3, AmountSet DEF IInv, TypeOK
  <1>5. TypeOK'
    BY <1>2, <1>4 DEF IInv, TypeOK, Stray
  <1>6. \A p \in Programs : pots[p] # None => pots'[p].amount >= pots[p].amount
    BY <1>3, <1>4 DEF IInv, TypeOK, TokenAccount, Pots
  <1> QED BY <1>1, <1>4, <1>5, <1>6, PotsStep DEF Stray, tokenVars
-----------------------------------------------------------------------------
(* The configurations *)

LEMMA Opening ==
  ASSUME IInv, NEW u \in Users, NEW m \in Mints
  PROVE  /\ Opened(u, m) \in Config /\ Opened(u, m) # None
         /\ Empty(m) \in TokenAccount /\ Empty(m) # None
         /\ Opened(u, m).xcav_mint = m /\ Empty(m).mint = m
  BY NoneAssumption DEF Opened, Empty, Config, TokenAccount

LEMMA InitializeRegionsOK ==
  ASSUME IInv, NEW u \in Users, NEW m \in Mints, InitializeRegions(u, m) PROVE IInv'
  <1> USE PotNames, Opening DEF InitializeRegions, tokenVars
  <1>1. TypeOK'
    BY DEF IInv, TypeOK
  <1>2. /\ configs'["regions"] = Opened(u, m) /\ configs'["realx"] = configs["realx"]
        /\ pots'["regions"] = Empty(m) /\ pots'["treasury"] = Empty(m)
        /\ pots'["realx"] = pots["realx"]
    BY DEF IInv, TypeOK, Programs, Pots
  <1>3. configs["realx"] = None /\ owed["regions"] = 0
    BY DEF IInv, TreasurySetUp, Standing, Programs
  <1>4. \A p \in Programs : Standing(p)'
    BY <1>2, <1>3 DEF IInv, Standing, Programs, require_supported_mint
  <1>5. TreasurySetUp' /\ OneMint'
    BY <1>2, <1>3 DEF TreasurySetUp, OneMint
  <1>6. DepositsCovered'
    BY <1>2, <1>3 DEF IInv, DepositsCovered, Programs
  <1> QED BY <1>1, <1>4, <1>5, <1>6 DEF IInv

LEMMA InitializeRealxOK ==
  ASSUME IInv, NEW u \in Users, NEW m \in Mints, InitializeRealx(u, m) PROVE IInv'
  <1> USE PotNames, Opening DEF InitializeRealx, tokenVars
  <1>1. TypeOK'
    BY DEF IInv, TypeOK
  <1>2. /\ configs'["realx"] = Opened(u, m) /\ configs'["regions"] = configs["regions"]
        /\ pots'["realx"] = Empty(m) /\ pots'["treasury"] = pots["treasury"]
        /\ pots'["regions"] = pots["regions"]
    BY DEF IInv, TypeOK, Programs, Pots
  <1>3. /\ configs["regions"] # None /\ configs["regions"].xcav_mint = m
        /\ owed["realx"] = 0
    BY DEF IInv, TreasurySetUp, Standing, Programs, TreasuryAccepts
  <1>4. \A p \in Programs : Standing(p)'
    BY <1>2, <1>3 DEF IInv, Standing, Programs, require_supported_mint
  <1>5. TreasurySetUp' /\ OneMint'
    BY <1>2, <1>3 DEF IInv, TreasurySetUp, OneMint
  <1>6. DepositsCovered'
    BY <1>2, <1>3 DEF IInv, DepositsCovered, Programs
  <1> QED BY <1>1, <1>4, <1>5, <1>6 DEF IInv

LEMMA UpdateAuthorityOK ==
  ASSUME IInv, NEW p \in Programs, NEW u \in Users, NEW new_authority \in Users,
         UpdateAuthority(p, u, new_authority)
  PROVE  IInv'
  <1> DEFINE c == [configs[p] EXCEPT !.authority = new_authority]
  <1>1. configs[p] # None /\ configs[p] \in Config
    BY DEF IInv, TypeOK, UpdateAuthority
  <1>2. c \in Config /\ c.xcav_mint = configs[p].xcav_mint /\ c # None
    BY <1>1, NoneAssumption DEF Config
  <1>3. configs'[p] = c /\ \A q \in Programs : q # p => configs'[q] = configs[q]
    BY DEF IInv, TypeOK, UpdateAuthority
  <1>4. TypeOK'
    BY <1>2 DEF IInv, TypeOK, UpdateAuthority, tokenVars
  <1>5. \A q \in Programs : /\ configs'[q] = None <=> configs[q] = None
                            /\ configs'[q].xcav_mint = configs[q].xcav_mint
    BY <1>1, <1>2, <1>3
  <1>6. \A q \in Programs : Standing(q)'
    BY <1>5 DEF IInv, Standing, require_supported_mint, UpdateAuthority, tokenVars
  <1>7. TreasurySetUp' /\ OneMint'
    BY <1>5 DEF IInv, TreasurySetUp, OneMint, UpdateAuthority, Programs
  <1>8. DepositsCovered'
    BY DEF IInv, DepositsCovered, UpdateAuthority
  <1> QED BY <1>4, <1>6, <1>7, <1>8 DEF IInv
-----------------------------------------------------------------------------
(* Deposits *)

\* Each vault rises by at least what its record does, or falls by no more.
LEMMA DepositStep ==
  ASSUME IInv, TypeOK', UNCHANGED <<mints, configs>>,
         \A t \in Pots : /\ pots'[t] = None <=> pots[t] = None
                         /\ pots[t] # None => pots'[t].mint = pots[t].mint,
         \A p \in Programs :
           IF configs[p] = None THEN owed'[p] = owed[p]
           ELSE pots'[p].amount - pots[p].amount >= owed'[p] - owed[p]
  PROVE  IInv'
  <1>1. ASSUME NEW p \in Programs PROVE Standing(p)'
    BY DEF IInv, Standing, require_supported_mint, Pots
  <1>2. TreasurySetUp' /\ OneMint'
    BY PotNames DEF IInv, TreasurySetUp, OneMint
  <1>3. DepositsCovered'
    <2> SUFFICES ASSUME NEW p \in Programs, owed'[p] > 0
                 PROVE  pots'[p].amount >= owed'[p]
      BY DEF DepositsCovered
    <2>1. configs[p] # None
      BY DEF IInv, Standing
    <2>2. pots[p] # None /\ pots'[p] # None
      BY <2>1 DEF IInv, Standing, Pots
    <2>3. /\ pots[p].amount \in Nat /\ pots'[p].amount \in Nat
          /\ owed[p] \in Nat /\ owed'[p] \in Nat
      BY <2>2 DEF IInv, TypeOK, TokenAccount, Pots
    <2>4. pots[p].amount >= owed[p]
      BY <2>3 DEF IInv, DepositsCovered
    <2> QED BY <2>1, <2>3, <2>4
  <1> QED BY <1>1, <1>2, <1>3 DEF IInv

LEMMA LockOK ==
  ASSUME IInv, NEW p \in Programs, NEW n \in Amounts, Lock(p, n) PROVE IInv'
  <1> DEFINE m == configs[p].xcav_mint
             a == pots[p].amount + n
  <1>1. /\ configs[p] # None /\ p \in Pots /\ pots[p] # None
        /\ require_supported_mint(m)
    BY DEF IInv, Standing, Lock, Pots
  <1>2. n \in Nat /\ m \in Mints /\ pots[p].amount \in Nat /\ Delivered(m, n) = n
    BY <1>1, AmountsPositive, DeliveredWhole DEF IInv, TypeOK, Config, TokenAccount
  <1>3. pots' = [pots EXCEPT ![p].amount = a] /\ a \in Nat
    BY <1>2 DEF Lock, Credited
  <1>4. /\ pots' \in [Pots -> TokenAccount \cup {None}]
        /\ pots'[p] # None /\ pots'[p].mint = pots[p].mint /\ pots'[p].amount = a
        /\ \A s \in Pots : s # p => pots'[s] = pots[s]
    BY <1>1, <1>3, AmountSet DEF IInv, TypeOK
  <1>5. owed'[p] = owed[p] + n /\ \A q \in Programs : q # p => owed'[q] = owed[q]
    BY DEF IInv, TypeOK, Lock
  <1>6. TypeOK'
    BY <1>2, <1>4 DEF IInv, TypeOK, Lock
  <1>7. ASSUME NEW q \in Programs
        PROVE  IF configs[q] = None THEN owed'[q] = owed[q]
               ELSE pots'[q].amount - pots[q].amount >= owed'[q] - owed[q]
    <2>1. CASE q = p
      BY <1>1, <1>2, <1>4, <1>5, <2>1 DEF IInv, TypeOK
    <2>2. CASE q # p /\ configs[q] # None
      <3>1. pots'[q] = pots[q] /\ owed'[q] = owed[q] /\ owed[q] \in Nat
        BY <1>4, <1>5, <2>2 DEF IInv, TypeOK, Pots
      <3>2. pots[q].amount \in Nat
        BY <2>2 DEF IInv, Standing, TypeOK, TokenAccount, Pots
      <3> QED BY <2>2, <3>1, <3>2
    <2> QED BY <1>5, <2>1, <2>2
  <1> QED BY <1>1, <1>4, <1>6, <1>7, DepositStep DEF Lock

LEMMA ReturnOK ==
  ASSUME IInv, NEW p \in Programs, NEW n \in Amounts, Return(p, n) PROVE IInv'
  <1> DEFINE m == configs[p].xcav_mint
             a == pots[p].amount - n
  <1>1. configs[p] # None /\ p \in Pots /\ pots[p] # None
    BY DEF IInv, Standing, Return, MayReturn, Pots
  <1>2. /\ n \in Nat /\ m \in Mints /\ pots[p].amount \in Nat /\ Delivered(m, n) \in Nat
        /\ owed[p] \in Nat /\ owed[p] >= n /\ pots[p].amount >= n
    BY <1>1, AmountsPositive, DeliveredNat DEF IInv, TypeOK, Config, TokenAccount, Return, MayReturn
  <1>3. pots' = [pots EXCEPT ![p].amount = a] /\ a \in Nat
    BY <1>2 DEF Return, MayReturn
  <1>4. /\ pots' \in [Pots -> TokenAccount \cup {None}]
        /\ pots'[p] # None /\ pots'[p].mint = pots[p].mint /\ pots'[p].amount = a
        /\ \A s \in Pots : s # p => pots'[s] = pots[s]
    BY <1>1, <1>3, AmountSet DEF IInv, TypeOK
  <1>5. owed'[p] = owed[p] - n /\ \A q \in Programs : q # p => owed'[q] = owed[q]
    BY DEF IInv, TypeOK, Return, MayReturn
  <1>6. TypeOK'
    BY <1>2, <1>4 DEF IInv, TypeOK, Return, MayReturn
  <1>7. ASSUME NEW q \in Programs
        PROVE  IF configs[q] = None THEN owed'[q] = owed[q]
               ELSE pots'[q].amount - pots[q].amount >= owed'[q] - owed[q]
    <2>1. CASE q = p
      BY <1>1, <1>2, <1>4, <1>5, <2>1
    <2>2. CASE q # p /\ configs[q] # None
      <3>1. pots'[q] = pots[q] /\ owed'[q] = owed[q] /\ owed[q] \in Nat
        BY <1>4, <1>5, <2>2 DEF IInv, TypeOK, Pots
      <3>2. pots[q].amount \in Nat
        BY <2>2 DEF IInv, Standing, TypeOK, TokenAccount, Pots
      <3> QED BY <2>2, <3>1, <3>2
    <2> QED BY <1>5, <2>1, <2>2
  <1> QED BY <1>1, <1>4, <1>6, <1>7, DepositStep DEF Return, MayReturn

\* Tokens that move from one account to another.
LEMMA SentOK ==
  ASSUME TypeOK, NEW s \in Pots, NEW t \in Pots, s # t, pots[s] # None, pots[t] # None,
         NEW n \in Nat, n <= pots[s].amount, NEW d \in Nat
  PROVE  LET g == Sent(s, t, n, d) IN
         /\ g \in [Pots -> TokenAccount \cup {None}]
         /\ g[s] # None /\ g[s].mint = pots[s].mint /\ g[s].amount = pots[s].amount - n
         /\ g[t] # None /\ g[t].mint = pots[t].mint /\ g[t].amount = pots[t].amount + d
         /\ \A r \in Pots : r # s /\ r # t => g[r] = pots[r]
  <1> DEFINE a == pots[s].amount - n
             b == pots[t].amount + d
             h == [pots EXCEPT ![s].amount = a]
             g == [h EXCEPT ![t].amount = b]
  <1>1. /\ pots \in [Pots -> TokenAccount \cup {None}]
        /\ pots[s].amount \in Nat /\ pots[t].amount \in Nat
    BY DEF TypeOK, TokenAccount
  <1>2. a \in Nat /\ b \in Nat
    BY <1>1
  <1>3. Sent(s, t, n, d) = g
    BY <1>1 DEF Sent
  <1> HIDE DEF a, b
  <1>4. /\ h \in [Pots -> TokenAccount \cup {None}]
        /\ h[s] # None /\ h[s].mint = pots[s].mint /\ h[s].amount = a
        /\ \A r \in Pots : r # s => h[r] = pots[r]
    BY <1>1, <1>2, AmountSet
  <1> HIDE DEF h
  <1>5. h[t] # None
    BY <1>4
  <1>6. /\ g \in [Pots -> TokenAccount \cup {None}]
        /\ g[t] # None /\ g[t].mint = h[t].mint /\ g[t].amount = b
        /\ \A r \in Pots : r # t => g[r] = h[r]
    BY <1>2, <1>4, <1>5, AmountSet
  <1> HIDE DEF g
  <1> QED BY <1>3, <1>4, <1>6 DEF a, b

LEMMA SlashOK ==
  ASSUME IInv, NEW n \in Amounts, Slash(n) PROVE IInv'
  <1> DEFINE m == configs["realx"].xcav_mint
  <1> USE PotNames
  <1>1. /\ "realx" \in Programs /\ configs["realx"] # None /\ pots["realx"] # None
        /\ pots["treasury"] # None
    BY DEF IInv, Standing, TreasurySetUp, Slash, MaySlash, Programs
  <1>2. /\ n \in Nat /\ pots["realx"].amount \in Nat /\ Delivered(m, n) \in Nat
        /\ pots["treasury"].amount \in Nat
        /\ owed["realx"] \in Nat /\ owed["realx"] >= n /\ pots["realx"].amount >= n
    BY <1>1, AmountsPositive, DeliveredNat DEF IInv, TypeOK, TokenAccount, Slash, MaySlash
  <1>3. pots' = Sent("realx", "treasury", n, Delivered(m, n))
    BY DEF Slash, MaySlash
  <1>4. /\ pots' \in [Pots -> TokenAccount \cup {None}]
        /\ pots'["realx"] # None /\ pots'["realx"].mint = pots["realx"].mint
        /\ pots'["realx"].amount = pots["realx"].amount - n
        /\ pots'["treasury"] # None /\ pots'["treasury"].mint = pots["treasury"].mint
        /\ pots'["regions"] = pots["regions"]
    <2>1. TypeOK /\ n <= pots["realx"].amount
      BY <1>2 DEF IInv
    <2>2. "realx" # "treasury" /\ "regions" # "realx" /\ "regions" # "treasury"
      OBVIOUS
    <2> QED BY <1>1, <1>2, <1>3, <2>1, <2>2, SentOK
  <1>5. owed'["realx"] = owed["realx"] - n /\ owed'["regions"] = owed["regions"]
    BY DEF IInv, TypeOK, Slash, MaySlash, Programs
  <1>6. TypeOK'
    <2>1. owed' = [owed EXCEPT !["realx"] = owed["realx"] - n] /\ owed["realx"] - n \in Nat
      BY <1>2 DEF Slash, MaySlash
    <2>2. owed' \in [Programs -> Nat]
      BY <2>1 DEF IInv, TypeOK
    <2> QED BY <1>4, <2>2 DEF IInv, TypeOK, Slash, MaySlash, tokenVars
  <1>7. ASSUME NEW q \in Programs
        PROVE  IF configs[q] = None THEN owed'[q] = owed[q]
               ELSE pots'[q].amount - pots[q].amount >= owed'[q] - owed[q]
    <2>1. CASE q = "realx"
      BY <1>1, <1>2, <1>4, <1>5, <2>1
    <2>2. CASE q = "regions" /\ configs[q] # None
      <3>1. pots[q].amount \in Nat /\ owed[q] \in Nat
        BY <2>2 DEF IInv, Standing, TypeOK, TokenAccount
      <3> QED BY <1>4, <1>5, <2>2, <3>1
    <2> QED BY <1>5, <2>1, <2>2 DEF Programs
  <1>8. \A t \in Pots : /\ pots'[t] = None <=> pots[t] = None
                        /\ pots[t] # None => pots'[t].mint = pots[t].mint
    BY <1>1, <1>4 DEF Pots, Programs
  <1>9. UNCHANGED <<mints, configs>>
    BY DEF Slash, MaySlash, tokenVars
  <1> HIDE DEF m
  <1> QED BY <1>6, <1>7, <1>8, <1>9, DepositStep

LEMMA WithdrawOK ==
  ASSUME IInv, NEW u \in Users, NEW n \in Amounts, NEW to \in Programs \cup {None},
         WithdrawTreasury(u, n, to)
  PROVE  IInv'
  <1> DEFINE m == configs["regions"].xcav_mint
             a == pots["treasury"].amount - n
  <1> USE PotNames
  <1>1. pots["treasury"] # None /\ m \in Mints
    BY DEF IInv, TreasurySetUp, TypeOK, Config, Programs, WithdrawTreasury, MayWithdraw
  <1>2. /\ n \in Nat /\ pots["treasury"].amount \in Nat /\ Delivered(m, n) \in Nat
        /\ a \in Nat
    BY <1>1, AmountsPositive, DeliveredNat DEF IInv, TypeOK, TokenAccount, WithdrawTreasury, MayWithdraw
  <1>3. CASE to = None
    <2>1. pots' = [pots EXCEPT !["treasury"].amount = a]
      BY <1>3, TreasuryAssumption DEF WithdrawTreasury, MayWithdraw, Pots
    <2>2. /\ pots' \in [Pots -> TokenAccount \cup {None}]
          /\ pots'["treasury"] # None /\ pots'["treasury"].mint = pots["treasury"].mint
          /\ \A s \in Pots : s # "treasury" => pots'[s] = pots[s]
      BY <1>1, <1>2, <2>1, AmountSet DEF IInv, TypeOK
    <2>3. wallets' = [wallets EXCEPT ![m] = @ + Delivered(m, n)]
      BY <1>3, TreasuryAssumption DEF WithdrawTreasury, MayWithdraw, Pots
    <2>4. TypeOK'
      <3>1. UNCHANGED <<mints, paused, frozen, configs, owed>>
        BY DEF WithdrawTreasury, MayWithdraw
      <3>2. wallets' \in [Mints -> Nat]
        <4>1. wallets[m] + Delivered(m, n) \in Nat
          BY <1>1, <1>2 DEF IInv, TypeOK
        <4> HIDE DEF m
        <4> QED BY <1>1, <2>3, <4>1 DEF IInv, TypeOK
      <3> QED BY <2>2, <3>1, <3>2 DEF IInv, TypeOK
    <2>5. \A p \in Programs : pots[p] # None => pots'[p].amount >= pots[p].amount
      BY <2>2 DEF IInv, TypeOK, TokenAccount, Programs, Pots
    <2>6. UNCHANGED <<mints, configs, owed>>
      BY DEF WithdrawTreasury, MayWithdraw
    <2> QED BY <1>1, <2>2, <2>4, <2>5, <2>6, PotsStep
  <1>4. CASE to \in Programs
    <2>1. to \in Pots /\ to # "treasury" /\ to # None /\ pots[to] # None
      BY <1>4, TreasuryAssumption DEF WithdrawTreasury, MayWithdraw, Pots, Programs
    <2>2. pots[to].amount \in Nat /\ n <= pots["treasury"].amount
      BY <1>2, <2>1 DEF IInv, TypeOK, TokenAccount, WithdrawTreasury, MayWithdraw
    <2>3. pots' = Sent("treasury", to, n, Delivered(m, n))
      BY <2>1 DEF WithdrawTreasury, MayWithdraw
    <2>4. /\ pots' \in [Pots -> TokenAccount \cup {None}]
          /\ pots'["treasury"] # None /\ pots'["treasury"].mint = pots["treasury"].mint
          /\ pots'[to] # None /\ pots'[to].mint = pots[to].mint
          /\ pots'[to].amount = pots[to].amount + Delivered(m, n)
          /\ \A s \in Pots : s # "treasury" /\ s # to => pots'[s] = pots[s]
      <3>1. TypeOK
        BY DEF IInv
      <3>2. "treasury" # to /\ n \in Nat /\ Delivered(m, n) \in Nat
        BY <1>2, <2>1
      <3> HIDE DEF m
      <3> QED BY <1>1, <2>1, <2>2, <2>3, <3>1, <3>2, SentOK
    <2>5. UNCHANGED <<mints, paused, frozen, configs, owed, wallets>>
      BY <2>1 DEF WithdrawTreasury, MayWithdraw
    <2>6. TypeOK'
      BY <2>4, <2>5 DEF IInv, TypeOK
    <2>7. \A p \in Programs : pots[p] # None => pots'[p].amount >= pots[p].amount
      BY <1>2, <2>2, <2>4 DEF IInv, TypeOK, TokenAccount, Programs, Pots
    <2> QED BY <1>1, <2>1, <2>4, <2>5, <2>6, <2>7, PotsStep
  <1> QED BY <1>3, <1>4
-----------------------------------------------------------------------------
LEMMA StutterOK == IInv /\ UNCHANGED treasuryVars => IInv'
  BY DEF IInv, TypeOK, Standing, TreasurySetUp, OneMint, DepositsCovered,
         require_supported_mint, treasuryVars, tokenVars

LEMMA NextOK ==
  ASSUME IInv, Next PROVE IInv'
  <1>1. CASE \E m \in Mints : \E kind \in Kinds : CreateMint(m, kind)
    BY <1>1, CreateMintOK
  <1>2. CASE \E m \in Mints : CloseMint(m)
    BY <1>2, CloseMintOK
  <1>3. CASE \E m \in Mints : Pause(m)
    BY <1>3, PauseOK
  <1>4. CASE \E m \in Mints, n \in Amounts : Issue(m, n)
    BY <1>4, IssueOK
  <1>5. CASE \E m \in Mints, t \in Pots \cup {None} : Seize(m, t)
    BY <1>5, SeizeOK
  <1>6. CASE \E m \in Mints, u \in Users : InitializeRegions(u, m) \/ InitializeRealx(u, m)
    BY <1>6, InitializeRegionsOK, InitializeRealxOK
  <1>7. CASE \E t \in Pots : Freeze(t)
    BY <1>7, FreezeOK
  <1>8. CASE \E t \in Pots, n \in Amounts : Stray(t, n)
    BY <1>8, StrayOK
  <1>9. CASE \E p \in Programs, u \in Users, new_authority \in Users :
               UpdateAuthority(p, u, new_authority)
    BY <1>9, UpdateAuthorityOK
  <1>10. CASE \E u \in Users, n \in Amounts, to \in Programs \cup {None} :
                WithdrawTreasury(u, n, to)
    BY <1>10, WithdrawOK
  <1>11. CASE \E p \in Programs, n \in Amounts : Lock(p, n) \/ Return(p, n)
    BY <1>11, LockOK, ReturnOK
  <1>12. CASE \E n \in Amounts : Slash(n)
    BY <1>12, SlashOK
  <1> QED BY <1>1, <1>2, <1>3, <1>4, <1>5, <1>6, <1>7, <1>8, <1>9, <1>10, <1>11, <1>12
             DEF Next

LEMMA Inductive == Spec => []IInv
  <1>1. IInv /\ [Next]_treasuryVars => IInv'
    BY NextOK, StutterOK
  <1> QED BY <1>1, InitOK, PTL DEF Spec

\* The vaults of both programs always hold the deposits on record, whatever mints
\* exist and whoever has powers over them: the guard that both initializations
\* make keeps out every mint whose tokens could shrink in a vault.
THEOREM DepositsTheorem == Spec => []DepositsCovered
  <1>1. IInv => DepositsCovered
    BY DEF IInv
  <1> QED BY <1>1, Inductive, PTL

\* A slash of real-x-education always finds a treasury of its own mint, whichever
\* mint either program was initialized with and in whatever order.
TreasuryFits ==
  configs["realx"] # None =>
    pots["treasury"] # None /\ pots["treasury"].mint = configs["realx"].xcav_mint

\* Slashing is never blocked by a treasury that is missing or of another mint.
THEOREM TreasuryTheorem == Spec => []TreasuryFits
  <1>1. IInv => TreasuryFits
    BY DEF IInv, TreasurySetUp, OneMint, TreasuryFits
  <1> QED BY <1>1, Inductive, PTL

\* Transfers of a mint are held up only while it has a switch for that.
SwitchKept == \A m \in paused : Has(m, "Pausable") \/ Has(m, "TransferHook")

LEMMA SwitchStep == TypeOK /\ SwitchKept /\ [Next]_treasuryVars => SwitchKept'
  <1> SUFFICES ASSUME TypeOK, SwitchKept, [Next]_treasuryVars,
                      NEW m \in paused'
               PROVE  (Has(m, "Pausable") \/ Has(m, "TransferHook"))'
    BY DEF SwitchKept
  <1>1. CASE UNCHANGED <<mints, paused>>
    BY <1>1 DEF SwitchKept, Has
  <1>2. CASE \E q \in Mints, kind \in Kinds : CreateMint(q, kind)
    <2> PICK q \in Mints, kind \in Kinds : CreateMint(q, kind)
      BY <1>2
    <2>1. m \in paused /\ mints[m] # None /\ mints[q] = None
      BY DEF CreateMint, SwitchKept, Has
    <2>2. mints'[m] = mints[m]
      BY <2>1 DEF CreateMint, TypeOK
    <2> QED BY <2>1, <2>2 DEF SwitchKept, Has
  <1>3. CASE \E q \in Mints : CloseMint(q)
    <2> PICK q \in Mints : CloseMint(q)
      BY <1>3
    <2>1. m \in paused /\ m # q
      BY DEF CloseMint
    <2>2. mints'[m] = mints[m]
      BY <2>1 DEF CloseMint, TypeOK
    <2> QED BY <2>1, <2>2 DEF SwitchKept, Has
  <1>4. CASE \E q \in Mints : Pause(q)
    BY <1>4 DEF Pause, SwitchKept, Has
  <1>5. CASE UNCHANGED treasuryVars
    BY <1>1, <1>5 DEF treasuryVars, tokenVars
  <1> QED
    BY <1>1, <1>2, <1>3, <1>4, <1>5
    DEF Next, Issue, Seize, InitializeRegions, InitializeRealx, Freeze, Stray,
        UpdateAuthority, WithdrawTreasury, Lock, Return, Slash, tokenVars

\* A mint in use moves: the guard has let in none that could be held up.
LEMMA InUseTransferable ==
  ASSUME IInv, SwitchKept, NEW m \in Mints, require_supported_mint(m)
  PROVE  Transferable(m)
  <1>1. mints[m] # None /\ mints[m] \cap {"NonTransferable", "DefaultAccountState"} = {}
    BY DEF require_supported_mint, Rejected
  <1>2. m \notin paused
    BY Supported DEF SwitchKept
  <1> QED BY <1>1, <1>2 DEF Transferable

LEMMA OwedReturnable ==
  ASSUME IInv, SwitchKept, NEW p \in Programs, owed[p] > 0
  PROVE  /\ configs[p] # None /\ owed[p] \in Nat /\ pots[p].amount >= owed[p]
         /\ Transferable(configs[p].xcav_mint)
  <1>1. configs[p] # None /\ require_supported_mint(configs[p].xcav_mint)
    BY DEF IInv, Standing
  <1>2. configs[p].xcav_mint \in Mints
    BY <1>1 DEF IInv, TypeOK, Config
  <1>3. owed[p] \in Nat /\ pots[p].amount >= owed[p]
    BY DEF IInv, TypeOK, DepositsCovered
  <1> QED BY <1>1, <1>2, <1>3, InUseTransferable

LEMMA Movable == IInv /\ SwitchKept => FundsMovable
  <1> SUFFICES ASSUME IInv, SwitchKept PROVE FundsMovable
    OBVIOUS
  <1>1. ASSUME NEW p \in Programs \ frozen, owed[p] > 0 PROVE MayReturn(p, owed[p])
    BY <1>1, OwedReturnable DEF MayReturn
  <1>2. ASSUME frozen \cap {"realx", "treasury"} = {}, owed["realx"] > 0
        PROVE  MaySlash(owed["realx"])
    <2>1. "realx" \in Programs
      BY DEF Programs
    <2>2. /\ configs["realx"] # None /\ owed["realx"] \in Nat
          /\ pots["realx"].amount >= owed["realx"]
          /\ Transferable(configs["realx"].xcav_mint)
      BY <1>2, <2>1, OwedReturnable
    <2>3. pots["treasury"].mint = configs["realx"].xcav_mint
      BY <2>2 DEF IInv, TreasurySetUp, OneMint
    <2> QED BY <1>2, <2>2, <2>3 DEF MaySlash
  <1>3. ASSUME "treasury" \notin frozen, pots["treasury"] # None
        PROVE  MayWithdraw(configs["regions"].authority, pots["treasury"].amount, None)
    <2>1. "regions" \in Programs /\ configs["regions"] # None
      BY <1>3 DEF IInv, TreasurySetUp, Programs
    <2>2. /\ configs["regions"].xcav_mint \in Mints
          /\ require_supported_mint(configs["regions"].xcav_mint)
      BY <2>1 DEF IInv, TypeOK, Config, Standing
    <2>3. Transferable(configs["regions"].xcav_mint)
      BY <2>2, InUseTransferable
    <2>4. pots["treasury"].amount \in Nat
      BY <1>3, PotNames DEF IInv, TypeOK, TokenAccount
    <2>5. frozen \cap {"treasury", None} = {}
      BY <1>3, TreasuryAssumption DEF IInv, TypeOK
    <2> QED BY <2>1, <2>3, <2>4, <2>5 DEF MayWithdraw
  <1> QED BY <1>1, <1>2, <1>3 DEF FundsMovable

\* Deposits can always be returned and slashed, and the treasury emptied, unless
\* an account of theirs is frozen: whatever mints were created, closed, paused or
\* seized from, and in whichever order the programs were initialized.
THEOREM MovableTheorem == Spec => []FundsMovable
  <1>1. IInv /\ SwitchKept /\ [Next]_treasuryVars => SwitchKept'
    BY SwitchStep DEF IInv
  <1>2. Init => SwitchKept
    BY DEF Init, SwitchKept
  <1>3. Spec => []SwitchKept
    BY <1>1, <1>2, Inductive, PTL DEF Spec
  <1> QED BY <1>3, Movable, Inductive, PTL
-----------------------------------------------------------------------------
(* The registry of roles *)

\* How the other programs see an assignment, and all of them.
Seen(x) == IF x = None THEN "Absent" ELSE x
Standings == [u \in Users |-> [r \in RoleNames |-> Seen(assignments[u][r])]]

LEMMA RegistryInit == R!Init => R!TypeOK
  BY DEF R!Init, R!TypeOK

\* One assignment set: the others stay as they were.
LEMMA AssignedOK ==
  ASSUME R!TypeOK, NEW u \in Users, NEW r \in RoleNames,
         NEW x \in R!Permissions \cup {None},
         assignments' = R!Assigned(u, r, x)
  PROVE  /\ assignments' \in [Users -> [RoleNames -> R!Permissions \cup {None}]]
         /\ Standings' = [Standings EXCEPT ![u][r] = Seen(x)]
         /\ Standings[u][r] = Seen(assignments[u][r])
  <1>1. assignments \in [Users -> [RoleNames -> R!Permissions \cup {None}]]
    BY DEF R!TypeOK
  <1>2. \A v \in Users : \A q \in RoleNames :
          assignments'[v][q] = IF v = u /\ q = r THEN x ELSE assignments[v][q]
    BY <1>1 DEF R!Assigned
  <1>3. assignments' \in [Users -> [RoleNames -> R!Permissions \cup {None}]]
    BY <1>1 DEF R!Assigned
  <1>4. Standings' = [v \in Users |-> [q \in RoleNames |->
                        IF v = u /\ q = r THEN Seen(x) ELSE Seen(assignments[v][q])]]
    <2>1. \A v \in Users : \A q \in RoleNames :
            Seen(assignments'[v][q])
              = IF v = u /\ q = r THEN Seen(x) ELSE Seen(assignments[v][q])
      BY <1>2
    <2>2. Standings' = [v \in Users |-> [q \in RoleNames |-> Seen(assignments'[v][q])]]
      BY DEF Standings, Seen
    <2> QED BY <2>1, <2>2
  <1>5. [Standings EXCEPT ![u][r] = Seen(x)]
          = [v \in Users |-> [q \in RoleNames |->
               IF v = u /\ q = r THEN Seen(x) ELSE Seen(assignments[v][q])]]
    BY DEF Standings
  <1>6. Standings[u][r] = Seen(assignments[u][r])
    BY DEF Standings
  <1> QED BY <1>3, <1>4, <1>5, <1>6

LEMMA RegistryStep == R!TypeOK /\ [R!Next]_(R!registryVars) => R!TypeOK'
  <1> SUFFICES ASSUME R!TypeOK, [R!Next]_(R!registryVars) PROVE R!TypeOK'
    OBVIOUS
  <1>1. ASSUME NEW u \in Users, R!InitializeConfig(u) PROVE R!TypeOK'
    BY <1>1 DEF R!TypeOK, R!InitializeConfig
  <1>2. ASSUME NEW u \in Users, NEW v \in Users,
               R!UpdateAuthority(u, v) \/ R!AddAdmin(u, v) \/ R!RemoveAdmin(u, v)
        PROVE  R!TypeOK'
    BY <1>2 DEF R!TypeOK, R!UpdateAuthority, R!AddAdmin, R!RemoveAdmin
  <1>3. ASSUME NEW u \in Users, NEW r \in RoleNames, NEW x \in R!Permissions \cup {None},
               assignments' = R!Assigned(u, r, x), UNCHANGED <<authority, admins>>
        PROVE  R!TypeOK'
    BY <1>3, AssignedOK DEF R!TypeOK
  <1>4. ASSUME NEW u \in Users, NEW r \in RoleNames, R!RenounceRole(u, r)
        PROVE  R!TypeOK'
    BY <1>3, <1>4 DEF R!RenounceRole, R!Closed
  <1>5. ASSUME NEW u \in Users, NEW r \in RoleNames, NEW admin \in Users,
               R!AssignRole(admin, u, r) \/ R!RemoveRole(admin, u, r)
        PROVE  R!TypeOK'
    BY <1>3, <1>5 DEF R!AssignRole, R!RemoveRole, R!Closed, R!Permissions
  <1>6. ASSUME NEW u \in Users, NEW r \in RoleNames, NEW admin \in Users,
               NEW permission \in R!Permissions, R!SetPermission(admin, u, r, permission)
        PROVE  R!TypeOK'
    BY <1>3, <1>6 DEF R!SetPermission
  <1>7. CASE UNCHANGED R!registryVars
    BY <1>7 DEF R!registryVars, R!TypeOK
  <1> QED BY <1>1, <1>2, <1>4, <1>5, <1>6, <1>7 DEF R!Next

LEMMA GateInit == R!Init => R!Gate!Init
  <1> SUFFICES ASSUME R!Init PROVE R!Gate!Init
    OBVIOUS
  <1>1. \A u \in Users : \A r \in RoleNames : assignments[u][r] = None
    BY DEF R!Init
  <1> QED BY <1>1 DEF R!Init, R!Gate!Init

\* The actions of RoleGate, read off the assignments.
LEMMA GateReads ==
  ASSUME NEW u \in Users, NEW r \in RoleNames
  PROVE  /\ (admins # {} /\ Standings[u][r] = "Absent" /\ R!Gate!Moved(u, r, "Compliant"))
              => R!Gate!Grant(u, r)
         /\ (admins # {} /\ Standings[u][r] = "Compliant" /\ R!Gate!Moved(u, r, "Revoked"))
              => R!Gate!Judge(u, r)
         /\ (admins # {} /\ Standings[u][r] = "Revoked" /\ R!Gate!Moved(u, r, "Compliant"))
              => R!Gate!Judge(u, r)
         /\ (Standings[u][r] # "Absent" /\ R!Gate!Moved(u, r, "Absent"))
              => R!Gate!Leave(u, r)
  BY DEF R!Gate!Grant, R!Gate!Judge, R!Gate!Leave, Seen, Standings

LEMMA GateStep == R!TypeOK /\ [R!Next]_(R!registryVars) => [R!Gate!Next]_(R!Gate!gateVars)
  <1> SUFFICES ASSUME R!TypeOK, [R!Next]_(R!registryVars)
               PROVE  R!Gate!Next \/ UNCHANGED R!Gate!gateVars
    OBVIOUS
  <1>1. ASSUME UNCHANGED assignments PROVE R!Gate!Next
    BY <1>1 DEF R!Gate!Next
  <1>2. ASSUME NEW u \in Users, NEW r \in RoleNames, NEW x \in R!Permissions \cup {None},
               assignments' = R!Assigned(u, r, x), UNCHANGED admins,
               Seen(assignments[u][r]) # Seen(x),
               admins # {} \/ x = None,
               assignments[u][r] = None => x = "Compliant"
        PROVE  R!Gate!Next
    <2>1. /\ Standings' = [Standings EXCEPT ![u][r] = Seen(x)]
          /\ Standings[u][r] = Seen(assignments[u][r])
      BY <1>2, AssignedOK
    <2>2. R!Gate!Moved(u, r, Seen(x))
      BY <2>1 DEF Standings, Seen, R!Gate!Moved
    <2>3. assignments[u][r] \in R!Permissions \cup {None}
      BY DEF R!TypeOK
    <2>4. /\ Seen(assignments[u][r]) \in {"Absent", "Compliant", "Revoked"}
          /\ Seen(x) \in {"Absent", "Compliant", "Revoked"}
      BY <2>3 DEF Seen, R!Permissions
    <2>5. ASSUME Seen(x) = "Absent" PROVE R!Gate!Leave(u, r)
      BY <1>2, <2>1, <2>2, <2>5, GateReads
    <2>6. ASSUME Seen(x) # "Absent", Standings[u][r] = "Absent" PROVE R!Gate!Grant(u, r)
      <3>1. x # None /\ assignments[u][r] = None
        BY <2>1, <2>3, <2>6, RegistryAssumption DEF Seen, R!Permissions
      <3>2. x = "Compliant" /\ admins # {}
        BY <1>2, <3>1
      <3>3. Seen(x) = "Compliant"
        BY <3>1, <3>2 DEF Seen
      <3> QED BY <2>2, <2>6, <3>2, <3>3, GateReads
    <2>7. ASSUME Seen(x) # "Absent", Standings[u][r] # "Absent" PROVE R!Gate!Judge(u, r)
      <3>1. admins # {}
        BY <1>2, <2>7 DEF Seen
      <3>2. \/ Standings[u][r] = "Compliant" /\ Seen(x) = "Revoked"
            \/ Standings[u][r] = "Revoked" /\ Seen(x) = "Compliant"
        BY <1>2, <2>1, <2>4, <2>7
      <3>3. CASE Standings[u][r] = "Compliant" /\ R!Gate!Moved(u, r, "Revoked")
        BY <3>1, <3>3, GateReads
      <3>4. CASE Standings[u][r] = "Revoked" /\ R!Gate!Moved(u, r, "Compliant")
        BY <3>1, <3>4, GateReads
      <3> QED BY <2>2, <3>2, <3>3, <3>4
    <2>8. R!Gate!Grant(u, r) \/ R!Gate!Judge(u, r) \/ R!Gate!Leave(u, r)
      BY <2>5, <2>6, <2>7
    <2>9. (admins # {}) = (admins' # {})
      BY <1>2
    <2> QED BY <2>8, <2>9 DEF R!Gate!Next
  <1>3. ASSUME NEW u \in Users, R!InitializeConfig(u) PROVE R!Gate!Next
    BY <1>1, <1>3 DEF R!InitializeConfig
  <1>4. ASSUME NEW u \in Users, NEW v \in Users,
               R!UpdateAuthority(u, v) \/ R!AddAdmin(u, v) \/ R!RemoveAdmin(u, v)
        PROVE  R!Gate!Next
    BY <1>1, <1>4 DEF R!UpdateAuthority, R!AddAdmin, R!RemoveAdmin
  <1>5. ASSUME NEW u \in Users, NEW r \in RoleNames,
               assignments' = R!Closed(u, r), assignments[u][r] # None, UNCHANGED admins
        PROVE  R!Gate!Next
    <2>1. assignments[u][r] \in R!Permissions
      BY <1>5 DEF R!TypeOK
    <2>2. Seen(assignments[u][r]) # Seen(None)
      BY <1>5, <2>1 DEF Seen, R!Permissions
    <2> QED BY <1>2, <1>5, <2>2 DEF R!Closed
  <1>6. ASSUME NEW u \in Users, NEW r \in RoleNames, R!RenounceRole(u, r)
        PROVE  R!Gate!Next
    BY <1>5, <1>6 DEF R!RenounceRole
  <1>7. ASSUME NEW u \in Users, NEW r \in RoleNames, NEW admin \in Users,
               R!RemoveRole(admin, u, r)
        PROVE  R!Gate!Next
    BY <1>5, <1>7 DEF R!RemoveRole
  <1>8. ASSUME NEW u \in Users, NEW r \in RoleNames, NEW admin \in Users,
               R!AssignRole(admin, u, r)
        PROVE  R!Gate!Next
    <2>1. /\ assignments[u][r] = None /\ admins # {} /\ UNCHANGED admins
          /\ assignments' = R!Assigned(u, r, "Compliant")
      BY <1>8 DEF R!AssignRole
    <2>2. "Compliant" \in R!Permissions /\ "Compliant" # None
      BY RegistryAssumption DEF R!Permissions
    <2>3. Seen(assignments[u][r]) # Seen("Compliant")
      BY <2>1, <2>2 DEF Seen
    <2> QED BY <1>2, <2>1, <2>2, <2>3
  <1>9. ASSUME NEW u \in Users, NEW r \in RoleNames, NEW admin \in Users,
               NEW permission \in R!Permissions, R!SetPermission(admin, u, r, permission)
        PROVE  R!Gate!Next
    <2>1. /\ assignments[u][r] # None /\ assignments[u][r] # permission
          /\ admins # {} /\ UNCHANGED admins
          /\ assignments' = R!Assigned(u, r, permission)
      BY <1>9 DEF R!SetPermission
    <2>2. permission # None
      BY RegistryAssumption
    <2>3. Seen(assignments[u][r]) # Seen(permission)
      BY <2>1, <2>2 DEF Seen
    <2> QED BY <1>2, <2>1, <2>3
  <1>10. CASE UNCHANGED R!registryVars
    BY <1>1, <1>10 DEF R!registryVars
  <1> QED BY <1>3, <1>4, <1>6, <1>7, <1>8, <1>9, <1>10 DEF R!Next

\* A step of the administration is a step of the programs or of the registry, and
\* both start as they do alone.
LEMMA BothAlone == MCSpec => Spec /\ R!Spec
  <1>1. MCInit => Init /\ R!Init
    BY DEF MCInit
  <1>2. [MCNext]_<<treasuryVars, registryVars>> =>
          [Next]_treasuryVars /\ [R!Next]_(R!registryVars)
    BY DEF MCNext, registryVars, R!registryVars
  <1> QED BY <1>1, <1>2, PTL DEF MCSpec, Spec, R!Spec

\* Every account of both programs, of the token program and of the registry stays
\* well formed: no vault goes below zero, and a role account is compliant, revoked
\* or absent.
THEOREM TypeCorrect == MCSpec => []MCTypeOK
  <1>1. IInv /\ R!TypeOK => MCTypeOK
    BY DEF IInv, MCTypeOK
  <1> QED BY <1>1, BothAlone, Inductive, RegistryInit, RegistryStep, PTL DEF R!Spec

\* What sudo, admins and holders do to the accounts of xcavate-roles, in any order,
\* shows to the other programs as one role account at a time appearing, judged or
\* disappearing, a new one compliant, and nobody without an admin granting.
THEOREM RoleGateTheorem == MCSpec => RolesGated
  BY BothAlone, RegistryInit, RegistryStep, GateInit, GateStep, PTL
     DEF R!Spec, RolesGated, R!ImplementsRoleGate, R!Gate!Spec
=============================================================================
