--------------------------- MODULE CollateralVault ---------------------------
(***************************************************************************)
(* contracts/src/CollateralVault.sol and the USDC token it holds.  Vault   *)
(* storage is the record `vault`; `usdc` is the token's balance per        *)
(* account (external, an ERC-20: a transfer moves an amount or reverts).   *)
(*                                                                         *)
(* The operators over `vault` and `usdc` are shared with Exchange.  In the *)
(* specification below the engines and the position registry are the       *)
(* environment: any engine call may come at any time, and isWithdrawSafe   *)
(* may answer either way.                                                  *)
(***************************************************************************)
EXTENDS Integers, Parties

CONSTANTS
    Accounts,       \* token holders: users, VAULT, the fund, keepers
    VAULT,          \* the vault's own address
    Amounts,        \* amounts the environment passes
    MaxSupply,      \* bound: tokens every account other than the vault starts with
    MaxBalance      \* bound: no deposit or settlement takes a balance past it

ASSUME VaultAssumption ==
    /\ Users \subseteq Accounts
    /\ VAULT \in Accounts \ Users
    /\ Amounts \subseteq Nat
    /\ MaxSupply \in Nat
    /\ MaxBalance \in Nat

VARIABLES vault, usdc

vaultVars == <<vault, usdc>>

VaultType == [balances : [Users -> Nat], totalDeposits : Nat]

-----------------------------------------------------------------------------
Transfer(t, from, to, amount) ==
    LET debited == [t EXCEPT ![from] = @ - amount]
    IN  [debited EXCEPT ![to] = @ + amount]

\* The storage after a balance changes by delta and totalDeposits by total.
Moved(v, u, delta, total) ==
    [balances |-> [v.balances EXCEPT ![u] = @ + delta],
     totalDeposits |-> v.totalDeposits + total]

\* applySettlement: balances move, totalDeposits does not.
CanApplySettlement(v, u, delta) == v.balances[u] + delta >= 0

SettlementApplied(v, u, delta) == Moved(v, u, delta, 0)

(***************************************************************************)
(* seizeForLiquidation: the whole balance leaves, at most `bonus` of it to *)
(* the liquidator and the rest to the fund.  `totalDeposits -= userBal` is *)
(* checked arithmetic, so it reverts when the balance exceeds it.          *)
(***************************************************************************)
CanSeize(v, t, u) ==
    /\ v.totalDeposits >= v.balances[u]
    /\ t[VAULT] >= v.balances[u]

Seized(v, u) == Moved(v, u, -v.balances[u], -v.balances[u])

BonusPaid(v, u, bonus) == IF v.balances[u] >= bonus THEN bonus ELSE v.balances[u]

SeizedTokens(v, t, u, liquidator, fund, bonus) ==
    LET paid == BonusPaid(v, u, bonus)
    IN  Transfer(Transfer(t, VAULT, liquidator, paid), VAULT, fund, v.balances[u] - paid)

\* debitToExternal: pays what the balance covers, out of totalDeposits too.
DebitPaid(v, u, amount) == IF amount > v.balances[u] THEN v.balances[u] ELSE amount

CanDebit(v, t, u, amount) ==
    /\ v.totalDeposits >= DebitPaid(v, u, amount)
    /\ t[VAULT] >= DebitPaid(v, u, amount)

\* Mutant: the debit leaves totalDeposits alone, as applySettlement does.
DebitedKeepsTotal(v, u, amount) == Moved(v, u, -DebitPaid(v, u, amount), 0)

Debited(v, u, amount) == Moved(v, u, -DebitPaid(v, u, amount), -DebitPaid(v, u, amount))

DebitedTokens(v, t, u, recipient, amount) ==
    Transfer(t, VAULT, recipient, DebitPaid(v, u, amount))

-----------------------------------------------------------------------------
Deposit(u, amount) ==
    /\ amount > 0
    /\ usdc[u] >= amount
    /\ vault' = Moved(vault, u, amount, amount)
    /\ usdc' = Transfer(usdc, u, VAULT, amount)

\* `safe` is the registry's isWithdrawSafe(u, amount).
Withdraw(u, amount, safe) ==
    /\ vault.balances[u] >= amount
    /\ safe
    /\ vault.totalDeposits >= amount
    /\ usdc[VAULT] >= amount
    /\ vault' = Moved(vault, u, -amount, -amount)
    /\ usdc' = Transfer(usdc, VAULT, u, amount)

ApplySettlement(u, delta) ==
    /\ delta # 0
    /\ CanApplySettlement(vault, u, delta)
    /\ vault' = SettlementApplied(vault, u, delta)
    /\ UNCHANGED usdc

SeizeForLiquidation(u, liquidator, fund, bonus) ==
    /\ CanSeize(vault, usdc, u)
    /\ vault' = Seized(vault, u)
    /\ usdc' = SeizedTokens(vault, usdc, u, liquidator, fund, bonus)

DebitToExternal(u, recipient, amount) ==
    /\ CanDebit(vault, usdc, u, amount)
    /\ vault' = Debited(vault, u, amount)
    /\ usdc' = DebitedTokens(vault, usdc, u, recipient, amount)

\* Anyone may send tokens to the vault's address without calling it.
Donate(a, amount) ==
    /\ a # VAULT
    /\ usdc[a] >= amount
    /\ usdc' = Transfer(usdc, a, VAULT, amount)
    /\ UNCHANGED vault

VaultInit ==
    /\ vault = [balances |-> [u \in Users |-> 0], totalDeposits |-> 0]
    /\ usdc = [a \in Accounts |-> IF a = VAULT THEN 0 ELSE MaxSupply]

BalanceBound(u, delta) == vault.balances[u] + delta <= MaxBalance

VaultNext ==
    \/ \E u \in Users, a \in Amounts : BalanceBound(u, a) /\ Deposit(u, a)
    \/ \E u \in Users, a \in Amounts, safe \in BOOLEAN : Withdraw(u, a, safe)
    \/ \E u \in Users, a \in Amounts, s \in {-1, 1} :
          BalanceBound(u, s * a) /\ ApplySettlement(u, s * a)
    \/ \E u \in Users, l \in Accounts \ {VAULT}, f \in Accounts \ {VAULT}, b \in Amounts :
          SeizeForLiquidation(u, l, f, b)
    \/ \E u \in Users, r \in Accounts \ {VAULT}, a \in Amounts : DebitToExternal(u, r, a)
    \/ \E acc \in Accounts, a \in Amounts : Donate(acc, a)

VaultSpec == VaultInit /\ [][VaultNext]_vaultVars

-----------------------------------------------------------------------------
VaultTypeOK == vault \in VaultType /\ usdc \in [Accounts -> Nat]

\* The tokens the vault holds always cover totalDeposits, whatever the
\* settlement and liquidation engines call and in whatever order: the checked
\* subtraction from totalDeposits is the only limit a withdrawal or a seizure
\* can hit, and the token transfer after it never fails.
CustodyCoversDeposits == usdc[VAULT] >= vault.totalDeposits
=============================================================================
