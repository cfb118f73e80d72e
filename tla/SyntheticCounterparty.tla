------------------------ MODULE SyntheticCounterparty ------------------------
(***************************************************************************)
(* contracts/src/SyntheticCounterparty.sol: the house account.  It keeps   *)
(* USDC custody (its token balance), pushes part of it into the vault,     *)
(* releases custody to the owner behind a timelock, and mirrors its        *)
(* position from the fills the settlement engine reports to onFill, where  *)
(* a per-market cap is enforced.  `now` is block.timestamp.                *)
(***************************************************************************)
EXTENDS CollateralVault, MarketRegistry

CONSTANTS
    CP,         \* the contract's own address, a user of the vault
    Caps,       \* caps the owner may set
    TIMELOCK

ASSUME CounterpartyAssumption ==
    /\ CP \in Users
    /\ Caps \subseteq Nat
    /\ TIMELOCK \in Nat \ {0}

VARIABLES cp, now

NoPending == [amount |-> 0, eta |-> 0]

FreshCounterparty ==
    [position |-> [m \in Markets |-> 0], realisedPnl |-> [m \in Markets |-> 0],
     marketCap |-> [m \in Markets |-> 0], pending |-> NoPending]

-----------------------------------------------------------------------------
(***************************************************************************)
(* onFill, called by the settlement engine for every fill of a batch: a    *)
(* fill of another user is ignored, one past the cap reverts the batch.    *)
(***************************************************************************)
CanOnFill(c, u, m, sizeDelta) ==
    LET next == c.position[m] + sizeDelta
    IN  u = CP => next \in -c.marketCap[m] .. c.marketCap[m]

OnFill(c, u, m, sizeDelta, realised) ==
    IF u # CP THEN c
    ELSE [position |-> [c.position EXCEPT ![m] = @ + sizeDelta],
          realisedPnl |-> [c.realisedPnl EXCEPT ![m] = @ + realised],
          marketCap |-> c.marketCap, pending |-> c.pending]

SetCap(m, cap) ==
    /\ cp' = [cp EXCEPT !.marketCap[m] = cap]
    /\ UNCHANGED <<vault, usdc, now>>

\* Anyone tops up custody; deposit's tokens come from the caller.
CustodyDeposit(a, amount) ==
    /\ amount > 0
    /\ usdc[a] >= amount
    /\ usdc' = Transfer(usdc, a, CP, amount)
    /\ UNCHANGED <<vault, cp, now>>

\* The vault credits its caller, so the counterparty funds its own account.
DepositToVault(amount) ==
    /\ Deposit(CP, amount)
    /\ UNCHANGED <<cp, now>>

\* Mutant: a queued request is overwritten.
QueueWithdrawAgain(amount) ==
    /\ amount > 0
    /\ cp' = [cp EXCEPT !.pending = [amount |-> amount, eta |-> now + TIMELOCK]]
    /\ UNCHANGED <<vault, usdc, now>>

QueueWithdraw(amount) ==
    /\ amount > 0
    /\ cp.pending.amount = 0
    /\ cp' = [cp EXCEPT !.pending = [amount |-> amount, eta |-> now + TIMELOCK]]
    /\ UNCHANGED <<vault, usdc, now>>

CancelWithdraw ==
    /\ cp.pending.amount # 0
    /\ cp' = [cp EXCEPT !.pending = NoPending]
    /\ UNCHANGED <<vault, usdc, now>>

ExecuteWithdraw(to) ==
    /\ cp.pending.amount # 0
    /\ now >= cp.pending.eta
    /\ usdc[CP] >= cp.pending.amount
    /\ cp' = [cp EXCEPT !.pending = NoPending]
    /\ usdc' = Transfer(usdc, CP, to, cp.pending.amount)
    /\ UNCHANGED <<vault, now>>
=============================================================================
