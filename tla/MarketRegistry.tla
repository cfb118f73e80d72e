--------------------------- MODULE MarketRegistry ---------------------------
(***************************************************************************)
(* contracts/src/MarketRegistry.sol: the listed markets and their risk     *)
(* parameters.  Every action is a call by the owner; a call the code       *)
(* reverts is a step the model does not take.  The list _markets is only   *)
(* ever enumerated by a view, so the set of listed markets stands for it.  *)
(***************************************************************************)
EXTENDS Integers

CONSTANTS
    Unlisted,       \* a market that was never listed
    ParamChoices,   \* parameter records the owner may pass, valid or not
    Markets         \* market ids

VARIABLE markets    \* market id -> its parameters, or Unlisted

MAX_IM_BPS == 5000
MAX_MM_BPS == 2500
MAX_LIQ_BONUS_BPS == 1000
MAX_TAKER_FEE_BPS == 100
MAX_MAKER_FEE_BPS == 50
MIN_MAKER_REBATE_BPS == -50

MarketParams ==
    [imRatioBps : Nat, mmRatioBps : Nat, liqBonusBps : Nat,
     takerFeeBps : Nat, makerRebateBps : Int, active : BOOLEAN]

ASSUME MarketAssumption ==
    /\ ParamChoices \subseteq MarketParams
    /\ Unlisted \notin MarketParams

-----------------------------------------------------------------------------
ValidParams(p) ==
    /\ p.imRatioBps # 0 /\ p.imRatioBps <= MAX_IM_BPS
    /\ p.mmRatioBps # 0 /\ p.mmRatioBps < p.imRatioBps /\ p.mmRatioBps <= MAX_MM_BPS
    /\ p.liqBonusBps <= MAX_LIQ_BONUS_BPS
    /\ p.takerFeeBps <= MAX_TAKER_FEE_BPS
    /\ p.makerRebateBps \in MIN_MAKER_REBATE_BPS .. MAX_MAKER_FEE_BPS

IsListed(m) == markets[m] # Unlisted

IsMarketActive(m) == IsListed(m) /\ markets[m].active

MarketsInit == markets = [m \in Markets |-> Unlisted]

ListMarket(m, params) ==
    /\ ~IsListed(m)
    /\ ValidParams(params)
    /\ markets' = [markets EXCEPT ![m] = params]

UpdateMarket(m, params) ==
    /\ IsListed(m)
    /\ ValidParams(params)
    /\ markets' = [markets EXCEPT ![m] = params]

DeactivateMarket(m) ==
    /\ IsListed(m)
    /\ markets' = [markets EXCEPT ![m].active = FALSE]

MarketsNext ==
    \E m \in Markets :
        \/ \E params \in ParamChoices : ListMarket(m, params) \/ UpdateMarket(m, params)
        \/ DeactivateMarket(m)

MarketsTypeOK == markets \in [Markets -> MarketParams \cup {Unlisted}]
=============================================================================
