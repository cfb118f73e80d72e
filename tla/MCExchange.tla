----------------------------- MODULE MCExchange -----------------------------
EXTENDS Exchange, TLC

CONSTANTS alice, bob, m1, m2, op1, op2, Nonces, InitialCap

\* Initial margin 50%, maintenance margin 25%.  The second record is one
\* that _validate rejects.
Params(im, mm) ==
    [imRatioBps |-> im, mmRatioBps |-> mm, liqBonusBps |-> 1000,
     takerFeeBps |-> 5, makerRebateBps |-> -2, active |-> TRUE]

MCParamChoices == {Params(5000, 2500), Params(1000, 2500)}
MCListing == [m \in Markets |-> Params(5000, 2500)]
MCInitialCaps == [m \in Markets |-> InitialCap]

\* A match: the two sides of one trade, as the matching engine produces them.
Match(long, short, m, size, px, fee) ==
    << [user |-> long, market |-> m, sizeDelta |-> size, price |-> px, fee |-> fee],
       [user |-> short, market |-> m, sizeDelta |-> -size, price |-> px, fee |-> 0] >>

Batch(fills, nonce, deadline, signer) ==
    [fills |-> fills, nonce |-> nonce, deadline |-> deadline, signer |-> signer]

MCAmounts == {3}
MCPremiums == {-2, 1}

\* One market, trades of one unit either way.
MCBatches ==
    {Batch(Match(t[1], t[2], m1, 1, px, fee), n, 2, op1) :
        t \in {<<alice, CP>>, <<CP, alice>>}, px \in Prices, fee \in {0}, n \in Nonces}

MCAdlCalls ==
    {[market |-> m1, victims |-> v] :
        v \in {<<[user |-> alice, closeSize |-> d]>> : d \in {-1, 1}}
              \cup {<<[user |-> CP, closeSize |-> d], [user |-> CP, closeSize |-> d]>> : d \in {-1}}}

ASSUME BatchesPaired

NonceSymmetry == Permutations(Nonces)

\* The trading core: the owner's reconfiguration and the fund's and the
\* counterparty's token custody are left to the runs on ExchangeSpec.
CoreNext ==
    \/ TraderNext
    \/ \E amt \in Amounts : DepositToVault(amt)
            /\ UNCHANGED <<markets, wiring, price, settlement, lastFundingAt, registry, ledger>>
    \/ \E b \in Batches : ApplyBatch(b)
    \/ RiskNext
    \/ EnvironmentNext

CoreSpec == ExchangeInit /\ [][CoreNext]_exchangeVars

\* Batches of an operator that settles only fills leaving every trader with
\* initial margin at the mark, as the edge's risk gate intends.
GatedNext ==
    /\ CoreNext
    /\ settlement' # settlement =>
          \A u \in Users : Priced(u)' /\ Equity(u, vault.balances[u])' >= RequiredMargin(u)'

GatedSpec == ExchangeInit /\ [][GatedNext]_exchangeVars
=============================================================================
