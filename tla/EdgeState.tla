------------------------------ MODULE EdgeState ------------------------------
(***************************************************************************)
(* crates/perplex-edge: the in-memory exchange behind the HTTP handlers    *)
(* (state.rs, handlers.rs), for one market.  Handlers run on a thread      *)
(* pool; each store has its own lock, held for one access at a time, so a  *)
(* handler is a sequence of steps, one per access, between which others    *)
(* run.  todo[t] is what thread t's handler still has to do.               *)
(*                                                                         *)
(* Money is counted in 1/10000 of a dollar, quantities and prices are      *)
(* whole: fees, margins and PnL are exact, as they are in the code's 10^-6 *)
(* units.  The fill history is kept as a signed total per wallet and       *)
(* order, the public tape as the notional traded.  Requests are the ones   *)
(* that pass place_order's format checks.                                  *)
(***************************************************************************)
EXTENDS Integers, Parties, FiniteSetsExt, SequencesExt

CONSTANTS
    Threads,
    Places,         \* [owner, side, type, price, qty, tif, postOnly, reduceOnly]
    Marks,          \* what the oracle relayer sets the index price to
    InitVault,      \* [Users -> balance, or Unseeded]
    DEV_SEED,       \* what seed_dev_vault hands out
    takerFeeBps, makerRebateBps, imRatioBps, mmRatioBps, maxLeverage,
    Persist,        \* whether a writer is attached (persist_tx)
    Liquidations,   \* whether keepers call in
    MaxRequests     \* bound

ASSUME EdgeAssumption ==
    /\ {takerFeeBps, imRatioBps, mmRatioBps, maxLeverage, MaxRequests, DEV_SEED} \subseteq Nat
    /\ makerRebateBps \in Int

VARIABLES
    orders,     \* id -> resting order, all wallets
    snapshot,   \* the public book: level -> quantity
    positions,  \* wallet -> [size, entry], size signed
    vault,      \* wallet -> balance
    fills,      \* wallet -> order id -> signed quantity filled
    tape,       \* notional on the public tape
    mark,       \* the index price
    todo,       \* thread -> steps of its handler still to run
    queue,      \* events sent to the persistence writer
    placed,     \* order id -> the request that got it (history)
    requests

memory == <<orders, snapshot, positions, vault, fills, tape>>
edgeVars == <<memory, mark, todo, queue, placed, requests>>

Dollar == 10000
Unseeded == -1
Flat == [size |-> 0, entry |-> 0]
LIQUIDATION == 0        \* the order id of forced closes

Opposite(side) == IF side = "buy" THEN "sell" ELSE "buy"
Signed(side, qty) == IF side = "buy" THEN qty ELSE -qty
Abs(n) == IF n < 0 THEN -n ELSE n
Smaller(a, b) == IF a < b THEN a ELSE b

VaultBalance(u) == IF vault[u] = Unseeded THEN 0 ELSE vault[u]

-----------------------------------------------------------------------------
\* rebuild_orderbook's aggregation: quantity per side and price.
Levels(os) == {<<os[id].side, os[id].price>> : id \in DOMAIN os}

Aggregate(os) ==
    [l \in Levels(os) |->
        MapThenSumSet(LAMBDA id : os[id].remaining,
                      {id \in DOMAIN os : <<os[id].side, os[id].price>> = l})]

\* Mutant: an equal price does not trade.
CandidateStrictly(r, o) ==
    /\ o.owner # r.owner
    /\ o.side = Opposite(r.side)
    /\ r.type = "limit" => IF r.side = "buy" THEN o.price < r.price ELSE o.price > r.price

\* A resting order the taker may trade with: another wallet's, opposite, at
\* the taker's price or better.
Candidate(r, o) ==
    /\ o.owner # r.owner
    /\ o.side = Opposite(r.side)
    /\ r.type = "limit" => IF r.side = "buy" THEN o.price <= r.price ELSE o.price >= r.price

\* match_taker phase 1: best price first, then oldest.
Candidates(r, os) ==
    LET better(a, b) == \/ os[a].price # os[b].price
                           /\ (os[a].price < os[b].price) = (r.side = "buy")
                        \/ os[a].price = os[b].price /\ a < b
    IN  SetToSortSeq({id \in DOMAIN os : Candidate(r, os[id])}, better)

\* Mutant: trades what phase 1 saw, without looking again.
MatchedUnchecked(cands, os, qty) ==
    FoldLeft(LAMBDA acc, c :
                LET q == Smaller(acc.left, placed[c].qty)
                IN  IF acc.left = 0 THEN acc
                    ELSE [left  |-> acc.left - q,
                          os    |-> [x \in DOMAIN acc.os \ {c} |-> acc.os[x]],
                          fills |-> Append(acc.fills, [maker |-> placed[c].owner, id |-> c,
                                                       price |-> placed[c].price, qty |-> q])],
             [left |-> qty, os |-> os, fills |-> <<>>], cands)

\* match_taker phase 2: what is still there of the candidates is taken.
Matched(cands, os, qty) ==
    FoldLeft(LAMBDA acc, c :
                IF acc.left = 0 \/ c \notin DOMAIN os THEN acc
                ELSE LET q == Smaller(acc.left, os[c].remaining)
                     IN  [left  |-> acc.left - q,
                          os    |-> [acc.os EXCEPT ![c].remaining = @ - q],
                          fills |-> Append(acc.fills, [maker |-> os[c].owner, id |-> c,
                                                       price |-> os[c].price, qty |-> q])],
             [left |-> qty, os |-> os, fills |-> <<>>], cands)

Reaped(os) == [id \in {x \in DOMAIN os : os[x].remaining # 0} |-> os[id]]

-----------------------------------------------------------------------------
(***************************************************************************)
(* Margin: apply_position_fill, account_summary and health_factor.         *)
(***************************************************************************)
Filled(p, delta, price) ==
    LET new == p.size + delta
        add == p.size # 0 /\ (p.size > 0) = (delta > 0)
    IN  IF new = 0 THEN Flat
        ELSE IF p.size = 0 \/ (~add /\ Abs(delta) > Abs(p.size)) THEN [size |-> new, entry |-> price]
        ELSE IF add THEN [size |-> new, entry |-> (Abs(p.size) * p.entry + Abs(delta) * price) \div Abs(new)]
        ELSE [p EXCEPT !.size = new]

Pnl(p) == p.size * (mark - p.entry) * Dollar

FreeCollateral(p, balance) ==
    LET raw == balance + Pnl(p) - Abs(p.size) * mark * imRatioBps
    IN  IF raw < 0 THEN 0 ELSE raw

\* place_order's risk gate.
Backed(r, p, balance) ==
    LET notional == r.qty * (IF r.type = "limit" THEN r.price ELSE mark)
    IN  /\ notional * imRatioBps <= FreeCollateral(p, balance)
        /\ notional * Dollar <= maxLeverage * balance

\* position_health below one; a flat position has no health factor.
Unhealthy(p, balance) ==
    LET mm == Abs(p.size) * mark * mmRatioBps
    IN  mm # 0 /\ balance + Pnl(p) < mm

-----------------------------------------------------------------------------
(***************************************************************************)
(* The steps handlers are made of.                                         *)
(***************************************************************************)
Emit(ev) == IF Persist THEN <<[op |-> "emit", ev |-> ev]>> ELSE <<>>

Rebuild == <<[op |-> "readBook"]>>

\* Mutant: written in memory only.
SetVaultBalanceQuietly(u, amount) == <<[op |-> "writeVault", who |-> u, amount |-> amount]>>

\* set_vault_balance, set_positions, add_open_order: sent first, then written.
SetVaultBalance(u, amount) ==
    Emit([kind |-> "vault", who |-> u, amount |-> amount])
        \o <<[op |-> "writeVault", who |-> u, amount |-> amount]>>

SetPosition(u, p) ==
    Emit([kind |-> "position", who |-> u, position |-> p])
        \o <<[op |-> "writePosition", who |-> u, position |-> p]>>

AddOpenOrder(id, o) ==
    Emit([kind |-> "order", id |-> id, order |-> o])
        \o <<[op |-> "pushOrder", id |-> id, order |-> o]>> \o Rebuild

AdjustVault(u, delta) ==
    IF delta = 0 THEN <<>> ELSE <<[op |-> "adjust", who |-> u, delta |-> delta]>>

\* Mutant: the new position is computed from what was read at the match.
UpsertPositionStale(u, id, delta, price) ==
    <<[op |-> "writePosition", who |-> u, position |-> Filled(positions[u], delta, price)]>>
        \o (IF Persist THEN <<[op |-> "readPosition", who |-> u]>> ELSE <<>>)

UpsertPosition(u, id, delta, price) ==
    <<[op |-> "fillPosition", who |-> u, id |-> id, delta |-> delta, price |-> price]>>
        \o (IF Persist THEN <<[op |-> "readPosition", who |-> u]>> ELSE <<>>)

RecordFill(u, id, delta) == [op |-> "recordFill", who |-> u, id |-> id, delta |-> delta]

RecordTrade(qty, price) == [op |-> "recordTrade", notional |-> qty * price]

\* Mutant: the maker's rebate is not settled.
SettleMatchNoRebate(r, id, f) ==
    LET delta == Signed(r.side, f.qty)
    IN  <<RecordFill(r.owner, id, delta), RecordFill(f.maker, f.id, -delta)>>
            \o AdjustVault(r.owner, -(f.qty * f.price * takerFeeBps))
            \o <<RecordTrade(f.qty, f.price)>>
            \o UpsertPosition(r.owner, id, delta, f.price)
            \o UpsertPosition(f.maker, f.id, -delta, f.price)

\* The body of place_order's loop over the matches.
SettleMatch(r, id, f) ==
    LET delta    == Signed(r.side, f.qty)
        notional == f.qty * f.price
    IN  <<RecordFill(r.owner, id, delta), RecordFill(f.maker, f.id, -delta)>>
            \o AdjustVault(r.owner, -(notional * takerFeeBps))
            \o AdjustVault(f.maker, notional * makerRebateBps)
            \o <<RecordTrade(f.qty, f.price)>>
            \o UpsertPosition(r.owner, id, delta, f.price)
            \o UpsertPosition(f.maker, f.id, -delta, f.price)

Resting(r, left) == [owner |-> r.owner, side |-> r.side, price |-> r.price,
                     qty |-> r.qty, remaining |-> left]

\* Mutant: the makers' books are saved after the fills are.
AfterMatchSavedLast(r, id, res) ==
    Rebuild
        \o FlattenSeq([k \in DOMAIN res.fills |-> SettleMatch(r, id, res.fills[k])])
        \o (IF Persist /\ res.fills # <<>>
            THEN <<[op |-> "syncOrders", makers |-> {f.maker : f \in ToSet(res.fills)}]>> ELSE <<>>)
        \o (IF res.left > 0 /\ r.type = "limit" THEN AddOpenOrder(id, Resting(r, res.left)) ELSE <<>>)

\* place_order after match_taker's phase 2.
AfterMatch(r, id, res) ==
    Rebuild
        \o (IF Persist /\ res.fills # <<>>
            THEN <<[op |-> "syncOrders", makers |-> {f.maker : f \in ToSet(res.fills)}]>> ELSE <<>>)
        \o FlattenSeq([k \in DOMAIN res.fills |-> SettleMatch(r, id, res.fills[k])])
        \o (IF res.left > 0 /\ r.type = "limit" THEN AddOpenOrder(id, Resting(r, res.left)) ELSE <<>>)

-----------------------------------------------------------------------------
(***************************************************************************)
(* One action per step.  Then(t, steps) puts steps in front of what thread *)
(* t has left, Return(t) ends its handler.                                 *)
(***************************************************************************)
At(t, op) == todo[t] # <<>> /\ todo[t][1].op = op
Then(t, steps) == todo' = [todo EXCEPT ![t] = steps \o Tail(@)]
Return(t) == todo' = [todo EXCEPT ![t] = <<>>]
StepFrame == UNCHANGED <<mark, requests>>

ReadPositionForGate(t) ==
    /\ At(t, "gate")
    /\ LET r == todo[t][1].req
       IN  Then(t, <<[op |-> "gateVault", req |-> r, position |-> positions[r.owner]]>>)
    /\ UNCHANGED <<memory, queue, placed>> /\ StepFrame

RiskGate(t) ==
    /\ At(t, "gateVault")
    /\ LET s == todo[t][1]
       IN  IF Backed(s.req, s.position, VaultBalance(s.req.owner)) THEN Then(t, <<>>) ELSE Return(t)
    /\ UNCHANGED <<memory, queue, placed>> /\ StepFrame

\* Mutant: post-only orders are matched without the probe.
NumberUnprobed(t) ==
    /\ At(t, "number")
    /\ placed' = Append(placed, todo[t][1].req)
    /\ Then(t, <<[op |-> "collect", id |-> Len(placed) + 1]>>)
    /\ UNCHANGED <<memory, queue>> /\ StepFrame

\* The order gets its id and time.
Number(t) ==
    /\ At(t, "number")
    /\ LET r == todo[t][1].req  id == Len(placed) + 1
       IN  /\ placed' = Append(placed, r)
           /\ Then(t, (IF r.postOnly THEN <<[op |-> "probe", id |-> id]>> ELSE <<>>)
                          \o <<[op |-> "collect", id |-> id]>>)
    /\ UNCHANGED <<memory, queue>> /\ StepFrame

MatchTakerProbe(t) ==
    /\ At(t, "probe")
    /\ IF \E o \in DOMAIN orders : Candidate(placed[todo[t][1].id], orders[o])
       THEN Return(t) ELSE Then(t, <<>>)
    /\ UNCHANGED <<memory, queue, placed>> /\ StepFrame

Collect(t) ==
    /\ At(t, "collect")
    /\ LET id == todo[t][1].id
       IN  Then(t, <<[op |-> "match", id |-> id, cands |-> Candidates(placed[id], orders)]>>)
    /\ UNCHANGED <<memory, queue, placed>> /\ StepFrame

Match(t) ==
    /\ At(t, "match")
    /\ LET s == todo[t][1]  r == placed[s.id]  res == Matched(s.cands, orders, r.qty)
       IN  orders' = Reaped(res.os) /\ Then(t, AfterMatch(r, s.id, res))
    /\ UNCHANGED <<snapshot, positions, vault, fills, tape, queue, placed>> /\ StepFrame

ReadBook(t) ==
    /\ At(t, "readBook")
    /\ Then(t, <<[op |-> "writeBook", book |-> Aggregate(orders)]>>)
    /\ UNCHANGED <<memory, queue, placed>> /\ StepFrame

WriteBook(t) ==
    /\ At(t, "writeBook")
    /\ snapshot' = todo[t][1].book
    /\ Then(t, <<>>)
    /\ UNCHANGED <<orders, positions, vault, fills, tape, queue, placed>> /\ StepFrame

\* Phase 4 of match_taker: every list is read and sent under one read lock.
SyncOrders(t) ==
    /\ At(t, "syncOrders")
    /\ queue' = queue \o
         SetToSeq({[kind |-> "orders", who |-> u,
                    orders |-> [id \in {x \in DOMAIN orders : orders[x].owner = u} |-> orders[id]]] :
                   u \in todo[t][1].makers})
    /\ Then(t, <<>>)
    /\ UNCHANGED <<memory, placed>> /\ StepFrame

EmitEvent(t) ==
    /\ At(t, "emit")
    /\ queue' = Append(queue, todo[t][1].ev)
    /\ Then(t, <<>>)
    /\ UNCHANGED <<memory, placed>> /\ StepFrame

\* Sending and appending one history entry commute with every other step.
RecordFillStep(t) ==
    /\ At(t, "recordFill")
    /\ LET s == todo[t][1]
       IN  /\ fills' = [fills EXCEPT ![s.who][s.id] = @ + s.delta]
           /\ queue' = IF Persist
                       THEN Append(queue, [kind |-> "fill", who |-> s.who, id |-> s.id, delta |-> s.delta])
                       ELSE queue
    /\ Then(t, <<>>)
    /\ UNCHANGED <<orders, snapshot, positions, vault, tape, placed>> /\ StepFrame

RecordTradeStep(t) ==
    /\ At(t, "recordTrade")
    /\ tape' = tape + todo[t][1].notional
    /\ queue' = IF Persist THEN Append(queue, [kind |-> "trade", notional |-> todo[t][1].notional]) ELSE queue
    /\ Then(t, <<>>)
    /\ UNCHANGED <<orders, snapshot, positions, vault, fills, placed>> /\ StepFrame

\* adjust_vault up to its call of set_vault_balance.
ReadVault(t) ==
    /\ At(t, "adjust")
    /\ LET s == todo[t][1]  next == VaultBalance(s.who) + s.delta
       IN  Then(t, SetVaultBalance(s.who, IF next < 0 THEN 0 ELSE next))
    /\ UNCHANGED <<memory, queue, placed>> /\ StepFrame

WriteVault(t) ==
    /\ At(t, "writeVault")
    /\ vault' = [vault EXCEPT ![todo[t][1].who] = todo[t][1].amount]
    /\ Then(t, <<>>)
    /\ UNCHANGED <<orders, snapshot, positions, fills, tape, queue, placed>> /\ StepFrame

ApplyPositionFill(t) ==
    /\ At(t, "fillPosition")
    /\ LET s == todo[t][1]
       IN  positions' = [positions EXCEPT ![s.who] = Filled(@, s.delta, s.price)]
    /\ Then(t, <<>>)
    /\ UNCHANGED <<orders, snapshot, vault, fills, tape, queue, placed>> /\ StepFrame

\* upsert_position reads the wallet's positions back to send them.
ReadPosition(t) ==
    /\ At(t, "readPosition")
    /\ LET u == todo[t][1].who
       IN  Then(t, Emit([kind |-> "position", who |-> u, position |-> positions[u]]))
    /\ UNCHANGED <<memory, queue, placed>> /\ StepFrame

WritePosition(t) ==
    /\ At(t, "writePosition")
    /\ positions' = [positions EXCEPT ![todo[t][1].who] = todo[t][1].position]
    /\ Then(t, <<>>)
    /\ UNCHANGED <<orders, snapshot, vault, fills, tape, queue, placed>> /\ StepFrame

PushOrder(t) ==
    /\ At(t, "pushOrder")
    /\ LET s == todo[t][1]
       IN  orders' = [id \in DOMAIN orders \cup {s.id} |-> IF id = s.id THEN s.order ELSE orders[id]]
    /\ Then(t, <<>>)
    /\ UNCHANGED <<snapshot, positions, vault, fills, tape, queue, placed>> /\ StepFrame

\* Mutant: cancelled without a rebuild.
AfterRemove(id) == Emit([kind |-> "delete", id |-> id])

AfterCancel(id) == Emit([kind |-> "delete", id |-> id]) \o Rebuild

CancelOrder(t) ==
    /\ At(t, "remove")
    /\ LET s == todo[t][1]
       IN  IF s.id \in DOMAIN orders /\ orders[s.id].owner = s.who
           THEN /\ orders' = [id \in DOMAIN orders \ {s.id} |-> orders[id]]
                /\ Then(t, AfterCancel(s.id))
           ELSE /\ UNCHANGED orders
                /\ Then(t, <<>>)
    /\ UNCHANGED <<snapshot, positions, vault, fills, tape, queue, placed>> /\ StepFrame

SeedDevVault(t) ==
    /\ At(t, "seed")
    /\ LET u == todo[t][1].who
       IN  IF vault[u] = Unseeded
           THEN /\ vault' = [vault EXCEPT ![u] = DEV_SEED]
                /\ Then(t, Emit([kind |-> "vault", who |-> u, amount |-> DEV_SEED]))
           ELSE UNCHANGED vault /\ Then(t, <<>>)
    /\ UNCHANGED <<orders, snapshot, positions, fills, tape, queue, placed>> /\ StepFrame

\* liquidate_position: the position, then its health, then the settlement.
LiquidationRead(t) ==
    /\ At(t, "liquidate")
    /\ LET u == todo[t][1].who
       IN  IF positions[u] = Flat THEN Return(t)
           ELSE Then(t, <<[op |-> "health", who |-> u, position |-> positions[u]]>>)
    /\ UNCHANGED <<memory, queue, placed>> /\ StepFrame

LiquidationHealth(t) ==
    /\ At(t, "health")
    /\ LET s == todo[t][1]
       IN  IF Unhealthy(s.position, VaultBalance(s.who))
           THEN Then(t, <<[op |-> "forceClose", who |-> s.who, position |-> s.position]>>)
           ELSE Return(t)
    /\ UNCHANGED <<memory, queue, placed>> /\ StepFrame

LiquidationSettle(t) ==
    /\ At(t, "forceClose")
    /\ LET s == todo[t][1]
           left == VaultBalance(s.who) + Pnl(s.position)
       IN  Then(t, SetVaultBalance(s.who, IF left < 0 THEN 0 ELSE left)
                       \o SetPosition(s.who, Flat)
                       \o <<RecordFill(s.who, LIQUIDATION, -s.position.size),
                            RecordTrade(Abs(s.position.size), mark)>>)
    /\ UNCHANGED <<memory, queue, placed>> /\ StepFrame

-----------------------------------------------------------------------------
\* A request arrives at an idle thread.
Begin(t, steps) ==
    /\ todo[t] = <<>>
    /\ requests < MaxRequests
    /\ requests' = requests + 1
    /\ todo' = [todo EXCEPT ![t] = steps]
    /\ UNCHANGED <<memory, mark, queue, placed>>

PlaceOrder(t) ==
    \E r \in Places :
        Begin(t, (IF r.reduceOnly THEN <<>> ELSE <<[op |-> "gate", req |-> r]>>)
                     \o <<[op |-> "number", req |-> r]>>)

RequestCancel(t) ==
    \E u \in Users, id \in 1 .. Len(placed) : Begin(t, <<[op |-> "remove", who |-> u, id |-> id]>>)

Login(t) == \E u \in Users : vault[u] = Unseeded /\ Begin(t, <<[op |-> "seed", who |-> u]>>)

Liquidate(t, u) == Begin(t, <<[op |-> "liquidate", who |-> u]>>)

\* The keeper's loop: its scan may be old by the time it calls, and a lost
\* answer is followed by another scan, so any position may be called any time.
KeeperCalls(t) == Liquidations /\ \E u \in Users : Liquidate(t, u)

SetOraclePrice ==
    /\ mark' \in Marks \ {mark}
    /\ UNCHANGED <<memory, todo, queue, placed, requests>>

EdgeInit ==
    /\ orders = <<>>
    /\ snapshot = Aggregate(orders)
    /\ positions = [u \in Users |-> Flat]
    /\ vault = InitVault
    /\ fills = [u \in Users |-> [id \in 0 .. MaxRequests |-> 0]]
    /\ tape = 0
    /\ mark \in Marks
    /\ todo = [t \in Threads |-> <<>>]
    /\ queue = <<>>
    /\ placed = <<>>
    /\ requests = 0

StepNext(t) ==
    \/ ReadPositionForGate(t) \/ RiskGate(t) \/ Number(t) \/ MatchTakerProbe(t)
    \/ Collect(t) \/ Match(t) \/ ReadBook(t) \/ WriteBook(t) \/ SyncOrders(t)
    \/ EmitEvent(t) \/ RecordFillStep(t) \/ RecordTradeStep(t)
    \/ ReadVault(t) \/ WriteVault(t) \/ SeedDevVault(t)
    \/ ApplyPositionFill(t) \/ ReadPosition(t) \/ WritePosition(t)
    \/ PushOrder(t) \/ CancelOrder(t)
    \/ LiquidationRead(t) \/ LiquidationHealth(t) \/ LiquidationSettle(t)

EdgeNext ==
    \/ \E t \in Threads :
        PlaceOrder(t) \/ RequestCancel(t) \/ Login(t) \/ KeeperCalls(t) \/ StepNext(t)
    \/ SetOraclePrice

EdgeSpec == EdgeInit /\ [][EdgeNext]_edgeVars

-----------------------------------------------------------------------------
Quiet == \A t \in Threads : todo[t] = <<>>

Owner(id) == placed[id].owner

\* However handlers interleave, no order is filled beyond its quantity, and
\* once they are done every resting order has exactly its quantity, filled
\* or remaining (match_taker takes from candidates it saw under an earlier
\* lock).
OrdersAccountForFills ==
    /\ \A id \in DOMAIN placed : Abs(fills[Owner(id)][id]) <= placed[id].qty
    /\ Quiet => \A id \in DOMAIN orders :
                    orders[id].qty = orders[id].remaining + Abs(fills[orders[id].owner][id])

\* Once the handlers are done, every wallet's position is the sum of its
\* fills: concurrent fills of one wallet are all applied, adds, reductions
\* and flips alike (upsert_position).
PositionsMatchFills ==
    Quiet => \A u \in Users :
        positions[u].size = MapThenSumSet(LAMBDA id : fills[u][id], DOMAIN fills[u])

\* Between requests the public book is the resting orders (rebuild_orderbook
\* after every change).
SnapshotFresh == Quiet => snapshot = Aggregate(orders)

\* Between requests no two wallets' resting orders could trade with each
\* other (place_order matches before it rests).
WalletsUncrossed ==
    Quiet => \A a, b \in DOMAIN orders :
        orders[a].side = "buy" /\ orders[b].side = "sell" /\ orders[a].owner # orders[b].owner
            => orders[a].price < orders[b].price

\* What wallet u started with, the seed of its first login included.
Started(u) == IF InitVault[u] = Unseeded /\ vault[u] # Unseeded THEN DEV_SEED ELSE InitVault[u]

\* Between requests the balances are what was there less the fees of what
\* was traded: the taker's fee and the maker's rebate reach the vault once
\* per fill (adjust_vault; forced closes settle PnL too and are left out).
FeesSettled ==
    Quiet /\ (\A u \in Users : fills[u][LIQUIDATION] = 0 /\ vault[u] # 0) =>
        MapThenSumSet(LAMBDA u : vault[u], Users)
            = MapThenSumSet(LAMBDA u : Started(u), Users) - tape * (takerFeeBps - makerRebateBps)

-----------------------------------------------------------------------------
(***************************************************************************)
(* Statements of the code's comments.  The first holds while requests do   *)
(* not overlap; the code does not meet the others.                         *)
(***************************************************************************)
\* A post-only order never takes liquidity.
PostOnlyNeverTakes ==
    \A t \in Threads : At(t, "match") =>
        LET s == todo[t][1]
        IN  placed[s.id].postOnly => Matched(s.cands, orders, placed[s.id].qty).fills = <<>>

\* While requests do not overlap the book keeps its promises: the public copy
\* is the resting orders, no two wallets' orders stay crossed, and a post-only
\* order never takes (rebuild_orderbook, match_taker and its probe).
BookKept == SnapshotFresh /\ WalletsUncrossed /\ PostOnlyNeverTakes

\* A reduce-only order only ever shrinks its wallet's position.
ReduceOnlyShrinks ==
    \A t \in Threads : At(t, "fillPosition") =>
        LET s == todo[t][1]
        IN  placed[s.id].reduceOnly =>
                Abs(Filled(positions[s.who], s.delta, s.price).size) <= Abs(positions[s.who].size)

\* Only good-til-cancelled orders rest.
OnlyGtcRests == \A id \in DOMAIN orders : placed[id].tif = "gtc"

\* Makers are credited, never charged: the wallets together are never
\* charged more than the takers' fees.
OnlyTakersPay ==
    Quiet /\ (\A u \in Users : fills[u][LIQUIDATION] = 0) =>
        MapThenSumSet(LAMBDA u : vault[u], Users)
            >= MapThenSumSet(LAMBDA u : InitVault[u], Users) - tape * takerFeeBps

\* A keeper's call never removes a position that is healthy.
KeeperSparesHealthy ==
    \A t \in Threads : At(t, "writePosition") =>
        LET u == todo[t][1].who
        IN  positions[u] = Flat \/ Unhealthy(positions[u], VaultBalance(u))
=============================================================================
