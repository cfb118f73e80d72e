------------------------------- MODULE MCGate -------------------------------
(***************************************************************************)
(* Session keys, sign-in, the rate limiter, the funding service, the       *)
(* replay tool, live prices, the order form and the account's fills share  *)
(* no state: a behaviour is one of one of them, with the others at rest.   *)
(***************************************************************************)
EXTENDS SessionKey, SignIn, RateLimiter, FundingKeeper, ReplaySim, LiveScreen, OrderTicket, AccountScreens

CONSTANTS
    ann,
    Parts,              \* the components looked at
    MaxFaultyTime       \* bound on the time of the funding service after a fault

VARIABLE part

vars == <<part, keyVars, signInVars, limiterVars, keeperVars, simVars, screenVars, ticketVars, accountVars>>

MCPublic == [capacity |-> 1, refill_per_sec |-> 1]
MCAuthed == [capacity |-> 2, refill_per_sec |-> 2]
MCJwts == {[sub |-> ann, exp |-> 1]}
MCInBounds == {1}
MCTickPrices(m) == IF m = "btc" THEN {1, 2} ELSE {3, 4}
MCRanking(k) == IF k = "name" THEN <<"btc", "eth">> ELSE <<"eth", "btc">>
MCLevel(p, q) == [price |-> p, qty |-> q]
MCSnapshots == {[buy |-> <<>>, sell |-> <<>>],
                [buy |-> <<MCLevel(2, 1), MCLevel(3, 1)>>, sell |-> <<MCLevel(1, 2)>>]}
MCOrders == [a |-> "btc"]

MCInit ==
    /\ part \in Parts
    /\ KeyInit /\ SignInInit /\ LimiterInit /\ KeeperInit /\ SimInit /\ ScreenInit /\ TicketInit /\ AccountInit
    /\ part # "keys" => onChain
    /\ part # "limiter" => redis
    /\ part # "replay" => source = "synthetic"
    /\ part # "funding" => inst = [i \in Instances |-> Fresh(1)]
    /\ part # "screen" => market = "btc" /\ seconds = SEEDS * TF_SECONDS
    /\ part # "ticket" => snap["buy"] = <<>>

MCNext ==
    \/ part = "keys" /\ KeyNext /\ UNCHANGED <<part, signInVars, limiterVars, keeperVars, simVars, screenVars, ticketVars, accountVars>>
    \/ part = "sign-in" /\ SignInNext /\ UNCHANGED <<part, keyVars, limiterVars, keeperVars, simVars, screenVars, ticketVars, accountVars>>
    \/ part = "limiter" /\ LimiterNext /\ UNCHANGED <<part, keyVars, signInVars, keeperVars, simVars, screenVars, ticketVars, accountVars>>
    \/ part = "funding" /\ KeeperNext /\ (faults' > 0 => now' <= MaxFaultyTime)
       /\ UNCHANGED <<part, keyVars, signInVars, limiterVars, simVars, screenVars, ticketVars, accountVars>>
    \/ part = "replay" /\ SimNext /\ UNCHANGED <<part, keyVars, signInVars, limiterVars, keeperVars, screenVars, ticketVars, accountVars>>
    \/ part = "screen" /\ ScreenNext /\ UNCHANGED <<part, keyVars, signInVars, limiterVars, keeperVars, simVars, ticketVars, accountVars>>
    \/ part = "ticket" /\ TicketNext /\ UNCHANGED <<part, keyVars, signInVars, limiterVars, keeperVars, simVars, screenVars, accountVars>>
    \/ part = "account" /\ AccountNext /\ UNCHANGED <<part, keyVars, signInVars, limiterVars, keeperVars, simVars, screenVars, ticketVars>>

MCSpec == MCInit /\ [][MCNext]_vars

\* With ScreenFairness.
MCFairSpec ==
    /\ MCSpec
    /\ WF_vars(part = "screen" /\ FrameArrives
               /\ UNCHANGED <<part, keyVars, signInVars, limiterVars, keeperVars, simVars, ticketVars, accountVars>>)

Symmetry == Permutations(Requests) \cup Permutations(Instances)
=============================================================================
