------------------------------- MODULE MCWeb -------------------------------
(***************************************************************************)
(* The trading screen, the live book, notices, the wallet's session, the   *)
(* mock backend and the SDK's socket share no state: a behaviour is one of *)
(* one of them, with the others at rest.                                   *)
(***************************************************************************)
EXTENDS TradeScreen, LiveBook, Notices, WalletSession, MockBackend, SdkSocket

CONSTANTS
    btc,
    Parts       \* the components looked at

VARIABLE part

vars == <<part, tradeVars, bookVars, noticeVars, sessionVars, mockVars, sdkVars>>

MCTickets == {[market |-> btc, side |-> "buy", type |-> t] : t \in {"market", "limit"}}
MCOpeningBook == [r \in Rungs |-> 1]

MCInit ==
    /\ part \in Parts
    /\ TradeInit /\ BookInit /\ NoticeInit /\ SessionInit /\ MockInit /\ SdkInit
    /\ part # "wallet" => stored = NoToken
    /\ part # "sdk" => ws = NoSocket /\ ~jwt

Orders(A) == part = "orders" /\ A /\ UNCHANGED <<part, bookVars, noticeVars, sessionVars, mockVars, sdkVars>>
Book(A) == part = "book" /\ A /\ UNCHANGED <<part, tradeVars, noticeVars, sessionVars, mockVars, sdkVars>>
Notice(A) == part = "notices" /\ A /\ UNCHANGED <<part, tradeVars, bookVars, sessionVars, mockVars, sdkVars>>
Wallet(A) == part = "wallet" /\ A /\ UNCHANGED <<part, tradeVars, bookVars, noticeVars, mockVars, sdkVars>>
Mocks(A) == part = "mocks" /\ A /\ UNCHANGED <<part, tradeVars, bookVars, noticeVars, sessionVars, sdkVars>>
Sdk(A) == part = "sdk" /\ A /\ UNCHANGED <<part, tradeVars, bookVars, noticeVars, sessionVars, mockVars>>

MCNext ==
    \/ Orders(TradeNext) \/ Book(BookNext) \/ Notice(NoticeNext)
    \/ Wallet(SessionNext) \/ Mocks(MockNext) \/ Sdk(SdkNext)

MCSpec == MCInit /\ [][MCNext]_vars

\* What each component's specification assumes fair.  No two of them run in
\* one behaviour, so that one condition can ask for a step of each.
MCFairSpec ==
    /\ MCSpec
    /\ WF_vars(\/ Orders(FetchStep("positions")) \/ Book(ServerReads) \/ Wallet(Render)
               \/ Notice(Tick \/ OverlayTimer \/ \E t \in toasts : ToastTimer(t))
               \/ Mocks(\E i \in DOMAIN boots[Watched] : Timeout(Watched, i)) \/ Sdk(Reconnect))
    /\ WF_vars(\/ Orders(FetchStep("openOrders")) \/ Book(OnBookFrame) \/ Wallet(Request)
               \/ Mocks(Served) \/ Sdk(\E s \in DOMAIN sockets : SocketStep(s)))
    /\ WF_vars(Orders(CallReturns(1)) \/ Book(Flush) \/ Wallet(Answers))
    /\ WF_vars(Orders(CallReturns(2)) \/ Book(\E p \in 1..MaxPolls : PollStep(p)))
=============================================================================
