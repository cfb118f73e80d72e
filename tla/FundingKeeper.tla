---------------------------- MODULE FundingKeeper ----------------------------
(***************************************************************************)
(* crates/perplex-funding: instances of the funding service that elect a   *)
(* leader through a lease with an expiry and submit one premium per        *)
(* funding interval, and the FundingEngine contract that receives them,    *)
(* for one market.  Every await of the service is a point where time       *)
(* passes and other instances act.                                         *)
(*                                                                         *)
(* An instance's token is fresh in every process, so a crash turns the     *)
(* holder of its lease into Gone.                                          *)
(***************************************************************************)
EXTENDS Integers

CONSTANTS
    Instances, Nobody, Gone,
    Premiums,               \* what the premium source returns
    MAX_PREMIUM_ABS, FUNDING_INTERVAL,
    lease_ttl, renew_every,
    MaxDelay,               \* no timer or await is served later than this
    MaxFaults, MaxTime      \* bounds

ASSUME KeeperAssumption ==
    /\ MAX_PREMIUM_ABS \in Nat /\ Premiums \subseteq Int
    /\ {FUNDING_INTERVAL, lease_ttl, renew_every} \subseteq Nat \ {0}
    /\ MaxDelay \in Nat
    /\ Instances # {} /\ Nobody \notin Instances /\ Gone \notin Instances

VARIABLES
    now,
    lease,          \* [holder, expires]
    inst,           \* instance -> its task
    index,          \* PositionRegistry.marketIndexFunding
    lastFundingAt,
    faults          \* crashes, and calls to the lease backend, the premium
                    \* source or the chain that failed

keeperVars == <<now, lease, inst, index, lastFundingAt, faults>>

Fresh(t) == [pc |-> "select", hold |-> FALSE, nextTick |-> t, nextRenew |-> t, since |-> t]

-----------------------------------------------------------------------------
(***************************************************************************)
(* LeaseBackend: SET NX PX, and the ownership-checked renewal.             *)
(***************************************************************************)
Held == lease.holder # Nobody /\ lease.expires > now

CanAcquire(i) == ~Held

CanRenew(i) == Held /\ lease.holder = i

LeaseTo(i) == [holder |-> i, expires |-> now + lease_ttl]

Fault == faults < MaxFaults /\ faults' = faults + 1

\* A call to the backend: its effect with its answer, or, when it fails, an
\* error the service reads as FALSE, with or without the effect.
Call(i, can, answer) ==
    \/ /\ answer = can
       /\ lease' = IF can THEN LeaseTo(i) ELSE lease
       /\ UNCHANGED faults
    \/ /\ Fault
       /\ ~answer
       /\ lease' \in {lease, IF can THEN LeaseTo(i) ELSE lease}

-----------------------------------------------------------------------------
\* interval with MissedTickBehavior::Delay: the next tick is a whole period
\* after this one was served.
TickFires(i) ==
    /\ inst[i].pc = "select"
    /\ now >= inst[i].nextTick
    /\ inst' = [inst EXCEPT ![i] = [@ EXCEPT !.pc = IF inst[i].hold THEN "renewing" ELSE "acquiring",
                                             !.nextTick = now + FUNDING_INTERVAL, !.since = now]]
    /\ UNCHANGED <<now, lease, index, lastFundingAt, faults>>

TickRenew(i) ==
    /\ inst[i].pc = "renewing"
    /\ \E ok \in BOOLEAN :
         /\ Call(i, CanRenew(i), ok)
         /\ inst' = [inst EXCEPT ![i] = [@ EXCEPT !.pc = IF ok THEN "submitting" ELSE "acquiring",
                                                  !.since = now]]
    /\ UNCHANGED <<now, index, lastFundingAt>>

TryAcquire(i) ==
    /\ inst[i].pc = "acquiring"
    /\ \E ok \in BOOLEAN :
         /\ Call(i, CanAcquire(i), ok)
         /\ inst' = [inst EXCEPT ![i] = [@ EXCEPT !.pc = IF ok THEN "submitting" ELSE "select",
                                                  !.hold = ok, !.since = now]]
    /\ UNCHANGED <<now, index, lastFundingAt>>

\* FundingEngine.applyFunding's checks.
PremiumOK(premium) == premium \in -MAX_PREMIUM_ABS .. MAX_PREMIUM_ABS

\* Mutant: the gate is not checked.
DueAlways == TRUE

Due == lastFundingAt # 0 => now >= lastFundingAt + FUNDING_INTERVAL

\* Mutant: a submission that fails ends the service.
SubmitStopsOnError(i, premium) ==
    /\ inst[i].pc = "submitting"
    /\ IF PremiumOK(premium) /\ Due
       THEN /\ index' = index + premium /\ lastFundingAt' = now
            /\ inst' = [inst EXCEPT ![i] = [@ EXCEPT !.pc = "select", !.since = now]]
       ELSE /\ UNCHANGED <<index, lastFundingAt>>
            /\ inst' = [inst EXCEPT ![i] = [@ EXCEPT !.pc = "select", !.hold = FALSE,
                                                     !.nextTick = MaxTime + 1]]
    /\ UNCHANGED <<now, lease, faults>>

\* submitter.submit: the transaction is applied or reverts, and either way
\* the service goes on to its next tick.
Submit(i, premium) ==
    /\ inst[i].pc = "submitting"
    /\ inst' = [inst EXCEPT ![i] = [@ EXCEPT !.pc = "select", !.since = now]]
    /\ IF PremiumOK(premium) /\ Due
       THEN index' = index + premium /\ lastFundingAt' = now
       ELSE UNCHANGED <<index, lastFundingAt>>
    /\ UNCHANGED <<now, lease, faults>>

\* premium_for or submit returns an error and nothing reached the chain: the
\* market is left out until the next tick.
SubmitFails(i) ==
    /\ Fault
    /\ inst[i].pc = "submitting"
    /\ inst' = [inst EXCEPT ![i] = [@ EXCEPT !.pc = "select", !.since = now]]
    /\ UNCHANGED <<now, lease, index, lastFundingAt>>

\* interval with MissedTickBehavior::Skip, polled only while leading: the next
\* renewal is the first multiple of the period, counted from due, after now.
RenewAfter(due) == due + renew_every * ((now - due) \div renew_every + 1)

RenewFires(i) ==
    /\ inst[i].pc = "select"
    /\ inst[i].hold
    /\ now >= inst[i].nextRenew
    /\ \E ok \in BOOLEAN :
         /\ Call(i, CanRenew(i), ok)
         /\ inst' = [inst EXCEPT ![i] = [@ EXCEPT !.hold = ok, !.since = now,
                                                  !.nextRenew = RenewAfter(inst[i].nextRenew)]]
    /\ UNCHANGED <<now, index, lastFundingAt>>

\* The process dies and is started again.
CrashRestart(i) ==
    /\ Fault
    /\ inst' = [inst EXCEPT ![i] = Fresh(now)]
    /\ lease' = IF lease.holder = i THEN [lease EXCEPT !.holder = Gone] ELSE lease
    /\ UNCHANGED <<now, index, lastFundingAt>>

\* When instance i must next be served.
ServeBy(i) ==
    IF inst[i].pc # "select" THEN inst[i].since
    ELSE IF inst[i].hold /\ inst[i].nextRenew < inst[i].nextTick THEN inst[i].nextRenew
    ELSE inst[i].nextTick

Elapse ==
    /\ now < MaxTime
    /\ \A i \in Instances : now < ServeBy(i) + MaxDelay
    /\ now' = now + 1
    /\ UNCHANGED <<lease, inst, index, lastFundingAt, faults>>

KeeperInit ==
    /\ now = 1
    /\ lease = [holder |-> Nobody, expires |-> 0]
    /\ inst \in [Instances -> {Fresh(t) : t \in 1 .. 2}]
    /\ index = 0
    /\ lastFundingAt = 0
    /\ faults = 0

KeeperNext ==
    \/ \E i \in Instances :
        \/ TickFires(i)
        \/ TickRenew(i)
        \/ TryAcquire(i)
        \/ \E p \in Premiums : Submit(i, p)
        \/ SubmitFails(i)
        \/ RenewFires(i)
        \/ CrashRestart(i)
    \/ Elapse

KeeperSpec == KeeperInit /\ [][KeeperNext]_keeperVars

-----------------------------------------------------------------------------
Pace == INSTANCE FundingPace WITH fundedAt <- lastFundingAt

\* Whatever leaders come and go, with leases that expire under a paused
\* leader, crashes and lost replies, the market's funding keeps the pace
\* FundingPace promises (the service's election and applyFunding's gate
\* together).
KeepsPace == Pace!PaceSpec

\* With live instances and a working backend, funding comes at least every
\* second interval, up to the service's own delays (run's tick and lease).
NeverSkipsTwice ==
    faults = 0 => now <= lastFundingAt + 2 * FUNDING_INTERVAL + 4 * MaxDelay

-----------------------------------------------------------------------------
(***************************************************************************)
(* Statements of the crate's comments that the code does not meet.         *)
(***************************************************************************)
\* At most one instance is past its election at a time.
OneLeaderAtATime ==
    \A i, j \in Instances :
        inst[i].pc = "submitting" /\ inst[j].pc = "submitting" => i = j

\* Funding is updated every interval, up to the service's own delays.
FundedEveryInterval == lastFundingAt # 0 => now <= lastFundingAt + FUNDING_INTERVAL + 4 * MaxDelay

\* A premium submitted when funding is due moves the index, clamped.
DuePremiumIsClamped ==
    [][\A i \in Instances, p \in Premiums : Submit(i, p) /\ Due =>
          index' - index = (IF p > MAX_PREMIUM_ABS THEN MAX_PREMIUM_ABS
                            ELSE IF p < -MAX_PREMIUM_ABS THEN -MAX_PREMIUM_ABS ELSE p)]_keeperVars
=============================================================================
