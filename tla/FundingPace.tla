----------------------------- MODULE FundingPace -----------------------------
(***************************************************************************)
(* What the funding of one market promises: its index moves by a bounded   *)
(* premium, and never twice within one interval, whoever submits.          *)
(***************************************************************************)
EXTENDS Integers

CONSTANTS MAX_PREMIUM_ABS, FUNDING_INTERVAL

VARIABLES
    now,
    index,
    fundedAt    \* time of the last move, 0 before the first

Advance == now' > now /\ UNCHANGED <<index, fundedAt>>

Move ==
    /\ fundedAt # 0 => now >= fundedAt + FUNDING_INTERVAL
    /\ index' - index \in -MAX_PREMIUM_ABS .. MAX_PREMIUM_ABS
    /\ fundedAt' = now
    /\ UNCHANGED now

PaceInit == now = 1 /\ index = 0 /\ fundedAt = 0

PaceSpec == PaceInit /\ [][Advance \/ Move]_<<now, index, fundedAt>>
=============================================================================
