------------------------------ MODULE Notices ------------------------------
(***************************************************************************)
(* Toasts and the celebration overlay: the ui store's lists of them        *)
(* (web/lib/store/ui-store.ts) and the components that show them and take  *)
(* them away (web/components/common/ToastViewport.tsx and                  *)
(* CelebrationOverlay.tsx).  A change of the store renders the component   *)
(* and runs its effect before any other callback does.                     *)
(*                                                                         *)
(* `since` is not in the code: for how long a notice has been shown.       *)
(***************************************************************************)
EXTENDS Integers, Functions

CONSTANTS
    TOAST,              \* ticks until a toast goes, 4.5 s
    AUTO_DISMISS,       \* ticks until a celebration goes, 2.5 s
    MaxNotices          \* bound on notices

ASSUME NoticeAssumption == {TOAST, AUTO_DISMISS} \subseteq Nat \ {0} /\ MaxNotices \in Nat

VARIABLES
    toasts,
    timeouts,             \* toast -> ticks left of its timer
    celebration,        \* 0 when there is none
    overlay,            \* timeouts of the overlay: ticks left
    noticed,            \* notices so far; each is one's id
    since

noticeVars == <<toasts, timeouts, celebration, overlay, noticed, since>>

-----------------------------------------------------------------------------
\* Mutant: the timer of a toast is set once, by the effect's first run.
ArmedOnce(ts) == IF timeouts = [t \in {} |-> 0] THEN [t \in ts |-> TOAST] ELSE Restrict(timeouts, ts \cap DOMAIN timeouts)

\* The effect of ToastViewport: every change of the list clears all timeouts and
\* sets new ones.
Armed(ts) == [t \in ts |-> TOAST]

\* Mutant: the timer of the celebration before is not cleared.
CoveredTwice(c) == IF c = 0 THEN {} ELSE overlay \cup {AUTO_DISMISS}

\* The effect of CelebrationOverlay, with its cleanup.
Covered(c) == IF c = 0 THEN {} ELSE {AUTO_DISMISS}

Fresh(n) == [i \in DOMAIN since \cup {n} |-> IF i = n THEN 0 ELSE since[i]]

PushToast ==
    /\ noticed < MaxNotices
    /\ noticed' = noticed + 1
    /\ toasts' = toasts \cup {noticed'}
    /\ timeouts' = Armed(toasts')
    /\ since' = Fresh(noticed')
    /\ UNCHANGED <<celebration, overlay>>

Celebrate ==
    /\ noticed < MaxNotices
    /\ noticed' = noticed + 1
    /\ celebration' = noticed'
    /\ overlay' = Covered(celebration')
    /\ since' = Fresh(noticed')
    /\ UNCHANGED <<toasts, timeouts>>

DismissToast(t) ==
    /\ toasts' = toasts \ {t}
    /\ timeouts' = Armed(toasts')
    /\ UNCHANGED <<celebration, overlay, noticed, since>>

DismissCelebration ==
    /\ celebration' = 0
    /\ overlay' = Covered(0)
    /\ UNCHANGED <<toasts, timeouts, noticed, since>>

\* A click on a toast's button, or on the overlay.
ToastClicked(t) == t \in toasts /\ DismissToast(t)
OverlayClicked == celebration # 0 /\ DismissCelebration

\* Timers fire in some order once they are due.
ToastTimer(t) == t \in DOMAIN timeouts /\ timeouts[t] = 0 /\ DismissToast(t)
OverlayTimer == 0 \in overlay /\ DismissCelebration

Tick ==
    /\ DOMAIN timeouts # {} \/ overlay # {}
    /\ 0 \notin Range(timeouts) \cup overlay
    /\ timeouts' = [t \in DOMAIN timeouts |-> timeouts[t] - 1]
    /\ overlay' = {left - 1 : left \in overlay}
    /\ since' = [n \in DOMAIN since |-> IF n \in toasts \cup {celebration} THEN since[n] + 1 ELSE since[n]]
    /\ UNCHANGED <<toasts, celebration, noticed>>

NoticeInit ==
    /\ toasts = {} /\ timeouts = [t \in {} |-> TOAST]
    /\ celebration = 0 /\ overlay = {}
    /\ noticed = 0 /\ since = [n \in {} |-> 0]

NoticeNext ==
    \/ PushToast \/ Celebrate
    \/ \E t \in toasts : ToastClicked(t) \/ ToastTimer(t)
    \/ OverlayClicked \/ OverlayTimer
    \/ Tick

\* Time passes and timeouts fire.  Nobody has to click.
NoticeFairness == WF_noticeVars(Tick \/ OverlayTimer \/ \E t \in toasts : ToastTimer(t))

NoticeSpec == NoticeInit /\ [][NoticeNext]_noticeVars /\ NoticeFairness

-----------------------------------------------------------------------------
(***************************************************************************)
(* Properties.                                                             *)
(***************************************************************************)

\* Once nothing new comes every notice goes by itself, although each toast
\* that comes or goes starts the timeouts of all the others again.
NoticesGo == <>[](toasts = {} /\ celebration = 0)

\* A timer takes nothing away before its time: not a celebration that took the
\* place of another one whose timer was set first, nor a toast pushed after.
StayTheirTime ==
    [][/\ OverlayTimer => since[celebration] >= AUTO_DISMISS
       /\ \A t \in toasts : ToastTimer(t) => since[t] >= TOAST]_noticeVars

\* Both: every notice has its time on the screen and then goes (ToastViewport,
\* CelebrationOverlay).
NoticesTimed == NoticesGo /\ StayTheirTime
=============================================================================
