------------------------------- MODULE Toasts -------------------------------
(***************************************************************************)
(* The toasts of every app page (shell.js): at most three, each with a     *)
(* timer of its own that stands still while the toast is read, and one     *)
(* polite region that reads a burst of them out at once to those who do    *)
(* not see them.                                                           *)
(***************************************************************************)
EXTENDS Naturals, Sequences, FiniteSets, SequencesExt

CONSTANTS
    Groups,    \* "trade" can be turned off on the profile page, and is cleared with the account
    TOAST_LIMIT,
    MaxToasts, MaxMoves, MaxSettings \* bounds: toasts; moves of pointer and focus; settings changed

ToastBounds == {MaxToasts, MaxMoves, MaxSettings} \subseteq Nat /\ TOAST_LIMIT \in Nat \ {0}

VARIABLES
    host,      \* the toasts on the page, numbered as they were made
    group,     \* toast -> its group
    timed,     \* toasts whose timer runs: also of some no longer on the page
    pointer,   \* the toast under the pointer
    focus,     \* the toast with the focus
    pendingAnnouncements,
    tradeOn,
    heard,     \* history: toast -> how often it was read out
    moves, settings

toastVars == <<host, group, timed, pointer, focus, pendingAnnouncements, tradeOn, heard,
               moves, settings>>
spoken == <<pendingAnnouncements, heard>>
bounded == <<moves, settings>>

Nobody == 0
Made == DOMAIN group

Init ==
    /\ host = {} /\ group = <<>> /\ timed = {} /\ pointer = Nobody /\ focus = Nobody
    /\ pendingAnnouncements = <<>> /\ tradeOn \in BOOLEAN /\ heard = <<>>
    /\ moves = 0 /\ settings = 0

\* What leaves the page takes pointer and focus with it; no event of theirs follows.
Keep(kept) ==
    /\ host' = kept
    /\ pointer' = IF pointer \in kept THEN pointer ELSE Nobody
    /\ focus' = IF focus \in kept THEN focus ELSE Nobody
\* The newest come first, and what is beyond the limit is taken away from the end.
Newest(n) == {t \in host : Cardinality({u \in host : u > t}) < n}
showToast ==
    /\ Len(group) < MaxToasts
    /\ \E g \in Groups :
          /\ g = "trade" => tradeOn
          /\ LET toast == Len(group) + 1
             IN /\ group' = Append(group, g) /\ heard' = Append(heard, 0)
                /\ Keep({toast} \cup Newest(TOAST_LIMIT - 1))
                /\ timed' = timed \cup {toast}
                /\ pendingAnnouncements' = Append(pendingAnnouncements, toast)
    /\ UNCHANGED <<tradeOn, bounded>>
\* A second after the first that waits, all that wait are read out.
announce ==
    /\ pendingAnnouncements # <<>>
    /\ heard' = [t \in Made |-> heard[t] + (IF t \in ToSet(pendingAnnouncements) THEN 1 ELSE 0)]
    /\ pendingAnnouncements' = <<>>
    /\ UNCHANGED <<host, group, timed, pointer, focus, tradeOn, bounded>>

\* Its button, or Escape.
dismiss ==
    /\ moves < MaxMoves /\ moves' = moves + 1
    /\ \E t \in host : Keep(host \ {t}) /\ timed' = timed \ {t}
    /\ UNCHANGED <<group, spoken, tradeOn, settings>>
TimeUp ==
    /\ \E t \in timed : Keep(host \ {t}) /\ timed' = timed \ {t}
    /\ UNCHANGED <<group, spoken, tradeOn, bounded>>
\* clearToasts: of the trades when the account is switched, or all.
clearToasts ==
    /\ settings < MaxSettings /\ settings' = settings + 1
    /\ \E cleared \in {Groups, {"trade"}} : Keep({t \in host : group[t] \notin cleared})
    /\ UNCHANGED <<group, timed, spoken, tradeOn, moves>>
setTradeToasts ==
    /\ settings < MaxSettings /\ settings' = settings + 1 /\ tradeOn' = ~tradeOn
    /\ UNCHANGED <<host, group, timed, pointer, focus, spoken, moves>>

\* Reading or tabbing into a toast stops its timer.  The pointer that leaves starts it again
\* only if the focus is not there; the focus that leaves does so in any case.
PointerLeft(t) == {t} \ {Nobody, focus}
FocusLeft(t) == {t} \ {Nobody}
MovePointer ==
    /\ moves < MaxMoves /\ moves' = moves + 1
    /\ \E t \in (host \cup {Nobody}) \ {pointer} :
          pointer' = t /\ timed' = (timed \cup PointerLeft(pointer)) \ {t}
    /\ UNCHANGED <<host, group, focus, spoken, tradeOn, settings>>
MoveFocus ==
    /\ moves < MaxMoves /\ moves' = moves + 1
    /\ \E t \in (host \cup {Nobody}) \ {focus} :
          focus' = t /\ timed' = (timed \cup FocusLeft(focus)) \ {t}
    /\ UNCHANGED <<host, group, pointer, spoken, tradeOn, settings>>

Next == \/ showToast \/ announce \/ dismiss \/ TimeUp \/ clearToasts \/ setTradeToasts
        \/ MovePointer \/ MoveFocus
Spec == Init /\ [][Next]_toastVars

-----------------------------------------------------------------------------
TypeOK ==
    /\ host \subseteq Made /\ Cardinality(host) <= TOAST_LIMIT
    /\ timed \subseteq Made /\ {pointer, focus} \subseteq host \cup {Nobody}
    /\ \A t \in Made : group[t] \in Groups

\* What the two properties rest on: toasts are numbered as they are made, and what is shown,
\* timed, under the pointer, in focus or waiting to be read out was made.
Numbered ==
    /\ group \in Seq(Groups) /\ heard \in Seq(Nat) /\ Len(heard) = Len(group)
    /\ host \subseteq Made /\ timed \subseteq Made /\ pendingAnnouncements \in Seq(Made)
    /\ {pointer, focus} \subseteq Made \cup {Nobody}

\* A toast with the focus does not go away by itself, however the pointer moves.
FocusHoldsOpen == focus \notin timed

\* Each toast is read out once, in bursts or alone, also when it is gone by then.
ReadOutOnce ==
    \A t \in Made : heard[t] + (IF t \in ToSet(pendingAnnouncements) THEN 1 ELSE 0) = 1
=============================================================================
