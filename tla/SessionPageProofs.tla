-------------------------- MODULE SessionPageProofs -------------------------
(***************************************************************************)
(* Proofs about the programs of SessionPages, for any constants: toasts,   *)
(* sign-in, the welcome questions, the account switch, the cookie choice,  *)
(* the check of the ticks of versions 1 and 2; and about ProofPackage.     *)
(***************************************************************************)
EXTENDS SessionPages, ProofPackage, FiniteSetTheorems, SequenceTheorems, TLAPS

-----------------------------------------------------------------------------
(* Toasts: v1 is host, v2 group, v3 timed, v4 pointer, v5 focus,           *)
(* v6 pendingAnnouncements, v8 heard                                       *)

ToastsInv == P!Numbered /\ P!FocusHoldsOpen /\ P!ReadOutOnce

LEMMA ToastsInit == P!Init => ToastsInv
  BY DEF P!Init, ToastsInv, P!Numbered, P!FocusHoldsOpen, P!ReadOutOnce, P!Made, P!Nobody

\* A new toast waits to be read out, and nothing else about reading out changes.
LEMMA ToastShown == ASSUME ToastsInv, P!showToast PROVE ToastsInv'
<1> USE DEF ToastsInv, P!Numbered, P!FocusHoldsOpen, P!ReadOutOnce, P!Made, P!Nobody, P!ToSet
<1> DEFINE toast == Len(v2) + 1
<1>1. PICK g \in Toast.Groups :
        /\ v2' = Append(v2, g) /\ v8' = Append(v8, 0) /\ P!Keep({toast} \cup P!Newest(Toast.TOAST_LIMIT - 1))
        /\ v3' = v3 \cup {toast} /\ v6' = Append(v6, toast)
  BY DEF P!showToast
<1>2. v2' \in Seq(Toast.Groups) /\ v8' \in Seq(Nat) /\ Len(v8') = Len(v2') /\ DOMAIN v2' = 1 .. toast
  BY <1>1
<1>3. v6' \in Seq(1 .. toast) /\ v6' = Append(v6, toast)
  BY <1>1
<1>4. v1' \subseteq 1 .. toast /\ v3' \subseteq 1 .. toast
  BY <1>1 DEF P!Keep, P!Newest
<1>5. {v4', v5'} \subseteq 1 .. toast \cup {0} /\ v5' \notin v3'
  BY <1>1 DEF P!Keep
<1>6. P!ReadOutOnce'
  <2> SUFFICES ASSUME NEW t \in 1 .. toast
               PROVE v8'[t] + (IF t \in {v6'[i] : i \in DOMAIN v6'} THEN 1 ELSE 0) = 1
    BY <1>2
  <2>1. t \in {v6'[i] : i \in DOMAIN v6'} <=> t = toast \/ t \in {v6[i] : i \in DOMAIN v6}
    <3>1. DOMAIN v6' = 1 .. Len(v6) + 1 /\ DOMAIN v6 = 1 .. Len(v6) /\ Len(v6) \in Nat
      BY <1>3
    <3>2. v6'[Len(v6) + 1] = toast /\ \A i \in 1 .. Len(v6) : v6'[i] = v6[i]
      BY <1>3
    <3> HIDE DEF toast, ToastsInv
    <3>3. ASSUME NEW i \in DOMAIN v6', t = v6'[i] PROVE t = toast \/ \E j \in DOMAIN v6 : t = v6[j]
      <4>1. CASE i = Len(v6) + 1
        BY <3>2, <3>3, <4>1
      <4>2. CASE i # Len(v6) + 1
        <5>1. i \in DOMAIN v6
          BY <3>1, <3>3, <4>2
        <5> QED BY <3>1, <3>2, <3>3, <5>1
      <4> QED BY <4>1, <4>2
    <3>4. ASSUME NEW j \in DOMAIN v6, t = v6[j] PROVE \E i \in DOMAIN v6' : t = v6'[i]
      <4>1. j \in DOMAIN v6' /\ v6'[j] = v6[j]
        BY <3>1, <3>2
      <4> QED BY <3>4, <4>1
    <3>5. \E i \in DOMAIN v6' : toast = v6'[i]
      <4>1. Len(v6) + 1 \in DOMAIN v6'
        BY <3>1
      <4> QED BY <3>2, <4>1
    <3> QED BY <3>3, <3>4, <3>5
  <2>2. CASE t = toast
    BY <2>1, <2>2, <1>1
  <2>3. CASE t # toast
    <3>1. t \in DOMAIN v2 /\ v8'[t] = v8[t]
      BY <2>3, <1>1
    <3> QED BY <2>1, <2>3, <3>1
  <2> QED BY <2>2, <2>3
<1> QED BY <1>2, <1>3, <1>4, <1>5, <1>6

\* All that wait are read out once, and wait no more.
LEMMA ToastsAnnounced == ASSUME ToastsInv, P!announce PROVE ToastsInv'
<1> USE DEF ToastsInv, P!Numbered, P!FocusHoldsOpen, P!ReadOutOnce, P!Made, P!Nobody
<1>1. /\ v8' = [t \in DOMAIN v2 |-> v8[t] + (IF t \in P!ToSet(v6) THEN 1 ELSE 0)]
      /\ v6' = <<>> /\ UNCHANGED <<v1, v2, v3, v4, v5>>
  BY DEF P!announce
<1>2. DOMAIN v2 = 1 .. Len(v2)
  OBVIOUS
<1>3. \A t \in DOMAIN v2 : v8'[t] = 1
  BY <1>1
<1>4. v8' \in Seq(Nat) /\ Len(v8') = Len(v2)
  BY <1>1, <1>2, <1>3
<1>5. P!ReadOutOnce'
  BY <1>1, <1>3 DEF P!ToSet
<1> QED BY <1>1, <1>4, <1>5

LEMMA ToastsNext == ToastsInv /\ [P!Next]_P!toastVars => ToastsInv'
<1> SUFFICES ASSUME ToastsInv, [P!Next]_P!toastVars PROVE ToastsInv'
  OBVIOUS
<1> USE DEF ToastsInv, P!Numbered, P!FocusHoldsOpen, P!ReadOutOnce, P!Made, P!Nobody, P!Keep, P!ToSet, P!bounded, P!spoken
<1>1. CASE P!dismiss
  BY <1>1 DEF P!dismiss
<1>2. CASE P!TimeUp
  BY <1>2 DEF P!TimeUp
<1>3. CASE P!clearToasts
  BY <1>3 DEF P!clearToasts
<1>4. CASE P!setTradeToasts
  BY <1>4 DEF P!setTradeToasts
<1>5. CASE P!MovePointer
  BY <1>5 DEF P!MovePointer, P!PointerLeft
<1>6. CASE P!MoveFocus
  BY <1>6 DEF P!MoveFocus, P!FocusLeft
<1>7. CASE UNCHANGED P!toastVars
  BY <1>7 DEF P!toastVars
<1> QED BY <1>1, <1>2, <1>3, <1>4, <1>5, <1>6, <1>7, ToastShown, ToastsAnnounced, Zenon DEF P!Next

-----------------------------------------------------------------------------
(* The forms' limits: v1 is form, v2 now, v3 limit, v4 task, v7 recorded   *)

LimitsInv == L!SignInTyped /\ L!CountsTheLatest /\ L!OthersAreOver /\ L!AttemptsLimited

LEMMA LimitsAssumed ==
    \A f \in Entrance.Forms :
        /\ Entrance.Limits[f] \in [max : Nat \ {0}, window : Nat, lock : Nat]
        /\ Entrance.Limits[f].lock <= Entrance.Limits[f].window
  BY SessionAssumptions DEF SessionAssumptions, L!SignInLimits

LEMMA LimitsInit == L!Init => LimitsInv
  BY LimitsAssumed DEF L!Init, LimitsInv, L!SignInTyped, L!CountsTheLatest, L!OthersAreOver, L!AttemptsLimited,
     L!Times, L!Fresh, L!Idle, L!None

LEMMA OneMore ==
    ASSUME NEW t \in Seq(Nat), NEW x \in Nat, NEW more, more = Append(t, x)
    PROVE  /\ more \in Seq(Nat) /\ Len(more) = Len(t) + 1 /\ more[Len(t) + 1] = x
           /\ \A i \in 1 .. Len(t) : more[i] = t[i]
  OBVIOUS

\* The times after the first `old`.
LEMMA LaterTimes ==
    ASSUME NEW s \in Seq(Nat), NEW old \in 0 .. Len(s)
    PROVE  \E t \in Seq(Nat) : /\ t = SubSeq(s, old + 1, Len(s)) /\ Len(t) = Len(s) - old
                               /\ \A i \in 1 .. Len(s) - old : t[i] = s[old + i]
<1> DEFINE n == Len(s)
           t == SubSeq(s, old + 1, n)
<1>1. n \in Nat /\ old \in 0 .. n /\ \A i \in old + 1 .. n : s[i] \in Nat
  OBVIOUS
<1> HIDE DEF n
<1>2. /\ t \in Seq(Nat) /\ Len(t) = IF old + 1 <= n THEN n - (old + 1) + 1 ELSE 0
      /\ \A i \in 1 .. n - (old + 1) + 1 : t[i] = s[old + 1 + i - 1]
  <2>1. old + 1 \in Int /\ n \in Int
    BY <1>1
  <2> QED BY <1>1, <2>1, SubSeqProperties
<1> HIDE DEF t
<1>3. Len(t) = n - old /\ \A i \in 1 .. n - old : t[i] = s[old + i]
  <2>1. n - (old + 1) + 1 = n - old /\ \A i \in 1 .. n - old : old + 1 + i - 1 = old + i
    BY <1>1
  <2> QED BY <1>1, <1>2, <2>1
<1> QED BY <1>2, <1>3, Zenon DEF n, t

\* The times kept and a new one.
LEMMA KeptTimes ==
    ASSUME NEW s \in Seq(Nat), NEW old \in 0 .. Len(s), NEW x \in Nat, NEW kept,
           kept = Append(SubSeq(s, old + 1, Len(s)), x)
    PROVE  /\ kept \in Seq(Nat) /\ Len(kept) = Len(s) - old + 1 /\ kept[Len(s) - old + 1] = x
           /\ \A i \in 1 .. Len(s) - old : kept[i] = s[old + i]
<1>1. PICK t \in Seq(Nat) : /\ t = SubSeq(s, old + 1, Len(s)) /\ Len(t) = Len(s) - old
                            /\ \A i \in 1 .. Len(s) - old : t[i] = s[old + i]
  BY LaterTimes
<1>2. /\ Append(t, x) \in Seq(Nat) /\ Len(Append(t, x)) = Len(t) + 1 /\ Append(t, x)[Len(t) + 1] = x
      /\ \A i \in 1 .. Len(t) : Append(t, x)[i] = t[i]
  OBVIOUS
<1>3. kept = Append(t, x)
  BY <1>1
<1> QED BY <1>1, <1>2, <1>3, Zenon

\* Of m times recorded, the last n count; the first `old` of those count no more now.
LEMMA OverByNow ==
    ASSUME NEW m \in Nat, NEW n \in Nat, n <= m, NEW rec, \A i \in 1 .. m : rec[i] \in Nat,
           NEW at, \A i \in 1 .. n : at[i] = rec[m - n + i], NEW old \in 0 .. n,
           NEW now \in Nat, NEW until \in Nat, until <= now, NEW window \in Nat, NEW lock \in Nat, lock <= window,
           \A i \in 1 .. m - n : rec[i] + lock <= now \/ rec[i] + lock <= until,
           \A i \in 1 .. n : now < at[i] + window <=> i > old
    PROVE  \A i \in 1 .. m - n + old : rec[i] + lock <= now
<1> SUFFICES ASSUME NEW i \in 1 .. m - n + old PROVE rec[i] + lock <= now
  OBVIOUS
<1>1. rec[i] \in Nat
  OBVIOUS
<1>2. CASE i <= m - n
  <2>1. rec[i] + lock <= now \/ rec[i] + lock <= until
    BY <1>2
  <2> QED BY <1>1, <2>1
<1>3. CASE i > m - n
  <2> DEFINE j == i - (m - n)
  <2>1. j \in 1 .. n /\ j <= old /\ m - n + j = i
    BY <1>3
  <2> HIDE DEF j
  <2>2. at[j] = rec[i] /\ ~(now < at[j] + window)
    BY <2>1
  <2> QED BY <1>1, <2>2
<1> QED BY <1>2, <1>3

\* What it means to a record when one more is made: of the m times recorded the last n
\* counted, and the last k of the m + 1 do now.
RecordGrows(m, n, rec, now, lock, max, old, more) ==
    /\ m \in Nat /\ n \in Nat /\ n <= m /\ \A i \in 1 .. m : rec[i] \in Nat
    /\ now \in Nat /\ lock \in Nat /\ max \in Nat /\ 0 < max /\ n < max /\ old \in 0 .. n
    /\ \A i \in 1 .. m : rec[i] <= now
    /\ \A i \in 1 .. m - n + old : rec[i] + lock <= now
    /\ \A i \in 1 .. m : i + max <= m => rec[i + max] - rec[i] >= lock
    /\ more[m + 1] = now /\ \A i \in 1 .. m : more[i] = rec[i]
RecordGrown(m, n, now, lock, max, old, more) ==
    /\ \A i \in 1 .. m + 1 : more[i] <= now
    /\ \A i \in 1 .. m + 1 : i + max <= m + 1 => more[i + max] - more[i] >= lock
    /\ \A i \in 1 .. m + 1 - (n - old + 1) : more[i] + lock <= now
LEMMA OneMoreTime ==
    ASSUME NEW m, NEW n, NEW rec, NEW now, NEW lock, NEW max, NEW old, NEW more,
           RecordGrows(m, n, rec, now, lock, max, old, more)
    PROVE  RecordGrown(m, n, now, lock, max, old, more)
<1> USE DEF RecordGrows
<1>1. ASSUME NEW i \in 1 .. m + 1 PROVE i = m + 1 \/ i \in 1 .. m
  OBVIOUS
<1>2. \A i \in 1 .. m + 1 : more[i] <= now
  BY <1>1
<1>3. ASSUME NEW i \in 1 .. m + 1, i + max <= m + 1 PROVE more[i + max] - more[i] >= lock
  <2>1. CASE i + max <= m
    <3>1. i \in 1 .. m /\ i + max \in 1 .. m
      BY <2>1
    <3>2. rec[i + max] - rec[i] >= lock
      BY <2>1, <3>1
    <3> QED BY <3>1, <3>2
  <2>2. CASE i + max = m + 1
    <3>1. i \in 1 .. m - n + old /\ i \in 1 .. m
      BY <2>2
    <3>2. more[i + max] = now /\ more[i] = rec[i] /\ rec[i] \in Nat /\ rec[i] + lock <= now
      BY <2>2, <3>1
    <3> QED BY <3>2
  <2> QED BY <1>3, <2>1, <2>2
<1>4. ASSUME NEW i \in 1 .. m + 1 - (n - old + 1) PROVE more[i] + lock <= now
  <2>1. i \in 1 .. m - n + old /\ i \in 1 .. m
    OBVIOUS
  <2> QED BY <2>1
<1> QED BY <1>2, <1>3, <1>4 DEF RecordGrown

\* The last n - old of the times that counted are the last but one recorded.
KeepsLatest(m, n, rec, at, now, old, kept, more) ==
    /\ m \in Nat /\ n \in Nat /\ n <= m /\ old \in 0 .. n
    /\ \A i \in 1 .. n : at[i] = rec[m - n + i]
    /\ kept[n - old + 1] = now /\ \A i \in 1 .. n - old : kept[i] = at[old + i]
    /\ more[m + 1] = now /\ \A i \in 1 .. m : more[i] = rec[i]
LatestAreKept(m, n, old, kept, more) ==
    \A i \in 1 .. n - old + 1 : kept[i] = more[m + 1 - (n - old + 1) + i]
LEMMA LatestKept ==
    ASSUME NEW m, NEW n, NEW rec, NEW at, NEW now, NEW old, NEW kept, NEW more,
           KeepsLatest(m, n, rec, at, now, old, kept, more)
    PROVE  LatestAreKept(m, n, old, kept, more)
<1> USE DEF KeepsLatest, LatestAreKept
<1> SUFFICES ASSUME NEW i \in 1 .. n - old + 1 PROVE kept[i] = more[m - n + (old + i)]
  OBVIOUS
<1>1. CASE i = n - old + 1
  <2>1. m - n + (old + i) = m + 1
    BY <1>1
  <2> QED BY <1>1, <2>1
<1>2. CASE i \in 1 .. n - old
  <2>1. old + i \in 1 .. n /\ m - n + (old + i) \in 1 .. m
    BY <1>2
  <2>2. kept[i] = at[old + i] /\ at[old + i] = rec[m - n + (old + i)]
    BY <1>2, <2>1
  <2> QED BY <2>1, <2>2
<1> QED BY <1>1, <1>2

\* An attempt recorded while none has to wait: what counts no more is over.
LEMMA AttemptRecorded ==
    ASSUME LimitsInv, L!record, v3.until <= v2, UNCHANGED <<v1, v2>>,
           v4'.step \notin {"asked", "asksRole", "leaves"} \/ L!CountsAtOnce',
           v4'.step \in {"asksRole", "leaves"} => v1' = "staff-signin", "step" \in DOMAIN v4'
    PROVE  LimitsInv'
<1> DEFINE max == Entrance.Limits[v1].max
           window == Entrance.Limits[v1].window
           lock == Entrance.Limits[v1].lock
           m == Len(v7)
           n == Len(v3.at)
           kept(old) == Append(SubSeq(v3.at, old + 1, Len(v3.at)), v2)
<1>1. /\ v1 \in Entrance.Forms /\ v2 \in Nat /\ v7 \in Seq(Nat) /\ v3 \in [at : Seq(Nat), until : Nat]
      /\ n < max /\ n <= m
      /\ \A i \in 1 .. n : v3.at[i] = v7[m - n + i]
  <2>1. L!SignInTyped /\ L!CountsTheLatest
    BY DEF LimitsInv
  <2>2. v1 \in Entrance.Forms /\ v2 \in Nat /\ v7 \in Seq(Nat) /\ v3 \in [at : Seq(Nat), until : Nat] /\ n < max
    BY <2>1 DEF L!SignInTyped
  <2>3. n <= m /\ \A i \in DOMAIN v3.at : v3.at[i] = v7[m - n + i]
    BY <2>1, Zenon DEF L!CountsTheLatest, L!Times
  <2>4. DOMAIN v3.at = 1 .. n
    BY <2>2
  <2> QED BY <2>2, <2>3, <2>4, Zenon
<1>2. {max, window, lock} \subseteq Nat /\ lock <= window /\ 0 < max
  BY <1>1, LimitsAssumed
<1>3. m \in Nat /\ n \in Nat /\ v3.at \in Seq(Nat) /\ v3.until \in Nat /\ \A i \in 1 .. m : v7[i] \in Nat
  BY <1>1
<1>4. /\ \A i \in 1 .. m : v7[i] <= v2
      /\ \A i \in 1 .. m - n : v7[i] + lock <= v2 \/ v7[i] + lock <= v3.until
      /\ \A i \in 1 .. m : i + max <= m => v7[i + max] - v7[i] >= lock
  BY DEF LimitsInv, L!OthersAreOver, L!AttemptsLimited, L!Times
<1>5. PICK old \in 0 .. n :
        /\ \A i \in 1 .. n : v2 < v3.at[i] + window <=> i > old
        /\ v3' = IF L!Reached(kept(old), max) THEN [at |-> <<>>, until |-> v2 + lock]
                 ELSE [v3 EXCEPT !.at = kept(old)]
        /\ v7' = Append(v7, v2)
  <2>1. DOMAIN v3.at = 1 .. n
    BY <1>1
  <2> QED BY <2>1, Zenon DEF L!record
<1>6. v7' \in Seq(Nat) /\ Len(v7') = m + 1 /\ v7'[m + 1] = v2 /\ \A i \in 1 .. m : v7'[i] = v7[i]
  <2>1. v7' = Append(v7, v2) /\ v7 \in Seq(Nat) /\ v2 \in Nat
    BY <1>1, <1>5
  <2> QED BY <2>1, OneMore
<1>7. /\ kept(old) \in Seq(Nat) /\ Len(kept(old)) = n - old + 1 /\ kept(old)[n - old + 1] = v2
      /\ \A i \in 1 .. n - old : kept(old)[i] = v3.at[old + i]
  <2>1. v3.at \in Seq(Nat) /\ v2 \in Nat
    BY <1>1
  <2> QED BY <2>1, KeptTimes
<1>8. L!Reached(kept(old), max) <=> n - old + 1 >= max
  BY <1>7 DEF L!Reached
<1>9. /\ \A i \in DOMAIN v7' : i \in 1 .. m + 1
      /\ \A i \in 1 .. m + 1 : v7'[i] <= v2
      /\ \A i \in 1 .. m + 1 : i + max <= m + 1 => v7'[i + max] - v7'[i] >= lock
      /\ \A i \in 1 .. m + 1 - (n - old + 1) : v7'[i] + lock <= v2
      /\ \A i \in 1 .. n - old + 1 : kept(old)[i] = v7'[m + 1 - (n - old + 1) + i]
  <2>1. DOMAIN v7' = 1 .. m + 1
    BY <1>6
  <2>2. v2 \in Nat /\ max \in Nat /\ lock \in Nat /\ window \in Nat
    BY <1>1, <1>2
  <2> HIDE DEF max, window, lock, m, n, kept
  <2>3. \A i \in 1 .. m - n + old : v7[i] + lock <= v2
    BY <1>1, <1>2, <1>3, <1>4, <1>5, <2>2, OverByNow
  <2>4. /\ \A i \in 1 .. m + 1 : v7'[i] <= v2
        /\ \A i \in 1 .. m + 1 : i + max <= m + 1 => v7'[i + max] - v7'[i] >= lock
        /\ \A i \in 1 .. m + 1 - (n - old + 1) : v7'[i] + lock <= v2
    <3>1. RecordGrows(m, n, v7, v2, lock, max, old, v7')
      BY <1>1, <1>2, <1>3, <1>4, <1>5, <1>6, <2>2, <2>3, Zenon DEF RecordGrows
    <3> QED BY <3>1, OneMoreTime, Zenon DEF RecordGrown
  <2>5. \A i \in 1 .. n - old + 1 : kept(old)[i] = v7'[m + 1 - (n - old + 1) + i]
    <3> DEFINE at == kept(old)
    <3>1. at[n - old + 1] = v2 /\ \A i \in 1 .. n - old : at[i] = v3.at[old + i]
      BY <1>7
    <3> HIDE DEF at
    <3>3. KeepsLatest(m, n, v7, v3.at, v2, old, at, v7')
      BY <1>1, <1>3, <1>5, <1>6, <3>1, Zenon DEF KeepsLatest
    <3>2. \A i \in 1 .. n - old + 1 : at[i] = v7'[m + 1 - (n - old + 1) + i]
      <4>1. LatestAreKept(m, n, old, at, v7')
        BY <3>3, LatestKept, Zenon
      <4> QED BY <4>1, Zenon DEF LatestAreKept
    <3> QED BY <3>2 DEF at
  <2> QED BY <2>1, <2>4, <2>5
<1>10. L!AttemptsLimited'
  BY <1>6, <1>9 DEF L!AttemptsLimited
<1>11. CASE v3' = [at |-> <<>>, until |-> v2 + lock]
  <2>1. v2 \in Nat /\ max \in Nat /\ lock \in Nat /\ 0 < max
    BY <1>1, <1>2
  <2>2. v3' \in [at : Seq(Nat), until : Nat] /\ Len(v3'.at) = 0 /\ v3'.until = v2 + lock /\ v3'.at = <<>>
    <3> HIDE DEF lock
    <3>1. v2 + lock \in Nat
      BY <2>1
    <3> QED BY <1>11, <3>1
  <2>3. L!SignInTyped'
    BY <1>1, <1>6, <2>1, <2>2 DEF L!SignInTyped
  <2>4. L!CountsTheLatest'
    BY <1>3, <1>6, <2>2 DEF L!CountsTheLatest, L!Times
  <2>5. \A i \in 1 .. m + 1 : v7'[i] + lock <= v2 + lock
    <3> HIDE DEF m, lock
    <3>1. \A i \in 1 .. m + 1 : v7'[i] \in Nat
      BY <1>6
    <3> QED BY <1>9, <2>1, <3>1
  <2>6. m + 1 - 0 = m + 1
    BY <1>3
  <2>7. L!OthersAreOver'
    BY <1>6, <1>9, <2>2, <2>5, <2>6 DEF L!OthersAreOver, L!Times, L!CountsAtOnce
  <2> QED BY <1>10, <2>3, <2>4, <2>7 DEF LimitsInv
<1>12. CASE v3' = [v3 EXCEPT !.at = kept(old)] /\ n - old + 1 < max
  <2>1. v3' \in [at : Seq(Nat), until : Nat] /\ v3'.at = kept(old) /\ v3'.until = v3.until
    <3>1. kept(old) \in Seq(Nat)
      BY <1>7
    <3> HIDE DEF kept
    <3> QED BY <1>1, <1>12, <3>1
  <2> HIDE DEF kept
  <2>2. L!SignInTyped'
    BY <1>1, <1>6, <1>7, <1>12, <2>1 DEF L!SignInTyped
  <2>3. n - old + 1 <= m + 1 /\ DOMAIN v3'.at = 1 .. n - old + 1
    BY <1>1, <1>3, <1>7, <2>1
  <2>4. L!CountsTheLatest'
    <3>1. Len(v3'.at) = n - old + 1 /\ Len(v7') = m + 1 /\ v3'.at = kept(old)
      BY <1>6, <1>7, <2>1
    <3> HIDE DEF m, n
    <3>2. Len(v3'.at) <= Len(v7')
      BY <2>3, <3>1
    <3>3. \A i \in DOMAIN v3'.at : v3'.at[i] = v7'[Len(v7') - Len(v3'.at) + i]
      <4> SUFFICES ASSUME NEW i \in 1 .. n - old + 1 PROVE v3'.at[i] = v7'[Len(v7') - Len(v3'.at) + i]
        BY <2>3
      <4>1. kept(old)[i] = v7'[m + 1 - (n - old + 1) + i]
        BY <1>9
      <4>2. Len(v7') - Len(v3'.at) = m + 1 - (n - old + 1)
        <5>1. Len(v7') = m + 1
          BY <3>1
        <5>2. Len(v3'.at) = n - old + 1
          BY <3>1
        <5> HIDE DEF m, n
        <5> QED BY <5>1, <5>2, <1>3
      <4>3. v3'.at[i] = kept(old)[i]
        BY <3>1
      <4> HIDE DEF m, n
      <4> QED BY <4>1, <4>2, <4>3
    <3> QED BY <3>2, <3>3, Zenon DEF L!CountsTheLatest, L!Times
  <2>5. L!OthersAreOver'
    <3>1. Len(v3'.at) = n - old + 1 /\ Len(v7') = m + 1 /\ v3'.until = v3.until /\ v1' = v1 /\ v2' = v2
      BY <1>6, <1>7, <2>1
    <3> HIDE DEF m, n
    <3>2. \A i \in 1 .. Len(v7') : v7'[i] <= v2'
      BY <1>9, <3>1
    <3>3. \A i \in 1 .. Len(v7') - Len(v3'.at) : v7'[i] + Entrance.Limits[v1'].lock <= v2'
      BY <1>3, <1>9, <3>1 DEF lock
    <3> QED BY <3>2, <3>3, Zenon DEF L!OthersAreOver, L!Times
  <2> QED BY <1>10, <2>2, <2>4, <2>5 DEF LimitsInv
<1> HIDE DEF kept
<1>13. n - old + 1 < max \/ n - old + 1 >= max
  BY <1>2, <1>3
<1> QED BY <1>5, <1>8, <1>11, <1>12, <1>13

LEMMA LimitsNext == LimitsInv /\ [L!Next]_L!signInVars => LimitsInv'
<1> SUFFICES ASSUME LimitsInv, [L!Next]_L!signInVars PROVE LimitsInv'
  OBVIOUS
<1>1. v2 \in Nat /\ v3.until \in Nat /\ "step" \in DOMAIN v4
  BY DEF LimitsInv, L!SignInTyped
\* A step that records nothing and starts nothing.
<1>2. ASSUME UNCHANGED <<v1, v3, v7>>, v2' \in Nat, v2 <= v2',
             v4'.step \in {"asked", "asksRole", "leaves"} /\ ~L!CountsAtOnce => v3.until <= v2',
             v4'.step \in {"asksRole", "leaves"} => v1 = "staff-signin", "step" \in DOMAIN v4'
      PROVE  LimitsInv'
  <2>1. L!SignInTyped' /\ L!CountsTheLatest' /\ L!AttemptsLimited'
    BY <1>2, LimitsAssumed DEF LimitsInv, L!SignInTyped, L!CountsTheLatest, L!AttemptsLimited, L!Times
  <2>2. \A i \in 1 .. Len(v7) - Len(v3.at) : 
          v7[i] + Entrance.Limits[v1].lock <= v2' \/ v7[i] + Entrance.Limits[v1].lock <= v3.until
    <3> SUFFICES ASSUME NEW i \in 1 .. Len(v7) - Len(v3.at)
                 PROVE  v7[i] + Entrance.Limits[v1].lock <= v2' \/ v7[i] + Entrance.Limits[v1].lock <= v3.until
      OBVIOUS
    <3>1. v7[i] + Entrance.Limits[v1].lock <= v2 \/ v7[i] + Entrance.Limits[v1].lock <= v3.until
      BY DEF LimitsInv, L!OthersAreOver, L!Times
    <3>2. Entrance.Limits[v1].lock \in Nat
      BY LimitsAssumed DEF LimitsInv, L!SignInTyped
    <3>3. v7[i] \in Nat
      BY DEF LimitsInv, L!SignInTyped
    <3> QED BY <1>1, <1>2, <3>1, <3>2, <3>3
  <2>4. \A i \in 1 .. Len(v7) : v7[i] <= v2'
    <3> SUFFICES ASSUME NEW i \in 1 .. Len(v7) PROVE v7[i] <= v2'
      OBVIOUS
    <3>1. v7[i] \in Nat /\ v7[i] <= v2
      BY DEF LimitsInv, L!SignInTyped, L!OthersAreOver, L!Times
    <3> QED BY <1>1, <1>2, <3>1
  <2>3. L!OthersAreOver'
    BY <1>2, <2>2, <2>4, Zenon DEF L!OthersAreOver, L!Times, L!CountsAtOnce
  <2> QED BY <2>1, <2>3 DEF LimitsInv
\* A success forgets every attempt.
<1>3. ASSUME L!reset, UNCHANGED <<v1, v2>>, v4'.step = "inside", "step" \in DOMAIN v4' PROVE LimitsInv'
  BY <1>3, LimitsAssumed DEF LimitsInv, L!SignInTyped, L!CountsTheLatest, L!OthersAreOver, L!AttemptsLimited, L!Times,
     L!reset, L!Fresh
<1>4. v4.step \in {"asked", "asksRole", "leaves"} /\ ~L!CountsAtOnce => v3.until <= v2
  BY DEF LimitsInv, L!OthersAreOver
<1>18. v4.step \in {"asksRole", "leaves"} => v1 = "staff-signin" /\ ~L!CountsAtOnce
  <2>1. v4.step \in {"asksRole", "leaves"} => v1 = "staff-signin"
    BY DEF LimitsInv, L!SignInTyped
  <2> QED BY <2>1 DEF L!CountsAtOnce
<1> USE DEF L!Leads, L!Idle, L!None
<1>5. CASE L!TimePasses
  BY <1>1, <1>2, <1>4, <1>18, <1>5 DEF L!TimePasses
<1>6. CASE L!Checked
  <2>1. UNCHANGED <<v1, v2, v3, v7>>
    BY <1>6 DEF L!Checked
  <2>2. CASE v4' = v4
    BY <1>1, <1>2, <1>4, <1>18, <2>1, <2>2
  <2>3. CASE v4' = [L!Idle EXCEPT !.step = "inside", !.who = L!Stored(v5)]
    <3>1. v4'.step = "inside" /\ "step" \in DOMAIN v4'
      BY <2>3
    <3> QED BY <1>1, <1>2, <2>1, <3>1
  <2> QED BY <1>6, <2>2, <2>3 DEF L!Checked
<1>7. ASSUME NEW f, NEW counts \in BOOLEAN, L!Start(f, counts), counts => L!CountsAtOnce PROVE LimitsInv'
  <2>1. v3.until <= v2 /\ UNCHANGED <<v1, v2>>
    BY <1>1, <1>7 DEF L!Start, L!wait
  <2>2. CASE counts
    <3>1. L!CountsAtOnce'
      BY <1>7, <2>1, <2>2 DEF L!CountsAtOnce
    <3> QED BY <1>7, <2>1, <2>2, <3>1, AttemptRecorded DEF L!Start
  <2>3. CASE ~counts
    BY <1>1, <1>2, <1>7, <2>1, <2>3 DEF L!Start
  <2> QED BY <2>2, <2>3
<1>8. CASE L!handleLogin \/ L!handleStaffLogin
  BY <1>7, <1>8 DEF L!handleLogin, L!handleStaffLogin
<1>9. CASE L!handleRegister \/ L!requestReset \/ L!resendConfirmation
  <2>1. PICK f \in {"signup", "password-reset", "resend-confirmation"} : L!Start(f, TRUE)
    BY <1>9 DEF L!handleRegister, L!requestReset, L!resendConfirmation
  <2>2. L!CountsAtOnce
    BY <2>1 DEF L!Start, L!CountsAtOnce
  <2> QED BY <1>7, <2>1, <2>2
<1> USE DEF L!Asked
<1>10. CASE L!LoggedIn
  BY <1>1, <1>3, <1>10 DEF L!LoggedIn
<1>11. CASE L!LoginFails
  <2>1. UNCHANGED <<v1, v2>> /\ v4'.step = "idle" /\ "step" \in DOMAIN v4' /\ v3.until <= v2
    BY <1>4, <1>11 DEF L!LoginFails, L!CountsAtOnce
  <2> QED BY <1>1, <1>2, <1>11, <2>1, AttemptRecorded DEF L!LoginFails
<1>12. CASE L!StaffAccepted \/ L!StaffRefused
  <2>1. /\ v1 = "staff-signin" /\ v4.step = "asked" /\ UNCHANGED <<v1, v2, v3, v7>>
        /\ v4' = [v4 EXCEPT !.step = "asksRole"] \/ v4' = [v4 EXCEPT !.step = "leaves"]
    BY <1>12 DEF L!StaffAccepted, L!StaffRefused
  <2>2. "step" \in DOMAIN v4'
    BY <1>1, <2>1
  <2> QED BY <1>1, <1>2, <1>4, <2>1, <2>2
<1>13. CASE L!Registered \/ L!NotRegistered \/ L!ResetAnswered \/ L!ResendAnswered
  BY <1>1, <1>2, <1>4, <1>18, <1>13 DEF L!Registered, L!NotRegistered, L!ResetAnswered, L!ResendAnswered
<1>14. CASE L!RoleRead
  BY <1>1, <1>2, <1>3, <1>4, <1>14, <1>18 DEF L!RoleRead
<1>15. CASE L!staffSignOut
  <2>1. UNCHANGED <<v1, v2>> /\ v4'.step = "idle" /\ "step" \in DOMAIN v4' /\ L!record
    BY <1>15 DEF L!staffSignOut
  <2>2. v3.until <= v2
    BY <1>4, <1>15, <1>18 DEF L!staffSignOut
  <2> QED BY <2>1, <2>2, AttemptRecorded
<1>16. CASE L!Reload
  BY <1>1, <1>2, <1>16 DEF L!Reload
<1>17. CASE UNCHANGED L!signInVars
  BY <1>1, <1>2, <1>4, <1>18, <1>17 DEF L!signInVars
<1> QED BY <1>5, <1>6, <1>8, <1>9, <1>10, <1>11, <1>12, <1>13, <1>14, <1>15, <1>16, <1>17 DEF L!Next

-----------------------------------------------------------------------------
(* The welcome questions: v1 is server, v2 user, v3 page, v5 kept,         *)
(* v7 current, v8 known, v9 asking, v10 saving                             *)

WelcomeInv ==
    /\ W!ViewsAreViews /\ W!KeptAsSaved /\ W!AsksUnknown /\ W!SavesOnWelcome /\ W!FollowsOwnAnswers

LEMMA WelcomeInit == W!Init => WelcomeInv
<1> SUFFICES ASSUME W!Init PROVE WelcomeInv
  OBVIOUS
<1>1. /\ v1 \in [Tailoring.Customers -> [done : BOOLEAN, data : {W!NoAnswers}]]
      /\ v5 = [c \in Tailoring.Customers |-> W!NoView] /\ v3 = "out" /\ v8 = FALSE
      /\ v9 = W!Asking("no") /\ v10 = W!NotSaving
  BY DEF W!Init
<1>2. ~W!NoView.done /\ W!IsView(W!NoView)
  BY DEF W!NoView, W!NoAnswers, W!IsView
<1>3. ASSUME NEW c \in Tailoring.Customers PROVE W!IsView(v1[c])
  <2>1. PICK done \in BOOLEAN : v1[c] = [done |-> done, data |-> W!NoAnswers]
    BY <1>1
  <2> QED BY <2>1 DEF W!IsView, W!NoAnswers
<1>4. /\ v9.state = "no" /\ v9 = [state |-> v9.state, view |-> v9.view]
      /\ v10.state = "no" /\ v10.finish = FALSE
      /\ v10 = [state |-> v10.state, data |-> v10.data, finish |-> v10.finish, view |-> v10.view]
  BY <1>1 DEF W!Asking, W!NotSaving
<1>5. v1 = [c \in Tailoring.Customers |-> v1[c]] /\ v5 = [c \in Tailoring.Customers |-> v5[c]]
  BY <1>1
<1>6. \A c \in Tailoring.Customers : W!IsView(v5[c]) /\ ~v5[c].done
  BY <1>1, <1>2
<1>7. W!ViewsAreViews
  BY <1>1, <1>3, <1>4, <1>5, <1>6 DEF W!ViewsAreViews
<1> QED BY <1>1, <1>4, <1>6, <1>7 DEF WelcomeInv, W!KeptAsSaved, W!AsksUnknown, W!SavesOnWelcome, W!FollowsOwnAnswers

\* A page that loads has the answers of its customer if the tab kept them, and asks for
\* them if not.
LEMMA PageLoads ==
    ASSUME WelcomeInv, NEW where \in {"app", "welcome"}, NEW remembered, W!Load(where, v5'[v2'], remembered),
           UNCHANGED v1, v2' \in Tailoring.Customers,
           v5' = [c \in Tailoring.Customers |-> v5'[c]],
           \A c \in Tailoring.Customers : W!IsView(v5'[c]) /\ (v5'[c].done => v5'[c] = v1[c]),
           where = "welcome" => ~v5'[v2'].done
    PROVE  WelcomeInv'
<1> DEFINE view == v5'[v2']
<1>1. /\ v3' = where /\ v10' = W!NotSaving /\ v8' = view.done
      /\ v9' = W!Asking(IF view.done THEN "no" ELSE "asked")
      /\ view.done => v7' = view.data
  BY DEF W!Load
<1>2. W!IsView(view) /\ (view.done => view = v1[v2'])
  OBVIOUS
<1>3. W!ViewsAreViews'
  BY <1>1, <1>2 DEF WelcomeInv, W!ViewsAreViews, W!IsView, W!Asking, W!NotSaving
<1>4. W!KeptAsSaved'
  BY DEF W!KeptAsSaved
<1>5. W!AsksUnknown' /\ W!SavesOnWelcome' /\ W!FollowsOwnAnswers'
  BY <1>1, <1>2 DEF W!AsksUnknown, W!SavesOnWelcome, W!FollowsOwnAnswers, W!Asking, W!NotSaving, W!IsView
<1> QED BY <1>3, <1>4, <1>5 DEF WelcomeInv

\* The server has what is saved.
LEMMA StepSaved == ASSUME WelcomeInv, W!ServerSaves PROVE WelcomeInv'
<1> DEFINE old == v1[v2]
           new == [done |-> old.done \/ v10.finish,
                   data |-> [q \in W!Questions |-> IF q \in DOMAIN v10.data THEN v10.data[q] ELSE old.data[q]]]
<1>1. /\ v10.state = "asked" /\ v1' = [v1 EXCEPT ![v2] = new]
      /\ v10' = [v10 EXCEPT !.state = "saved", !.view = new]
      /\ UNCHANGED <<v2, v3, v5, v7, v8, v9>>
  BY DEF W!ServerSaves, W!here, W!settings
<1>2. v3 = "welcome" /\ v2 \in Tailoring.Customers /\ ~v5[v2].done
  BY <1>1 DEF WelcomeInv, W!SavesOnWelcome, W!ViewsAreViews
<1>3. W!IsView(old) /\ old.data = [q \in W!Questions |-> old.data[q]]
  <2>1. W!IsView(old)
    BY <1>2 DEF WelcomeInv, W!ViewsAreViews
  <2> HIDE DEF old
  <2> QED BY <2>1 DEF W!IsView
<1>4. v10.finish \in BOOLEAN
  BY DEF WelcomeInv, W!ViewsAreViews
<1>5. /\ new.done = (old.done \/ v10.finish)
      /\ new.data = [q \in W!Questions |-> IF q \in DOMAIN v10.data THEN v10.data[q] ELSE old.data[q]]
      /\ W!IsView(new) /\ (old.done => new.done) /\ (v10.finish => new.done)
      /\ v10.data = <<>> => new.data = old.data
  BY <1>3, <1>4 DEF W!IsView
<1>6. v10' = [state |-> "saved", data |-> v10.data, finish |-> v10.finish, view |-> new]
  <2>1. PICK state, data, finish, view : v10 = [state |-> state, data |-> data, finish |-> finish, view |-> view]
    BY DEF WelcomeInv, W!ViewsAreViews
  <2> HIDE DEF new
  <2>2. v10' = [state |-> "saved", data |-> data, finish |-> finish, view |-> new]
    BY <1>1, <2>1
  <2> QED BY <2>1, <2>2
<1> HIDE DEF new, old
<1>7. /\ v1' = [c \in Tailoring.Customers |-> v1'[c]] /\ v1'[v2] = new
      /\ \A c \in Tailoring.Customers : c # v2 => v1'[c] = v1[c]
  BY <1>1, <1>2 DEF WelcomeInv, W!ViewsAreViews
<1>8. W!ViewsAreViews'
  BY <1>1, <1>5, <1>6, <1>7 DEF WelcomeInv, W!ViewsAreViews
<1>9. W!KeptAsSaved'
  BY <1>1, <1>2, <1>7 DEF WelcomeInv, W!KeptAsSaved
<1>10. W!AsksUnknown'
  BY <1>1, <1>5, <1>6, <1>7 DEF WelcomeInv, W!AsksUnknown, old
<1>11. W!SavesOnWelcome' /\ W!FollowsOwnAnswers'
  BY <1>1, <1>2, <1>5, <1>6, <1>7 DEF WelcomeInv, W!SavesOnWelcome, W!FollowsOwnAnswers
<1> QED BY <1>8, <1>9, <1>10, <1>11 DEF WelcomeInv

LEMMA WelcomeNext == WelcomeInv /\ [W!Next]_W!welcomeVars => WelcomeInv'
<1> SUFFICES ASSUME WelcomeInv, [W!Next]_W!welcomeVars PROVE WelcomeInv'
  OBVIOUS
<1> USE DEF W!here, W!settings, W!limits
<1>1. /\ v5 = [c \in Tailoring.Customers |-> v5[c]]
      /\ \A c \in Tailoring.Customers : W!IsView(v5[c]) /\ (v5[c].done => v5[c] = v1[c])
      /\ v3 # "out" => v2 \in Tailoring.Customers
  BY DEF WelcomeInv, W!ViewsAreViews, W!KeptAsSaved
\* What the tab keeps after an answer.
<1>2. ASSUME NEW view, W!IsView(view), W!cacheOnboarding(view), v2 \in Tailoring.Customers, view.done => view = v1[v2]
      PROVE  /\ v5' = [c \in Tailoring.Customers |-> v5'[c]]
             /\ \A c \in Tailoring.Customers : W!IsView(v5'[c]) /\ (v5'[c].done => v5'[c] = v1[c])
             /\ view.done => v5'[v2] = view
             /\ ~view.done => v5' = v5
  BY <1>1, <1>2 DEF W!cacheOnboarding
<1>3. CASE W!SignIn
  <2>1. PICK c \in Tailoring.Customers : v2' = c /\ W!Load("app", v5[c], v6) /\ UNCHANGED <<v1, v5>>
    BY <1>3 DEF W!SignIn
  <2> QED BY <1>1, <2>1, PageLoads
<1>4. CASE W!ServerAnswers
  <2>1. /\ v9' = [state |-> "read", view |-> v1[v2]] /\ v9.state = "asked"
        /\ UNCHANGED <<v1, v2, v3, v5, v7, v8, v10>>
    BY <1>4 DEF W!ServerAnswers
  <2>2. v2 \in Tailoring.Customers
    BY <2>1, <1>1 DEF WelcomeInv, W!AsksUnknown
  <2> QED BY <2>1, <2>2 DEF WelcomeInv, W!ViewsAreViews, W!KeptAsSaved, W!AsksUnknown, W!SavesOnWelcome,
             W!FollowsOwnAnswers
<1>5. CASE W!AnswerRead
  <2> DEFINE view == v9.view
  <2>1. v9.state = "read" /\ W!cacheOnboarding(view) /\ UNCHANGED <<v1, v2>>
    BY <1>5 DEF W!AnswerRead
  <2>2. /\ v2 \in Tailoring.Customers /\ W!IsView(view) /\ view.data = v1[v2].data /\ (view.done => v1[v2].done)
        /\ v3 \in {"app", "welcome"} /\ ~v5[v2].done
    BY <2>1, <1>1 DEF WelcomeInv, W!AsksUnknown, W!ViewsAreViews
  <2>3. view.done => view = v1[v2]
    <3>1. W!IsView(v1[v2])
      BY <2>2 DEF WelcomeInv, W!ViewsAreViews
    <3> QED BY <2>2, <3>1 DEF W!IsView
  <2>4. /\ v5' = [c \in Tailoring.Customers |-> v5'[c]]
        /\ \A c \in Tailoring.Customers : W!IsView(v5'[c]) /\ (v5'[c].done => v5'[c] = v1[c])
        /\ view.done => v5'[v2] = view
        /\ ~view.done => v5' = v5
    BY <1>2, <2>1, <2>2, <2>3
  <2>5. CASE (v3 = "app") # view.done
    <3>1. W!Load(IF view.done THEN "app" ELSE "welcome", v5'[v2], W!update(view.data))
      BY <1>5, <2>5 DEF W!AnswerRead
    <3> QED BY <2>1, <2>2, <2>4, <3>1, PageLoads
  <2>6. CASE ~((v3 = "app") # view.done)
    <3>1. /\ v7' = view.data /\ v8' = TRUE /\ v9' = W!Asking("no") /\ UNCHANGED <<v3, v10>>
          /\ v3 = "app" <=> view.done
      BY <1>5, <2>2, <2>6 DEF W!AnswerRead, W!update, W!IsView
    <3>2. v9' = [state |-> "no", view |-> W!NoView]
      BY <3>1 DEF W!Asking
    <3>3. W!ViewsAreViews'
      BY <2>1, <2>4, <3>1, <3>2 DEF WelcomeInv, W!ViewsAreViews
    <3>4. W!KeptAsSaved' /\ W!AsksUnknown'
      BY <2>1, <2>4, <3>2 DEF W!KeptAsSaved, W!AsksUnknown
    <3>5. W!SavesOnWelcome' /\ W!FollowsOwnAnswers'
      BY <2>1, <2>2, <2>3, <2>4, <3>1 DEF WelcomeInv, W!SavesOnWelcome, W!FollowsOwnAnswers
    <3> QED BY <3>3, <3>4, <3>5 DEF WelcomeInv
  <2> QED BY <2>5, <2>6
<1>6. CASE W!AskFails
  <2>1. v9.state # "no" /\ v9' = [state |-> "no", view |-> W!NoView] /\ UNCHANGED <<v1, v2, v3, v5, v8, v10>>
    BY <1>6 DEF W!AskFails, W!Asking
  <2> QED BY <2>1 DEF WelcomeInv, W!ViewsAreViews, W!KeptAsSaved, W!AsksUnknown, W!SavesOnWelcome, W!FollowsOwnAnswers
<1>7. ASSUME NEW data, NEW finish \in BOOLEAN, W!Save(data, finish), v9.state = "no" \/ data = <<>> PROVE WelcomeInv'
  <2>1. /\ v3 = "welcome" /\ v10' = [W!NotSaving EXCEPT !.state = "asked", !.data = data, !.finish = finish]
        /\ UNCHANGED <<v1, v2, v3, v5, v7, v8, v9>>
    BY <1>7 DEF W!Save
  <2>2. v10' = [state |-> "asked", data |-> data, finish |-> finish, view |-> W!NoView]
    BY <2>1 DEF W!NotSaving
  <2> QED BY <1>7, <2>1, <2>2 DEF WelcomeInv, W!ViewsAreViews, W!KeptAsSaved, W!AsksUnknown, W!SavesOnWelcome,
             W!FollowsOwnAnswers
<1>8. CASE W!submit
  <2>1. PICK choice : W!Save([q \in {v4} |-> choice], v4 = 3) /\ v9.state = "no"
    BY <1>8 DEF W!submit
  <2> QED BY <1>7, <2>1
<1>9. CASE W!skipAll
  BY <1>7, <1>9 DEF W!skipAll
<1>10. CASE W!Saved
  <2>1. v10.state = "saved" /\ UNCHANGED <<v1, v2>> /\ v3 = "welcome" /\ v2 \in Tailoring.Customers /\ v10.view = v1[v2]
        /\ W!IsView(v10.view)
    BY <1>1, <1>10 DEF W!Saved, WelcomeInv, W!SavesOnWelcome, W!ViewsAreViews
  <2>2. CASE v10.finish
    <3>1. W!cacheOnboarding(v10.view) /\ W!Load("app", v5'[v2], v10.view.data)
      BY <1>10, <2>2 DEF W!Saved
    <3> QED BY <1>2, <2>1, <3>1, PageLoads
  <2>3. CASE ~v10.finish
    <3>1. v10' = W!NotSaving /\ UNCHANGED <<v3, v5, v7, v8, v9>>
      BY <1>10, <2>3 DEF W!Saved
    <3>2. v10'.state = "no" /\ v10'.finish = FALSE /\ v10' = [state |-> v10'.state, data |-> v10'.data, finish |-> v10'.finish, view |-> v10'.view]
      BY <3>1 DEF W!NotSaving
    <3> QED BY <2>1, <3>1, <3>2 DEF WelcomeInv, W!ViewsAreViews, W!KeptAsSaved, W!AsksUnknown, W!SavesOnWelcome,
               W!FollowsOwnAnswers
  <2> QED BY <2>2, <2>3
<1>11. CASE W!NotSaved
  <2>1. v10' = W!NotSaving /\ UNCHANGED <<v1, v2, v3, v5, v7, v8, v9>>
    BY <1>11 DEF W!NotSaved
  <2>2. v10'.state = "no" /\ v10'.finish = FALSE /\ v10' = [state |-> v10'.state, data |-> v10'.data, finish |-> v10'.finish, view |-> v10'.view]
    BY <2>1 DEF W!NotSaving
  <2> QED BY <2>1, <2>2 DEF WelcomeInv, W!ViewsAreViews, W!KeptAsSaved, W!AsksUnknown, W!SavesOnWelcome,
             W!FollowsOwnAnswers
<1>12. ASSUME UNCHANGED <<v1, v2, v3, v5, v7, v8, v9, v10>> PROVE WelcomeInv'
  BY <1>12 DEF WelcomeInv, W!ViewsAreViews, W!KeptAsSaved, W!AsksUnknown, W!SavesOnWelcome, W!FollowsOwnAnswers
<1>13. CASE W!show
  BY <1>12, <1>13 DEF W!show
<1>14. CASE W!logout
  <2>1. v5' = [c \in Tailoring.Customers |-> W!NoView] /\ UNCHANGED <<v1, v2, v3, v7, v8, v9, v10>>
    BY <1>14 DEF W!logout
  <2>2. W!IsView(W!NoView) /\ ~W!NoView.done
    BY DEF W!IsView, W!NoView, W!NoAnswers
  <2> QED BY <2>1, <2>2 DEF WelcomeInv, W!ViewsAreViews, W!KeptAsSaved, W!AsksUnknown, W!SavesOnWelcome,
             W!FollowsOwnAnswers
<1>15. CASE W!Left
  <2>1. /\ v3' = "out" /\ v8' = FALSE /\ v9' = W!Asking("no") /\ v10' = W!NotSaving /\ UNCHANGED <<v1, v5>>
    BY <1>15 DEF W!Left
  <2>2. /\ v10'.state = "no" /\ v10'.finish = FALSE /\ v10' = [state |-> v10'.state, data |-> v10'.data, finish |-> v10'.finish, view |-> v10'.view]
        /\ v9'.state = "no" /\ v9' = [state |-> v9'.state, view |-> v9'.view]
    BY <2>1 DEF W!NotSaving, W!Asking
  <2> QED BY <2>1, <2>2 DEF WelcomeInv, W!ViewsAreViews, W!KeptAsSaved, W!AsksUnknown, W!SavesOnWelcome,
             W!FollowsOwnAnswers
<1>16. CASE W!Reload
  <2>1. v3 # "out" /\ W!Load(v3, v5[v2], v6) /\ UNCHANGED <<v1, v2, v5>>
    BY <1>16 DEF W!Reload
  <2>2. v3 \in {"app", "welcome"}
    BY <2>1 DEF WelcomeInv, W!ViewsAreViews
  <2>3. v3 = "welcome" => ~v5[v2].done
    BY DEF WelcomeInv, W!SavesOnWelcome
  <2> QED BY <1>1, <2>1, <2>2, <2>3, PageLoads
<1>17. CASE UNCHANGED W!welcomeVars
  BY <1>12, <1>17 DEF W!welcomeVars
<1> QED BY <1>3, <1>4, <1>5, <1>6, <1>8, <1>9, <1>10, <1>11, <1>13, <1>14, <1>15, <1>16, <1>17, StepSaved DEF W!Next

-----------------------------------------------------------------------------
(* The account switch: v1 is startup, v2 remembered, v3 account,           *)
(* v4 figures, v5 calls, v6 balance, v7 view, v8 best                      *)

ShellInv == A!ShellTyped /\ A!CallsAreCalls /\ A!OneIsWanted /\ A!BalanceIsCurrent

LEMMA ShellAssumed == Shell.Practice # Shell.Real /\ A!Nobody \notin A!Accounts
  BY SessionAssumptions DEF SessionAssumptions, A!ShellAccounts, A!Accounts

LEMMA ShellInit == A!Init => ShellInv
  BY ShellAssumed DEF A!Init, ShellInv, A!ShellTyped, A!CallsAreCalls, A!OneIsWanted, A!BalanceIsCurrent, A!Blank, A!Calls

\* What the server has and what the switch has shown.
LEMMA ShellFigures ==
    ASSUME ShellInv
    PROVE  /\ v4 = [a \in A!Accounts |-> v4[a]] /\ v8 = [a \in A!Accounts |-> v8[a]]
           /\ \A a \in A!Accounts : /\ v4[a] \in Nat /\ v8[a] \in Nat /\ v8[a] <= v4[a]
                                    /\ A!isPreview(a) => v4[a] = 0 /\ v8[a] = 0
<1>1. v4 = [a \in A!Accounts |-> v4[a]] /\ v8 = [a \in A!Accounts |-> v8[a]]
  BY Zenon DEF ShellInv, A!ShellTyped
<1>2. ASSUME NEW a \in A!Accounts PROVE v4[a] \in Nat /\ v8[a] \in 0 .. v4[a] /\ (A!isPreview(a) => v4[a] = 0)
  BY Zenon DEF ShellInv, A!ShellTyped
<1>3. ASSUME NEW a \in A!Accounts PROVE v8[a] \in Nat /\ v8[a] <= v4[a] /\ (A!isPreview(a) => v8[a] = 0)
  BY <1>2
<1> QED BY <1>1, <1>2, <1>3

\* An account changes once more.
LEMMA FigureGrows ==
    ASSUME ShellInv, NEW b \in A!Accounts, v4' = [v4 EXCEPT ![b] = @ + 1]
    PROVE  /\ v4' = [a \in A!Accounts |-> v4'[a]]
           /\ \A a \in A!Accounts : v4'[a] \in Nat /\ v4'[a] >= v4[a] /\ (a # b => v4'[a] = v4[a])
<1>1. DOMAIN v4 = A!Accounts /\ v4 = [a \in DOMAIN v4 |-> v4[a]]
  BY ShellFigures
<1>2. v4' = [a \in A!Accounts |-> v4'[a]]
  BY <1>1
<1>3. ASSUME NEW a \in A!Accounts PROVE v4'[a] = IF a = b THEN v4[a] + 1 ELSE v4[a]
  BY <1>1
<1>4. ASSUME NEW a \in A!Accounts PROVE v4'[a] \in Nat /\ v4'[a] >= v4[a] /\ (a # b => v4'[a] = v4[a])
  BY <1>3, ShellFigures
<1> QED BY <1>2, <1>4

LEMMA ShellIsTyped ==
    ASSUME v2' \in A!Accounts, v1' = "open" => v3' \in A!Accounts, v1' # "open" => v3' = A!Nobody,
           v4' = [a \in A!Accounts |-> v4'[a]], v8' = [a \in A!Accounts |-> v8'[a]],
           \A a \in A!Accounts : /\ v4'[a] \in Nat /\ v8'[a] \in Nat /\ v8'[a] <= v4'[a]
                                 /\ A!isPreview(a) => v4'[a] = 0,
           v6'.figure \in Nat
    PROVE  A!ShellTyped'
<1>1. \A a \in A!Accounts : v8'[a] \in 0 .. v4'[a]
  OBVIOUS
<1>2. A!isPreview(Shell.Real)' = A!isPreview(Shell.Real)
  BY DEF A!isPreview
<1> QED BY <1>1, Zenon DEF A!ShellTyped, A!isPreview

\* Figures read again: the calls under way are wanted no more, a new one is.
LEMMA CallsRefreshed ==
    ASSUME A!CallsAreCalls, NEW set \in SUBSET v5, NEW a \in A!Accounts, v3' = a,
           v5' = A!renderAccount(a, A!refreshBalance(a, set))
    PROVE  A!CallsAreCalls' /\ A!OneIsWanted'
<1> DEFINE old(c) == IF c.part = "switch" THEN [c EXCEPT !.latest = FALSE] ELSE c
<1>1. ASSUME NEW c \in v5
      PROVE  /\ old(c) = [part |-> c.part, account |-> c.account, latest |-> old(c).latest, answer |-> c.answer]
             /\ c.account \in A!Accounts /\ (c.part = "switch" => ~old(c).latest)
  <2>1. c = [part |-> c.part, account |-> c.account, latest |-> c.latest, answer |-> c.answer] /\ c.account \in A!Accounts
    BY <1>1 DEF A!CallsAreCalls
  <2> QED BY <2>1
<1>2. v5' \subseteq {old(c) : c \in set} \cup {A!Call("switch", a), A!Call("dashboard", a)}
  BY DEF A!renderAccount, A!refreshBalance, A!Outdated
<1>3. \A part \in {"switch", "dashboard"} :
          A!Call(part, a) = [part |-> part, account |-> a, latest |-> TRUE, answer |-> A!Unread] /\ ~A!Unread.done
  BY DEF A!Call, A!Unread
<1>4. ASSUME NEW d \in v5'
      PROVE  /\ d = [part |-> d.part, account |-> d.account, latest |-> d.latest, answer |-> d.answer]
             /\ d.account \in A!Accounts
             /\ d.part = "switch" /\ d.latest => d = A!Call("switch", a) /\ d.account = a /\ ~d.answer.done
  <2>1. CASE d \in {A!Call("switch", a), A!Call("dashboard", a)}
    BY <1>3, <2>1
  <2>2. CASE \E c \in set : d = old(c)
    <3>1. PICK c \in v5 : d = old(c)
      BY <2>2
    <3> HIDE DEF old
    <3> QED BY <1>1, <3>1
  <2> QED BY <1>2, <1>4, <2>1, <2>2
<1>5. A!CallsAreCalls'
  BY <1>4 DEF A!CallsAreCalls
<1>6. A!OneIsWanted'
  BY <1>4 DEF A!OneIsWanted, A!Calls, A!Wanted
<1> QED BY <1>5, <1>6

\* What the page shows when figures are read again: of the active account, or none yet.
LEMMA Refreshed ==
    ASSUME ShellInv, NEW set \in SUBSET v5, NEW a \in A!Accounts, v3' = a, NEW shown,
           v5' = A!renderAccount(a, A!refreshBalance(a, set)),
           v6' = (IF A!isPreview(a) THEN A!Figure(a, 0) ELSE shown),
           v7' = (IF A!isPreview(a) THEN A!Figure(a, 0) ELSE A!Blank),
           shown = A!Blank \/ (shown = v6 /\ v3 \in {a, A!Nobody}),
           v2' \in A!Accounts, v8' = v8, A!ShellTyped /\ v6'.figure \in Nat => A!ShellTyped'
    PROVE  ShellInv'
<1>1. A!CallsAreCalls' /\ A!OneIsWanted'
  BY CallsRefreshed DEF ShellInv
<1>2. A!Blank.account = A!Nobody /\ A!Blank.figure = 0 /\ A!Figure(a, 0).account = a /\ A!Figure(a, 0).figure = 0
  BY DEF A!Blank, A!Figure
<1>3. v6'.figure \in Nat /\ v8[a] \in Nat /\ (A!isPreview(a) => v8[a] = 0)
  <2>1. v6.figure \in Nat
    BY Zenon DEF ShellInv, A!ShellTyped
  <2> QED BY <1>2, <2>1, ShellFigures
<1>4. A!ShellTyped'
  BY <1>3 DEF ShellInv
<1>5. A!BalanceIsCurrent'
  BY <1>2, <1>3, ShellAssumed DEF ShellInv, A!BalanceIsCurrent
<1> QED BY <1>1, <1>4, <1>5 DEF ShellInv

LEMMA ShellNext == ShellInv /\ [A!Next]_A!shellVars => ShellInv'
<1> SUFFICES ASSUME ShellInv, [A!Next]_A!shellVars PROVE ShellInv'
  OBVIOUS
<1>1. ASSUME UNCHANGED <<v2, v3, v4, v5, v6, v7, v8>>, v1' = "open" <=> v1 = "open" PROVE ShellInv'
  BY <1>1 DEF ShellInv, A!ShellTyped, A!CallsAreCalls, A!OneIsWanted, A!BalanceIsCurrent, A!Calls
<1>2. CASE A!LoadStep
  BY <1>1, <1>2 DEF A!LoadStep, A!NextStep
<1>3. CASE A!StartFails
  <2>1. /\ v1' = "unavailable" /\ v6' = A!Unavailable /\ v7' = A!Unavailable /\ UNCHANGED <<v2, v3, v4, v5, v8>>
        /\ A!Unavailable.account = A!Nobody /\ A!Unavailable.figure = 1
    BY <1>3 DEF A!StartFails, A!Unavailable
  <2>2. v1 # "open"
    BY <1>3 DEF A!StartFails
  <2>3. v2' \in A!Accounts /\ v3' = A!Nobody
    BY <2>1, <2>2, Zenon DEF ShellInv, A!ShellTyped
  <2>4. v6'.figure \in Nat
    BY <2>1
  <2>5. A!ShellTyped'
    BY <2>1, <2>3, <2>4, ShellFigures, ShellIsTyped
  <2> QED BY <2>1, <2>5, ShellAssumed DEF ShellInv, A!CallsAreCalls, A!OneIsWanted, A!BalanceIsCurrent, A!Calls
<1>4. CASE A!choose
  <2>1. /\ v1' = "open" /\ v3' = v2 /\ UNCHANGED <<v2, v4, v8>> /\ v1 = "accounts"
        /\ v5' = A!renderAccount(v2, A!refreshBalance(v2, v5))
        /\ v6' = (IF A!isPreview(v2) THEN A!Figure(v2, 0) ELSE v6)
        /\ v7' = (IF A!isPreview(v2) THEN A!Figure(v2, 0) ELSE A!Blank)
    BY <1>4 DEF A!choose, A!Refresh
  <2>2. v2 \in A!Accounts /\ v3 = A!Nobody
    BY <2>1 DEF ShellInv, A!ShellTyped
  <2>3. A!ShellTyped /\ v6'.figure \in Nat => A!ShellTyped'
    BY <2>1 DEF A!ShellTyped, A!isPreview
  <2> QED BY <2>1, <2>2, <2>3, Refreshed
<1>5. CASE A!select
  <2>1. PICK a \in A!Accounts :
          /\ v1 = "open" /\ UNCHANGED <<v1, v4, v8>> /\ v2' = a /\ v3' = a
          /\ v5' = A!renderAccount(a, A!refreshBalance(a, v5))
          /\ v6' = (IF A!isPreview(a) THEN A!Figure(a, 0) ELSE A!Blank)
          /\ v7' = (IF A!isPreview(a) THEN A!Figure(a, 0) ELSE A!Blank)
    BY <1>5 DEF A!select, A!Refresh
  <2>2. A!ShellTyped /\ v6'.figure \in Nat => A!ShellTyped'
    BY <2>1 DEF A!ShellTyped, A!isPreview
  <2> QED BY <2>1, <2>2, Refreshed
<1>6. CASE A!BalanceChanged
  <2>1. PICK b \in A!Accounts, told \in BOOLEAN :
          /\ v1 = "open" /\ ~A!isPreview(b) /\ v4' = [v4 EXCEPT ![b] = @ + 1] /\ UNCHANGED <<v1, v2, v3, v8>>
          /\ IF told THEN A!Refresh(v3, v6) ELSE UNCHANGED <<v5, v6, v7>>
    BY <1>6 DEF A!BalanceChanged, A!Changes
  <2>2. v3 \in A!Accounts /\ v2 \in A!Accounts
    BY <2>1 DEF ShellInv, A!ShellTyped
  <2>3. /\ v4' = [a \in A!Accounts |-> v4'[a]]
        /\ \A a \in A!Accounts : v4'[a] \in Nat /\ v4'[a] >= v4[a] /\ (a # b => v4'[a] = v4[a])
    BY <2>1, FigureGrows
  <2>4. A!ShellTyped /\ v6'.figure \in Nat => A!ShellTyped'
    BY <2>1, <2>3 DEF A!ShellTyped, A!isPreview
  <2>5. CASE told
    <3>1. /\ v5' = A!renderAccount(v3, A!refreshBalance(v3, v5))
          /\ v6' = (IF A!isPreview(v3) THEN A!Figure(v3, 0) ELSE v6)
          /\ v7' = (IF A!isPreview(v3) THEN A!Figure(v3, 0) ELSE A!Blank)
      BY <2>1, <2>5 DEF A!Refresh
    <3> QED BY <2>1, <2>2, <2>4, <3>1, Refreshed
  <2>6. CASE ~told
    <3>1. UNCHANGED <<v3, v5, v6, v7, v8>>
      BY <2>1, <2>6
    <3>2. A!ShellTyped'
      BY <2>4, <3>1 DEF ShellInv, A!ShellTyped
    <3>3. v8[v3] \in Nat /\ v4[v3] \in Nat /\ v4'[v3] \in Nat /\ v4'[v3] >= v4[v3]
      BY <2>2, <2>3, ShellFigures
    <3>4. A!OneIsWanted'
      BY <3>1, <3>3 DEF ShellInv, A!OneIsWanted, A!Calls, A!Wanted
    <3> QED BY <3>1, <3>2, <3>4 DEF ShellInv, A!CallsAreCalls, A!BalanceIsCurrent
  <2> QED BY <2>5, <2>6
<1>7. CASE A!AskReset
  <2>1. v1 = "open" /\ v5' = v5 \cup {A!Call("reset", Shell.Practice)} /\ UNCHANGED <<v1, v2, v3, v4, v6, v7, v8>>
    BY <1>7 DEF A!AskReset
  <2>2. v3 \in A!Accounts /\ Shell.Practice \in A!Accounts
    BY <2>1 DEF ShellInv, A!ShellTyped, A!Accounts
  <2>3. A!ShellTyped' /\ A!BalanceIsCurrent'
    BY <2>1 DEF ShellInv, A!ShellTyped, A!BalanceIsCurrent, A!isPreview
  <2>4. A!CallsAreCalls'
    BY <2>1, <2>2 DEF ShellInv, A!CallsAreCalls, A!Call
  <2>5. A!Calls("switch")' = A!Calls("switch")
    BY <2>1 DEF A!Calls, A!Call
  <2>6. A!OneIsWanted'
    BY <2>1, <2>5 DEF ShellInv, A!OneIsWanted, A!Wanted
  <2> QED BY <2>3, <2>4, <2>6 DEF ShellInv
\* A call goes on to (d), while figures may grow.
<1>8. ASSUME NEW c \in v5, NEW answer, v5' = (v5 \ {c}) \cup {[c EXCEPT !.answer = answer]},
             c.part = "switch" => answer.done /\ answer.figure = v4[c.account],
             UNCHANGED <<v1, v2, v3, v6, v7, v8>>,
             v4' = [a \in A!Accounts |-> v4'[a]],
             \A a \in A!Accounts : /\ v4'[a] \in Nat /\ v4'[a] >= v4[a] /\ (A!isPreview(a) => v4'[a] = 0)
      PROVE  ShellInv'
  <2> DEFINE d == [c EXCEPT !.answer = answer]
  <2>1. /\ c = [part |-> c.part, account |-> c.account, latest |-> c.latest, answer |-> c.answer]
        /\ c.account \in A!Accounts /\ v3 \in A!Accounts
    BY DEF ShellInv, A!CallsAreCalls
  <2>2. d = [part |-> c.part, account |-> c.account, latest |-> c.latest, answer |-> answer]
    BY <2>1
  <2>3. v5' = (v5 \ {c}) \cup {d}
    BY <1>8
  <2> HIDE DEF d
  <2>4. A!CallsAreCalls'
    BY <1>8, <2>1, <2>2, <2>3 DEF ShellInv, A!CallsAreCalls
  <2>5. /\ v8[v3] \in Nat /\ v4[v3] \in Nat /\ v4'[v3] \in Nat /\ v4'[v3] >= v4[v3] /\ v8[v3] <= v4[v3]
    BY <1>8, <2>1, ShellFigures
  <2>6. ASSUME NEW e \in v5', e.part = "switch", e.latest
        PROVE  /\ e.account = v3 /\ (e.answer.done => e.answer.figure \in v8[v3] .. v4'[v3])
               /\ (e = d /\ c.part = "switch" /\ c.latest) \/ (e # d /\ e \in v5 /\ e # c)
    <3>1. CASE e = d
      <4>1. c.part = "switch" /\ c.latest /\ e.account = c.account /\ e.answer = answer
        BY <2>2, <2>6, <3>1
      <4>2. c.account = v3
        BY <4>1 DEF ShellInv, A!OneIsWanted, A!Calls, A!Wanted
      <4>3. answer.figure = v4[v3]
        BY <1>8, <4>1, <4>2
      <4> QED BY <2>5, <3>1, <4>1, <4>2, <4>3
    <3>2. CASE e # d
      <4>1. e \in v5 /\ e # c
        BY <2>3, <2>6, <3>2
      <4>2. e.account = v3 /\ (e.answer.done => e.answer.figure \in v8[v3] .. v4[v3])
        BY <2>6, <4>1 DEF ShellInv, A!OneIsWanted, A!Calls, A!Wanted
      <4> QED BY <2>5, <3>2, <4>1, <4>2
    <3> QED BY <3>1, <3>2
  <2>7. \A e, f \in v5' : e.part = "switch" /\ f.part = "switch" /\ e.latest /\ f.latest => e = f
    BY <2>6 DEF ShellInv, A!OneIsWanted, A!Calls, A!Wanted
  <2>8. A!OneIsWanted'
    BY <1>8, <2>6, <2>7 DEF A!OneIsWanted, A!Calls, A!Wanted
  <2>9. A!ShellTyped' /\ A!BalanceIsCurrent'
    BY <1>8 DEF ShellInv, A!ShellTyped, A!BalanceIsCurrent, A!isPreview
  <2> QED BY <2>4, <2>8, <2>9 DEF ShellInv
<1>9. CASE A!ServerResets
  <2>1. PICK c \in v5 :
          /\ c.part = "reset" /\ ~A!isPreview(Shell.Practice) /\ v4' = [v4 EXCEPT ![Shell.Practice] = @ + 1]
          /\ v5' = (v5 \ {c}) \cup {[c EXCEPT !.answer.done = TRUE]} /\ UNCHANGED <<v1, v2, v3, v6, v7, v8>>
    BY <1>9 DEF A!ServerResets, A!Changes, A!Calls
  <2>2. /\ v4' = [a \in A!Accounts |-> v4'[a]]
        /\ \A a \in A!Accounts : v4'[a] \in Nat /\ v4'[a] >= v4[a] /\ (A!isPreview(a) => v4'[a] = 0)
    <3>1. Shell.Practice \in A!Accounts /\ ~A!isPreview(Shell.Practice)
      BY <2>1 DEF A!Accounts
    <3> QED BY <2>1, <3>1, FigureGrows, ShellFigures, Zenon
  <2>3. c.part # "switch" /\ [c EXCEPT !.answer.done = TRUE] = [c EXCEPT !.answer = [c.answer EXCEPT !.done = TRUE]]
    BY <2>1
  <2>4. v5' = (v5 \ {c}) \cup {[c EXCEPT !.answer = [c.answer EXCEPT !.done = TRUE]]}
    BY <2>1, <2>3
  <2> QED BY <1>8, <2>1, <2>2, <2>3, <2>4
<1>10. CASE A!ResetAnswered
  <2>1. PICK c \in v5 :
          /\ v5' = A!renderAccount(v3, A!refreshBalance(v3, v5 \ {c}))
          /\ v6' = (IF A!isPreview(v3) THEN A!Figure(v3, 0) ELSE v6)
          /\ v7' = (IF A!isPreview(v3) THEN A!Figure(v3, 0) ELSE A!Blank)
          /\ UNCHANGED <<v1, v2, v3, v4, v8>>
    BY <1>10 DEF A!ResetAnswered, A!Calls
  <2>2. v3 \in A!Accounts /\ v2 \in A!Accounts
    BY <2>1 DEF ShellInv, A!ShellTyped, A!CallsAreCalls
  <2>3. A!ShellTyped /\ v6'.figure \in Nat => A!ShellTyped'
    BY <2>1 DEF A!ShellTyped, A!isPreview
  <2>4. v5 \ {c} \in SUBSET v5
    OBVIOUS
  <2> QED BY <2>1, <2>2, <2>3, <2>4, Refreshed
<1>11. CASE A!ReadFigures
  <2>1. PICK c \in v5 :
          /\ v5' = (v5 \ {c}) \cup {[c EXCEPT !.answer = [done |-> TRUE, figure |-> v4[c.account]]]}
          /\ UNCHANGED <<v1, v2, v3, v4, v6, v7, v8>>
    BY <1>11 DEF A!ReadFigures
  <2>2. /\ v4' = [a \in A!Accounts |-> v4'[a]]
        /\ \A a \in A!Accounts : v4'[a] \in Nat /\ v4'[a] >= v4[a] /\ (A!isPreview(a) => v4'[a] = 0)
    BY <2>1, ShellFigures
  <2> DEFINE answer == [done |-> TRUE, figure |-> v4[c.account]]
  <2>3. answer.done /\ answer.figure = v4[c.account] /\ v5' = (v5 \ {c}) \cup {[c EXCEPT !.answer = answer]}
    BY <2>1
  <2> HIDE DEF answer
  <2> QED BY <1>8, <2>1, <2>2, <2>3
\* A call is over, and what the switch shows is of the active account or of none.
<1>17. v6.figure \in Nat /\ v8 = [a \in A!Accounts |-> v8[a]] /\ \A a \in A!Accounts : v8[a] \in 0 .. v4[a]
  BY Zenon DEF ShellInv, A!ShellTyped
<1>12. ASSUME NEW c \in v5, v5' = v5 \ {c}, UNCHANGED <<v1, v2, v3, v4>>, v6'.figure \in Nat,
              v8' = [a \in A!Accounts |-> v8'[a]],
              \A a \in A!Accounts : v8'[a] \in 0 .. v4[a],
              v8' = v8 \/ (c.part = "switch" /\ c.latest),
              A!BalanceIsCurrent'
       PROVE  ShellInv'
  <2>1. A!CallsAreCalls'
    BY <1>12 DEF ShellInv, A!CallsAreCalls
  <2>3. v2 \in A!Accounts /\ (v1 = "open" => v3 \in A!Accounts) /\ (v1 # "open" => v3 = A!Nobody)
    BY Zenon DEF ShellInv, A!ShellTyped
  <2>4. \A a \in A!Accounts : /\ v4'[a] \in Nat /\ v8'[a] \in Nat /\ v8'[a] <= v4'[a]
                              /\ A!isPreview(a) => v4'[a] = 0
    BY <1>12, ShellFigures
  <2>5. v4' = [a \in A!Accounts |-> v4'[a]]
    BY <1>12, ShellFigures
  <2>6. A!ShellTyped'
    BY <1>12, <2>3, <2>4, <2>5, ShellIsTyped
  <2>2. A!OneIsWanted'
    BY <1>12 DEF ShellInv, A!OneIsWanted, A!Calls, A!Wanted
  <2> QED BY <1>12, <2>1, <2>2, <2>6 DEF ShellInv
<1>13. CASE A!ShowBalance
  <2>1. PICK c \in v5 :
          /\ c.part = "switch" /\ c.answer.done /\ v5' = v5 \ {c} /\ UNCHANGED <<v1, v2, v3, v4, v7>>
          /\ IF c.latest
             THEN /\ v6' = A!Figure(c.account, c.answer.figure)
                  /\ v8' = [v8 EXCEPT ![c.account] = IF c.answer.figure > @ THEN c.answer.figure ELSE @]
             ELSE UNCHANGED <<v6, v8>>
    BY <1>13 DEF A!ShowBalance, A!Calls, A!Wanted
  <2>2. CASE c.latest
    <3>1. c.account = v3 /\ c.answer.figure \in v8[v3] .. v4[v3] /\ v3 \in A!Accounts /\ v8[v3] \in Nat /\ v4[v3] \in Nat
      <4>1. c.account = v3 /\ c.answer.figure \in v8[v3] .. v4[v3] /\ v3 \in A!Accounts
        BY <2>1, <2>2 DEF ShellInv, A!OneIsWanted, A!Calls, A!Wanted, A!CallsAreCalls
      <4> QED BY <4>1, ShellFigures
    <3>2. v6'.account = v3 /\ v6'.figure = c.answer.figure
      BY <2>1, <2>2, <3>1 DEF A!Figure
    <3>3. /\ v8' = [a \in A!Accounts |-> v8'[a]] /\ v8'[v3] = c.answer.figure
          /\ \A a \in A!Accounts : a # v3 => v8'[a] = v8[a]
      BY <2>1, <2>2, <3>1, ShellFigures
    <3>4. \A a \in A!Accounts : v8'[a] \in 0 .. v4[a]
      BY <3>1, <3>3, ShellFigures
    <3>5. A!BalanceIsCurrent'
      BY <2>1, <3>1, <3>2, <3>3 DEF ShellInv, A!BalanceIsCurrent
    <3>6. v6'.figure \in Nat
      BY <3>1, <3>2
    <3> QED BY <1>12, <2>1, <2>2, <3>3, <3>4, <3>5, <3>6
  <2>3. CASE ~c.latest
    <3>1. UNCHANGED <<v6, v7, v8>>
      BY <2>1, <2>3
    <3> QED BY <1>12, <1>17, <2>1, <3>1 DEF ShellInv, A!BalanceIsCurrent
  <2> QED BY <2>2, <2>3
<1>14. CASE A!ShowAccount
  <2>1. PICK c \in v5 :
          /\ v5' = v5 \ {c} /\ UNCHANGED <<v1, v2, v3, v4, v6, v8>>
          /\ v7' = IF c.account = v3 THEN A!Figure(c.account, c.answer.figure) ELSE v7
    BY <1>14 DEF A!ShowAccount, A!Calls
  <2>2. A!BalanceIsCurrent'
    BY <2>1 DEF ShellInv, A!BalanceIsCurrent, A!Figure
  <2> QED BY <1>12, <1>17, <2>1, <2>2
<1>15. CASE A!CallFails
  <2>1. PICK c \in v5 :
          /\ v5' = v5 \ {c} /\ UNCHANGED <<v1, v2, v3, v4, v8>>
          /\ v6' \in {v6, A!Unavailable} /\ v7' \in {v7, A!Unavailable}
    BY <1>15 DEF A!CallFails
  <2>2. A!Unavailable.account = A!Nobody /\ A!Unavailable.figure = 1
    BY DEF A!Unavailable
  <2>3. A!BalanceIsCurrent' /\ v6'.figure \in Nat
    BY <1>17, <2>1, <2>2, ShellAssumed DEF ShellInv, A!BalanceIsCurrent
  <2> QED BY <1>12, <1>17, <2>1, <2>3
<1>16. CASE UNCHANGED A!shellVars
  BY <1>1, <1>16 DEF A!shellVars
<1> QED BY <1>2, <1>3, <1>4, <1>5, <1>6, <1>7, <1>9, <1>10, <1>11, <1>13, <1>14, <1>15, <1>16 DEF A!Next

-----------------------------------------------------------------------------
(* The cookie choice: v1 is cookie, v2 device, v3 record, v4 memory,       *)
(* v5 choices, v6 elsewhere                                                *)

ConsentInv == K!TypeOK /\ K!RefusalHolds /\ K!StoredByConsent

LEMMA ConsentInit == K!Init => ConsentInv
<1> SUFFICES ASSUME K!Init PROVE ConsentInv
  OBVIOUS
<1> USE DEF K!Unset, K!Closed, K!Choices
<1>1. K!TypeOK
  <2>1. 0 \in 0 .. Cookies.MaxChoices
    BY SessionAssumptions DEF K!ConsentAssumption
  <2> QED BY <2>1 DEF K!Init, K!TypeOK, K!Nothing
<1>2. /\ v1 = K!Unset /\ v6 = FALSE
      /\ \A p \in Cookies.Pages : v3[p] = K!Closed
  BY DEF K!Init
<1> QED BY <1>1, <1>2 DEF ConsentInv, K!RefusalHolds, K!StoredByConsent

LEMMA ConsentNext ==
    ASSUME ConsentInv, [K!Next]_K!consentVars
    PROVE  ConsentInv' /\ K!KeepsSettings
<1> USE DEF K!Unset, K!Closed, K!Choices
<1>1. CASE UNCHANGED K!consentVars
  BY <1>1 DEF K!consentVars, ConsentInv, K!TypeOK, K!RefusalHolds, K!StoredByConsent, K!allows, K!KeepsSettings
<1>2. /\ v1 \in K!Choices \cup {K!Unset}
      /\ v2 \in [Cookies.Keys -> Cookies.Values \cup {K!Unset}]
      /\ v3 \in [Cookies.Pages -> K!Choices \cup {K!Unset, K!Closed}]
      /\ v4 \in [Cookies.Pages -> [Cookies.Keys -> Cookies.Values \cup {K!Unset}]]
      /\ v5 \in 0 .. Cookies.MaxChoices /\ v6 \in BOOLEAN
  BY DEF ConsentInv, K!TypeOK
<1>3. /\ K!Nothing \in [Cookies.Keys -> Cookies.Values \cup {K!Unset}]
      /\ \A k \in Cookies.Keys : K!Nothing[k] = K!Unset
  BY DEF K!Nothing
\* Before the first choice, and since a refusal no page goes against, no page allows
\* settings and none is on the device of an open page.
<1>4. /\ v1 = K!Unset => ~v6 /\ \A p \in Cookies.Pages : v3[p] \in {K!Closed, K!Unset}
      /\ v1 = "essential" /\ ~v6 => v2 = K!Nothing /\ \A p \in Cookies.Pages : v3[p] # "preferences"
      /\ \A p \in Cookies.Pages : v1 = K!Unset /\ v3[p] # K!Closed => v2 = K!Nothing
  BY DEF ConsentInv, K!RefusalHolds, K!StoredByConsent, K!allows
<1>5. ASSUME NEW p \in Cookies.Pages, K!Load(p) PROVE ConsentInv' /\ K!KeepsSettings
  <2>1. /\ v3[p] = K!Closed /\ v3' = [v3 EXCEPT ![p] = v1] /\ UNCHANGED <<v1, v5, v6>>
        /\ v2' = IF v1 = K!Unset THEN K!Nothing ELSE v2
        /\ v4' = [v4 EXCEPT ![p] = IF v1 = K!Unset
                    THEN [k \in Cookies.Keys |-> IF v2[k] # K!Unset THEN v2[k] ELSE K!Nothing[k]]
                    ELSE K!Nothing]
    BY <1>5, Zenon DEF K!Load, K!clearPreferences
  <2>2. K!TypeOK'
    <3>1. [k \in Cookies.Keys |-> IF v2[k] # K!Unset THEN v2[k] ELSE K!Nothing[k]] \in [Cookies.Keys -> Cookies.Values \cup {K!Unset}]
      BY <1>2, <1>3
    <3> QED BY <1>2, <1>3, <2>1, <3>1 DEF K!TypeOK
  <2>3. \A q \in Cookies.Pages : v3'[q] = IF q = p THEN v1 ELSE v3[q]
    BY <1>2, <2>1
  <2>4. K!RefusalHolds' /\ K!StoredByConsent'
    BY <1>2, <1>4, <2>1, <2>3 DEF K!RefusalHolds, K!StoredByConsent, K!allows
  <2>5. K!KeepsSettings
    BY <2>1, <2>3 DEF K!KeepsSettings, K!allows
  <2> QED BY <2>2, <2>4, <2>5 DEF ConsentInv
<1>6. ASSUME NEW p \in Cookies.Pages, K!Close(p) PROVE ConsentInv' /\ K!KeepsSettings
  <2>1. /\ v3' = [v3 EXCEPT ![p] = K!Closed] /\ v4' = [v4 EXCEPT ![p] = K!Nothing] /\ UNCHANGED <<v1, v2, v5, v6>>
    BY <1>6 DEF K!Close
  <2>2. K!TypeOK'
    BY <1>2, <1>3, <2>1 DEF K!TypeOK
  <2>3. \A q \in Cookies.Pages : v3'[q] = IF q = p THEN K!Closed ELSE v3[q]
    BY <1>2, <2>1
  <2>4. K!RefusalHolds' /\ K!StoredByConsent'
    BY <1>2, <1>4, <2>1, <2>3 DEF K!RefusalHolds, K!StoredByConsent, K!allows
  <2>5. K!KeepsSettings
    BY <2>1, <2>3 DEF K!KeepsSettings, K!allows
  <2> QED BY <2>2, <2>4, <2>5 DEF ConsentInv
\* A setting is chosen or taken back: it goes to the device of a page that allows it.
<1>7. ASSUME NEW p \in Cookies.Pages, NEW k \in Cookies.Keys, NEW v \in Cookies.Values \cup {K!Unset},
             v4' = [v4 EXCEPT ![p][k] = v],
             v2' = v2 \/ (v2' = [v2 EXCEPT ![k] = v] /\ (v3[p] = "preferences" \/ v = K!Unset)),
             UNCHANGED <<v1, v3, v5, v6>>
      PROVE  ConsentInv' /\ K!KeepsSettings
  <2>1. K!TypeOK'
    BY <1>2, <1>7 DEF K!TypeOK
  <2>2. v = K!Unset /\ v2 = K!Nothing => v2' = K!Nothing
    BY <1>2, <1>3, <1>7
  <2>3. K!RefusalHolds' /\ K!StoredByConsent'
    BY <1>2, <1>4, <1>7, <2>2 DEF K!RefusalHolds, K!StoredByConsent, K!allows
  <2>4. K!KeepsSettings
    BY <1>7 DEF K!KeepsSettings, K!allows
  <2> QED BY <2>1, <2>3, <2>4 DEF ConsentInv
<1>8. ASSUME NEW p \in Cookies.Pages, NEW k \in Cookies.Keys, NEW v \in Cookies.Values, K!setItem(p, k, v)
      PROVE  ConsentInv' /\ K!KeepsSettings
  BY <1>7, <1>8 DEF K!setItem, K!allows
<1>9. ASSUME NEW p \in Cookies.Pages, NEW k \in Cookies.Keys, K!removeItem(p, k) PROVE ConsentInv' /\ K!KeepsSettings
  BY <1>7, <1>9 DEF K!removeItem
<1>10. ASSUME NEW p \in Cookies.Pages, NEW choice \in K!Choices, K!save(p, choice) PROVE ConsentInv' /\ K!KeepsSettings
  <2> DEFINE Moved == [k \in Cookies.Keys |-> IF v4[p][k] # K!Unset THEN v4[p][k] ELSE v2[k]]
             Taken == [k \in Cookies.Keys |-> IF v2[k] # K!Unset THEN v2[k] ELSE v4[p][k]]
  <2>1. /\ v3[p] # K!Closed /\ v5 < Cookies.MaxChoices /\ v5' = v5 + 1 /\ v1' = choice /\ v3' = [v3 EXCEPT ![p] = choice]
        /\ v6' = (\E q \in Cookies.Pages \ {p} : v3[q] = "preferences")
        /\ v2' = IF choice = "preferences" THEN Moved ELSE K!Nothing
        /\ v4' = [v4 EXCEPT ![p] = IF choice = "preferences" THEN v4[p] ELSE Taken]
    BY <1>10, Zenon DEF K!save, K!Move, K!clearPreferences, K!allows
  <2>2. Moved \in [Cookies.Keys -> Cookies.Values \cup {K!Unset}] /\ Taken \in [Cookies.Keys -> Cookies.Values \cup {K!Unset}]
    BY <1>2
  <2>3. \A k \in Cookies.Keys : /\ Moved[k] = IF v4[p][k] # K!Unset THEN v4[p][k] ELSE v2[k]
                                /\ Taken[k] = IF v2[k] # K!Unset THEN v2[k] ELSE v4[p][k]
    OBVIOUS
  <2> HIDE DEF Moved, Taken
  <2>4. K!TypeOK'
    <3>1. v5' \in 0 .. Cookies.MaxChoices /\ v6' \in BOOLEAN
      BY <1>2, <2>1, SessionAssumptions DEF K!ConsentAssumption
    <3>2. /\ v2' \in [Cookies.Keys -> Cookies.Values \cup {K!Unset}]
          /\ v3' \in [Cookies.Pages -> K!Choices \cup {K!Unset, K!Closed}]
      BY <1>2, <1>3, <2>1, <2>2
    <3>3. v4' \in [Cookies.Pages -> [Cookies.Keys -> Cookies.Values \cup {K!Unset}]]
      BY <1>2, <2>1, <2>2
    <3> QED BY <2>1, <3>1, <3>2, <3>3 DEF K!TypeOK
  <2>5. /\ \A q \in Cookies.Pages : v3'[q] = IF q = p THEN choice ELSE v3[q]
        /\ v4'[p] = IF choice = "preferences" THEN v4[p] ELSE Taken
    BY <1>2, <2>1
  <2>6. K!RefusalHolds' /\ K!StoredByConsent'
    BY <2>1, <2>5 DEF K!RefusalHolds, K!StoredByConsent, K!allows
  <2>7. K!KeepsSettings
    <3>1. SUFFICES ASSUME NEW q \in Cookies.Pages, K!allows(q)' # K!allows(q), NEW k \in Cookies.Keys,
                          K!Visible(q)[k] # K!Unset
                   PROVE  K!Visible(q)'[k] = K!Visible(q)[k]
      BY DEF K!KeepsSettings
    <3>2. q = p /\ (choice = "preferences" <=> v3[p] # "preferences")
      BY <2>5, <3>1 DEF K!allows
    <3>3. /\ K!Visible(p)[k] = IF v3[p] = "preferences" THEN v2[k] ELSE v4[p][k]
          /\ K!Visible(p)'[k] = IF v3'[p] = "preferences" THEN v2'[k] ELSE v4'[p][k]
      BY DEF K!Visible, K!allows
    <3>4. CASE choice = "preferences"
      BY <2>1, <2>3, <2>5, <3>1, <3>2, <3>3, <3>4
    <3>5. CASE choice = "essential"
      BY <2>1, <2>3, <2>5, <3>1, <3>2, <3>3, <3>5
    <3> QED BY <3>4, <3>5
  <2> QED BY <2>4, <2>6, <2>7 DEF ConsentInv
<1> QED BY <1>1, <1>5, <1>6, <1>8, <1>9, <1>10, Zenon DEF K!Next

-----------------------------------------------------------------------------
(* Sessions of the forms: v1 is form, v4 task, v5 store, v8 faults         *)

LEMMA WhoInit == L!Init => L!WhoTries
<1> SUFFICES ASSUME L!Init PROVE L!WhoTries
  OBVIOUS
<1>1. /\ v8 = 0 /\ v4 = L!Idle
      /\ v5 \in [tab : {L!None} \cup (IF v1 = "signin" THEN Entrance.Accounts ELSE {}),
                 device : {L!None} \cup (IF L!CountsAtOnce THEN {} ELSE Entrance.Accounts)]
  BY DEF L!Init
<1>2. v5 = [tab |-> v5.tab, device |-> v5.device]
  BY <1>1
<1> QED BY <1>1, <1>2 DEF L!WhoTries, L!Idle

\* The attempt under way goes on, or is over.
LEMMA WhoNext ==
    ASSUME L!WhoTries, L!SignInTyped, [L!Next]_L!signInVars
    PROVE  L!WhoTries' /\ (L!NoSessionLeft /\ L!SignsInWhoAsked)
<1> DEFINE Result == L!WhoTries' /\ (L!NoSessionLeft /\ L!SignsInWhoAsked)
<1>1. /\ v8 \in Nat /\ v5 = [tab |-> v5.tab, device |-> v5.device]
      /\ v4 = [step |-> v4.step, who |-> v4.who, remember |-> v4.remember]
      /\ v4.step = "asked" => v4.who \in Entrance.Accounts
  BY DEF L!WhoTries
<1>2. L!Idle = [step |-> "idle", who |-> L!None, remember |-> FALSE] /\ L!None \notin Entrance.Accounts
  BY SessionAssumptions DEF L!Idle, SessionAssumptions, L!SignInBounds
<1>3. ASSUME UNCHANGED <<v1, v5>>, v8' \in Nat, v4' = v4 PROVE Result
  BY <1>3 DEF L!WhoTries, L!NoSessionLeft, L!SignsInWhoAsked
<1>4. ASSUME UNCHANGED <<v1, v5>>, v8' \in Nat, v4 = L!Idle \/ v8' # v8 \/ v1 # "staff-signin", v4' = L!Idle
      PROVE  Result
  BY <1>1, <1>2, <1>4 DEF L!WhoTries, L!NoSessionLeft, L!SignsInWhoAsked
\* A step of the attempt that is not its end.
<1>5. ASSUME NEW step \in {"leaves", "asksRole", "inside"}, v1' = v1, v8' \in Nat, v4' = [v4 EXCEPT !.step = step],
             v5' = [tab |-> v5'.tab, device |-> v5'.device],
             v1 = "signin" /\ step = "inside" /\ v5.tab = L!None => L!Stored(v5') = v4.who
      PROVE  Result
  <2>1. v4' = [step |-> step, who |-> v4.who, remember |-> v4.remember]
    BY <1>1, <1>5
  <2>2. v4'.step = step /\ v4'.who = v4.who /\ v4' # L!Idle
    BY <1>2, <2>1
  <2> QED BY <1>1, <1>5, <2>1, <2>2 DEF L!WhoTries, L!NoSessionLeft, L!SignsInWhoAsked
<1>6. CASE L!TimePasses
  BY <1>1, <1>3, <1>6 DEF L!TimePasses
<1>7. CASE L!Checked
  <2>1. UNCHANGED <<v1, v5>>
    BY <1>7 DEF L!Checked
  <2>2. CASE UNCHANGED v4
    BY <1>1, <1>3, <1>7, <2>1, <2>2 DEF L!Checked, L!Fault
  <2>3. CASE v4' = [L!Idle EXCEPT !.step = "inside", !.who = L!Stored(v5)] /\ UNCHANGED v8
    <3>1. v4' = [step |-> "inside", who |-> L!Stored(v5), remember |-> FALSE]
      BY <1>2, <2>3
    <3>2. v4'.step = "inside" /\ v4'.who = L!Stored(v5) /\ v4' # L!Idle
      BY <1>2, <3>1
    <3>3. L!WhoTries'
      BY <1>1, <2>1, <2>3, <3>1, <3>2 DEF L!WhoTries
    <3>4. L!Stored(v5') = L!Stored(v5)
      BY <2>1
    <3> QED BY <3>2, <3>3, <3>4 DEF L!NoSessionLeft, L!SignsInWhoAsked
  <2> QED BY <1>7, <2>2, <2>3 DEF L!Checked
<1>8. ASSUME NEW form, NEW counts, L!Start(form, counts) PROVE Result
  <2>1. PICK who \in Entrance.Accounts, remember \in BOOLEAN : v4' = [step |-> "asked", who |-> who, remember |-> remember]
    BY <1>8 DEF L!Start
  <2>2. UNCHANGED <<v1, v5, v8>>
    BY <1>8 DEF L!Start
  <2> QED BY <1>1, <1>2, <2>1, <2>2 DEF L!WhoTries, L!NoSessionLeft, L!SignsInWhoAsked
<1>9. CASE L!handleLogin \/ L!handleStaffLogin \/ L!handleRegister \/ L!requestReset \/ L!resendConfirmation
  BY <1>8, <1>9, Zenon DEF L!handleLogin, L!handleStaffLogin, L!handleRegister, L!requestReset, L!resendConfirmation
<1>10. CASE L!LoggedIn
  <2>1. /\ v1 = "signin" /\ v4.step = "asked" /\ UNCHANGED <<v1, v8>> /\ v4' = [v4 EXCEPT !.step = "inside"]
        /\ v5' = (IF v4.remember \/ v1 = "staff-signin" THEN [v5 EXCEPT !.device = v4.who] ELSE [v5 EXCEPT !.tab = v4.who])
    BY <1>10 DEF L!LoggedIn, L!Asked, L!Leads, L!setItem
  <2>2. \/ v5' = [tab |-> v5.tab, device |-> v4.who]
        \/ v5' = [tab |-> v4.who, device |-> v5.device]
    BY <1>1, <2>1
  <2>3. v5.tab = L!None => L!Stored(v5') = v4.who
    BY <1>1, <1>2, <2>1, <2>2 DEF L!Stored
  <2>4. v5' = [tab |-> v5'.tab, device |-> v5'.device]
    BY <2>2
  <2> QED BY <1>1, <1>5, <2>1, <2>3, <2>4
<1>11. CASE L!LoginFails
  BY <1>1, <1>4, <1>11 DEF L!LoginFails, L!Asked
<1>12. CASE L!StaffAccepted \/ L!StaffRefused
  <2>1. /\ v1 = "staff-signin" /\ UNCHANGED <<v1, v8>>
        /\ \E step \in {"leaves", "asksRole"} : v4' = [v4 EXCEPT !.step = step]
        /\ v5' = v5 \/ v5' = [v5 EXCEPT !.device = v4.who]
    BY <1>12 DEF L!StaffAccepted, L!StaffRefused, L!Asked, L!Leads, L!setItem
  <2>2. v5' = [tab |-> v5'.tab, device |-> v5'.device]
    BY <1>1, <2>1
  <2> QED BY <1>1, <1>5, <2>1, <2>2
<1>13. CASE L!Registered
  BY <1>1, <1>5, <1>13 DEF L!Registered, L!Asked, L!Leads
<1>14. CASE L!NotRegistered \/ L!ResetAnswered \/ L!ResendAnswered
  BY <1>1, <1>4, <1>14 DEF L!NotRegistered, L!ResetAnswered, L!ResendAnswered, L!Asked
<1>15. CASE L!RoleRead
  <2>1. /\ UNCHANGED <<v1, v5>> /\ v8' \in Nat /\ v4.step = "asksRole"
        /\ \E step \in {"leaves", "inside"} : v4' = [v4 EXCEPT !.step = step]
    BY <1>1, <1>15 DEF L!RoleRead, L!Leads, L!Fault
  <2>2. v1 = "staff-signin"
    BY <2>1 DEF L!SignInTyped
  <2> QED BY <1>1, <1>5, <2>1, <2>2
<1>16. CASE L!staffSignOut
  <2>1. /\ v1' = v1 /\ v4' = L!Idle
        /\ \/ v5' = [tab |-> L!None, device |-> L!None] /\ UNCHANGED v8
           \/ v8' = v8 + 1 /\ UNCHANGED v5
    BY <1>16 DEF L!staffSignOut, L!Fault
  <2>2. L!Stored([tab |-> L!None, device |-> L!None]) = L!None
    BY DEF L!Stored
  <2> QED BY <1>1, <1>2, <2>1, <2>2 DEF L!WhoTries, L!NoSessionLeft, L!SignsInWhoAsked
<1>17. CASE L!Reload
  BY <1>1, <1>4, <1>17 DEF L!Reload, L!Fault
<1>18. CASE UNCHANGED L!signInVars
  BY <1>1, <1>3, <1>18 DEF L!signInVars
<1> QED BY <1>6, <1>7, <1>9, <1>10, <1>11, <1>12, <1>13, <1>14, <1>15, <1>16, <1>17, <1>18, Zenon DEF L!Next

-----------------------------------------------------------------------------
(* The tick check of the fairness page *)

\* Of some numbers one is the first.
LEMMA FirstNumber ==
    ASSUME NEW set \in SUBSET Nat, set # {}
    PROVE  \E m \in set : \A q \in set : m <= q
<1> DEFINE less == {pair \in Nat \X Nat : pair[1] < pair[2]}
<1>1. PICK x \in set : \A y \in set : ~(<<y, x>> \in less)
  <2>1. IsWellFoundedOn(less, Nat)
    BY NatLessThanWellFounded DEF OpToRel
  <2> HIDE DEF less
  <2> QED BY <2>1, WFMin, Zenon
<1>2. \A a, b \in Nat : <<a, b>> \in less <=> a < b
  OBVIOUS
<1>3. \A y \in set : ~(y < x) /\ x \in Nat /\ y \in Nat
  <2> HIDE DEF less
  <2> QED BY <1>1, <1>2
<1> QED BY <1>1, <1>3

LEMMA DigitsAssumed ==
    /\ Digits.TicksPerDay \in Nat \ {0} /\ Digits.PageSize \in Nat \ {0}
    /\ Digits.LastTick \in Nat /\ Digits.FirstTick \in 0 .. Digits.LastTick
    /\ \A r \in Digits.Ranges : r[1] \in Nat \ {0} /\ r[2] \in Nat /\ r[1] <= r[2]
    /\ Digits.Base.n \in Nat /\ Digits.Base.places \in 0 .. 3
    /\ Digits.Sigma.n \in Nat /\ Digits.Sigma.places \in 0 .. 3 /\ Digits.Decimals \in 0 .. 3
BY SessionAssumptions DEF SessionAssumptions, V!ProofBounds, V!Decimal

\* Rounding half up and adding half of a power of ten are the same.
Tens == {1, 10, 100, 1000}

LEMMA PowersOfTen ==
    /\ \A k \in 0 .. 3 : V!Power10(k) \in Tens
    /\ \A j, k \in 0 .. 3 : V!Power10(j) * V!Power10(k) = V!Power10(j + k)
<1>1. \A k \in 0 .. 3 : V!Power10(k) = IF k = 0 THEN 1 ELSE IF k = 1 THEN 10 ELSE IF k = 2 THEN 100 ELSE 1000
  BY DEF V!Power10
<1>2. /\ V!Power10(4) = 10000 /\ V!Power10(5) = 100000 /\ V!Power10(6) = 1000000
  BY DEF V!Power10
<1> QED
  <2> SUFFICES ASSUME NEW j \in 0 .. 3, NEW k \in 0 .. 3
               PROVE  V!Power10(j) * V!Power10(k) = V!Power10(j + k)
    BY <1>1 DEF Tens
  <2>1. j \in {0, 1, 2, 3} /\ k \in {0, 1, 2, 3}
    OBVIOUS
  <2> QED BY <1>1, <1>2, <2>1

LEMMA RoundsAlike ==
    ASSUME NEW a \in Nat, NEW b \in Tens
    PROVE  V!Rounded(a, b) = (a + b \div 2) \div b
BY DEF V!Rounded, Tens

\* The engine's price of version 2 is the one the page computes.
LEMMA PricesAgree ==
    ASSUME NEW seed, NEW n, NEW prior
    PROVE  V!priceV2(seed, n, prior) = V!engine_price_units_v2(seed, n, prior)
<1> DEFINE ten == V!Power10(Digits.Decimals)
           one == V!Power10(Digits.Base.places)
           places == one * V!Power10(Digits.Sigma.places)
           based == Digits.Base.n * ten
           both == Digits.Base.n * Digits.Sigma.n * ten
           sigma == (both * 2 + places) \div (2 * places)
           Price(u, s) ==
               prior + V!Truncated(Digits.Kappa.n * (u - prior), V!Power10(Digits.Kappa.places))
               + 10 * V!Truncated((Block(seed, n).sum - 1530) * s, 2560)
               + Block(seed, n).residue - (IF Block(seed, n).even THEN 4 ELSE 5)
<1>0. Digits.Decimals \in 0 .. 3 /\ Digits.Base.places \in 0 .. 3 /\ Digits.Sigma.places \in 0 .. 3
  BY DigitsAssumed
<1>1. ten \in Tens /\ one \in Tens
  BY <1>0, PowersOfTen, Zenon
<1>2. based \in Nat /\ both \in Nat
  <2>1. \A a, b, c \in Nat : a * c \in Nat /\ a * b * c \in Nat
    OBVIOUS
  <2>2. ten \in Nat
    BY <1>1 DEF Tens
  <2> QED BY <2>1, <2>2, DigitsAssumed, Zenon
<1>3. V!roundedUnits(Digits.Base) = V!BaseUnits
  <2>1. V!Rounded(based, one) = (based + one \div 2) \div one
    BY <1>1, <1>2, RoundsAlike, Zenon
  <2> QED BY <2>1, Zenon DEF V!roundedUnits, V!BaseUnits
<1>4. sigma = V!SigmaUnits
  <2>1. places = V!Power10(Digits.Base.places + Digits.Sigma.places)
    BY <1>0, PowersOfTen, Zenon
  <2>2. V!SigmaUnits = (2 * both + places) \div (2 * places)
    BY <2>1, Zenon DEF V!SigmaUnits, V!Rounded
  <2>3. 2 * both = both * 2
    <3> HIDE DEF both
    <3> QED BY <1>2
  <2> QED BY <2>2, <2>3, Zenon
<1>5. V!priceV2(seed, n, prior) = Price(V!roundedUnits(Digits.Base), sigma)
  BY Zenon DEF V!priceV2, V!Quotient
<1>6. V!engine_price_units_v2(seed, n, prior) = Price(V!BaseUnits, V!SigmaUnits)
  BY Zenon DEF V!engine_price_units_v2
<1> HIDE DEF Price, sigma
<1> QED BY <1>3, <1>4, <1>5, <1>6, Zenon

\* What tick n is under these seeds when f has the ticks before it.
SeriesTick(days, f, n) ==
    IF n < v2 THEN LET b == Block(days[V!DayOf(n)], n) IN V!Tick(1, V!engine_tick_price(b), b.digit, 0)
    ELSE V!TickFrom(days[V!DayOf(n)], n, IF n = 1 THEN V!BaseUnits ELSE f[n - 1].price)

\* There is one such series: were there a shortest that cannot be built, the one before it
\* could be continued.
LEMMA SeriesIs ==
    ASSUME NEW days
    PROVE  V!Series(days) = [n \in 1 .. Digits.LastTick |-> SeriesTick(days, V!Series(days), n)]
<1> DEFINE Built(k) == \E f : f = [n \in 1 .. k |-> SeriesTick(days, f, n)]
           Unbuilt == {k \in Nat : ~Built(k)}
<1>1. Built(0)
  <2> WITNESS [n \in 1 .. 0 |-> 0]
  <2> QED OBVIOUS
<1>2. ASSUME NEW k \in Nat, Built(k) PROVE Built(k + 1)
  <2>1. PICK f : f = [n \in 1 .. k |-> SeriesTick(days, f, n)]
    BY <1>2
  <2> DEFINE g == [n \in 1 .. k + 1 |-> SeriesTick(days, f, n)]
  <2>2. \A n \in 1 .. k : g[n] = f[n]
    <3> HIDE DEF SeriesTick
    <3>1. \A n \in 1 .. k : f[n] = SeriesTick(days, f, n) /\ n \in 1 .. k + 1
      BY <2>1
    <3> QED BY <3>1
  <2>3. \A n \in 1 .. k + 1 : SeriesTick(days, f, n) = SeriesTick(days, g, n)
    <3> SUFFICES ASSUME NEW n \in 1 .. k + 1 PROVE SeriesTick(days, f, n) = SeriesTick(days, g, n)
      OBVIOUS
    <3>1. n = 1 \/ n - 1 \in 1 .. k
      OBVIOUS
    <3>2. n = 1 \/ f[n - 1] = g[n - 1]
      BY <3>1, <2>2
    <3> HIDE DEF g
    <3> QED BY <3>2, Zenon DEF SeriesTick
  <2>4. g = [n \in 1 .. k + 1 |-> SeriesTick(days, g, n)]
    <3> HIDE DEF SeriesTick
    <3> QED BY <2>3
  <2> QED BY <2>4, Zenon
<1>3. Built(Digits.LastTick)
  <2> SUFFICES Unbuilt = {}
    BY DigitsAssumed
  <2> SUFFICES ASSUME Unbuilt # {} PROVE FALSE
    OBVIOUS
  <2> HIDE DEF Built
  <2>1. PICK k \in Unbuilt : \A q \in Unbuilt : k <= q
    BY FirstNumber
  <2>2. k \in Nat /\ k # 0 /\ ~Built(k)
    BY <1>1
  <2>3. k - 1 \in Nat /\ k - 1 \notin Unbuilt /\ k = (k - 1) + 1
    BY <2>1, <2>2
  <2> QED BY <1>2, <2>2, <2>3
<1>4. PICK f : f = [n \in 1 .. Digits.LastTick |-> SeriesTick(days, f, n)]
  BY <1>3
<1>5. V!Series(days) = CHOOSE g : g = [n \in 1 .. Digits.LastTick |-> SeriesTick(days, g, n)]
  BY DEF V!Series, SeriesTick
<1> QED BY <1>4, <1>5, Zenon

-----------------------------------------------------------------------------
(* What the server shows *)

\* A tick of a version is made of its parts.
IsTick(t, version) == t = V!Tick(version, t.price, t.digit, t.previous)

LEMMA TickForms ==
    /\ \A v, p, d, q : IsTick(V!Tick(v, p, d, q), v)
    /\ \A t, v : IsTick(t, v) => t.version = v
    /\ \A t, v, e : IsTick(t, v) => IsTick([t EXCEPT !.digit = e], v)
<1>1. \A v, p, d, q : IsTick(V!Tick(v, p, d, q), v)
  BY DEF IsTick, V!Tick
<1>2. \A t, v : IsTick(t, v) => t.version = v
  BY DEF IsTick, V!Tick
<1>3. ASSUME NEW t, NEW v, NEW e, IsTick(t, v) PROVE IsTick([t EXCEPT !.digit = e], v)
  <2>1. [V!Tick(v, t.price, t.digit, t.previous) EXCEPT !.digit = e] = V!Tick(v, t.price, e, t.previous)
    BY DEF V!Tick
  <2>2. [t EXCEPT !.digit = e] = V!Tick(v, t.price, e, t.previous)
    BY <1>3, <2>1, Zenon DEF IsTick
  <2> QED BY <2>2, <1>1
<1> QED BY <1>1, <1>2, <1>3, Zenon

\* What is shown has the form of a tick of its version, and is the series itself unless
\* it was altered.
LEMMA ShownIs ==
    ASSUME v3 = V!ShownTicks, v2 \in 1 .. Digits.LastTick + 1, NEW n \in 1 .. Digits.LastTick
    PROVE  /\ v7 = V!NotAltered => v3[n] = SeriesTick(v1, v3, n)
           /\ IsTick(v3[n], IF n < v2 THEN 1 ELSE 2)
<1> DEFINE ticks == V!Series(V!ShownSeeds)
           version == IF n < v2 THEN 1 ELSE 2
<1>1. \A k \in 1 .. Digits.LastTick : ticks[k] = SeriesTick(V!ShownSeeds, ticks, k)
  BY SeriesIs, Zenon
<1>2. DOMAIN ticks = 1 .. Digits.LastTick
  BY SeriesIs, Zenon
<1>3. IsTick(ticks[n], version)
  <2>1. ticks[n] = SeriesTick(V!ShownSeeds, ticks, n)
    BY <1>1
  <2>2. CASE n < v2
    <3>1. PICK p, d : ticks[n] = V!Tick(1, p, d, 0)
      BY <2>1, <2>2, Zenon DEF SeriesTick
    <3> HIDE DEF ticks
    <3> QED BY <3>1, <2>2, TickForms
  <2>3. CASE ~(n < v2)
    <3>1. PICK q : ticks[n] = V!TickFrom(V!ShownSeeds[V!DayOf(n)], n, q)
      BY <2>1, <2>3, Zenon DEF SeriesTick
    <3> HIDE DEF ticks
    <3> QED BY <3>1, <2>3, TickForms DEF V!TickFrom
  <2> QED BY <2>2, <2>3
<1> HIDE DEF ticks
<1>4. CASE v7.kind = "digit"
  <2>1. v3 = [ticks EXCEPT ![v7.at].digit = (@ + 1) % 10]
    BY <1>4 DEF V!ShownTicks, ticks
  <2>2. v7 # V!NotAltered
    BY <1>4 DEF V!NotAltered
  <2>3. v3[n] = IF n = v7.at THEN [ticks[n] EXCEPT !.digit = (@ + 1) % 10] ELSE ticks[n]
    BY <2>1, <1>2
  <2>4. IsTick(v3[n], version)
    <3>1. IsTick([ticks[n] EXCEPT !.digit = (@ + 1) % 10], version)
      BY <1>3, TickForms, Zenon
    <3> QED BY <3>1, <2>3, <1>3, Zenon
  <2> QED BY <2>2, <2>4, Zenon
<1>5. CASE v7.kind = "previous" /\ v7.at >= v2
  <2> DEFINE redrawn == V!TickFrom(V!ShownSeeds[V!DayOf(v7.at)], v7.at, ticks[v7.at].previous + 10)
  <2>1. v3 = [ticks EXCEPT ![v7.at] = redrawn]
    BY <1>5 DEF V!ShownTicks, ticks
  <2>2. v7 # V!NotAltered
    BY <1>5 DEF V!NotAltered
  <2>3. v3[n] = IF n = v7.at THEN redrawn ELSE ticks[n]
    <3> HIDE DEF redrawn
    <3> QED BY <2>1, <1>2
  <2>4. n = v7.at => version = 2
    BY <1>5
  <2>5. IsTick(redrawn, 2)
    BY TickForms DEF V!TickFrom
  <2> HIDE DEF redrawn, version
  <2>6. IsTick(v3[n], version)
    BY <2>3, <2>4, <2>5, <1>3, Zenon
  <2> QED BY <2>2, <2>6, Zenon DEF version
<1>6. CASE ~(v7.kind = "digit") /\ ~(v7.kind = "previous" /\ v7.at >= v2)
  <2>1. v3 = ticks
    BY <1>6 DEF V!ShownTicks, ticks
  <2>2. v7 = V!NotAltered => V!ShownSeeds = v1
    BY DEF V!NotAltered, V!ShownSeeds
  <2>3. v7 = V!NotAltered => v3[n] = SeriesTick(v1, v3, n)
    BY <2>1, <2>2, <1>1
  <2> QED BY <2>1, <2>3, <1>3
<1> QED BY <1>4, <1>5, <1>6

-----------------------------------------------------------------------------
(* A page of the ticks stored *)

\* A page that is not empty has a last tick; an empty one is not full.
LEMMA PageMax ==
    ASSUME v4 \subseteq 1 .. v5, v5 \in Nat, V!NextPage # {}
    PROVE  V!Max(V!NextPage) \in V!NextPage /\ V!Max(V!NextPage) \in Nat
<1> DEFINE page == V!NextPage
           left == {v5 - k : k \in page}
<1>1. \A k \in page : k \in 1 .. v5
  BY DEF V!NextPage
<1> HIDE DEF page
<1>2. left \in SUBSET Nat /\ left # {}
  BY <1>1 DEF page
<1>3. PICK l \in left : \A q \in left : l <= q
  <2> HIDE DEF left
  <2> QED BY <1>2, FirstNumber
<1>4. PICK m \in page : l = v5 - m
  OBVIOUS
<1>5. \A k \in page : v5 - m <= v5 - k
  BY <1>3, <1>4
<1>6. \E k \in page : \A q \in page : k >= q
  BY <1>1, <1>4, <1>5
<1>7. V!Max(page) \in page
  BY <1>6 DEF V!Max
<1> QED BY <1>1, <1>7 DEF page

LEMMA NonePage == V!NextPage = {} => V!Cardinality(V!NextPage) < Digits.PageSize
<1>1. V!Cardinality({}) = Cardinality({})
  BY Zenon DEF V!Cardinality, Cardinality
<1> QED BY <1>1, FS_EmptySet, DigitsAssumed

\* What the page has read when it was given nextPage: everything stored up to its last
\* tick, or everything there is if it was not full.
LEMMA PageReads ==
    ASSUME v4 \subseteq 1 .. v5, v5 \in Nat, v10 \in Nat, NEW n \in v4, n > v10,
           \/ V!Cardinality(V!NextPage) < Digits.PageSize
           \/ n <= V!Max(V!NextPage)
    PROVE  n \in V!NextPage
<1> DEFINE page == V!NextPage
           Below(k) == {m \in v4 : v10 < m /\ m < k}
<1>0. \A set : V!Cardinality(set) = Cardinality(set)
  BY Zenon DEF V!Cardinality, Cardinality
<1>1. \A k : IsFiniteSet(Below(k)) /\ IsFiniteSet(page)
  <2>1. IsFiniteSet(1 .. v5)
    BY FS_Interval
  <2> QED BY <2>1, FS_Subset DEF V!NextPage
<1>2. \A k : k \in page <=> k \in v4 /\ k > v10 /\ Cardinality(Below(k)) < Digits.PageSize
  BY <1>0 DEF V!NextPage
<1>3. \A k : Cardinality(Below(k)) \in Nat /\ Cardinality(page) \in Nat
  BY <1>1, FS_CardinalityType
<1>4. \A j, k \in v4 : j <= k => Cardinality(Below(j)) <= Cardinality(Below(k))
  <2> SUFFICES ASSUME NEW j \in v4, NEW k \in v4, j <= k PROVE Cardinality(Below(j)) <= Cardinality(Below(k))
    OBVIOUS
  <2>1. \A m \in v4 \cup {j, k} : m \in Nat
    OBVIOUS
  <2>2. ASSUME NEW m \in Below(j) PROVE m \in Below(k)
    BY <2>1
  <2>3. Below(j) \subseteq Below(k)
    BY <2>2, Zenon
  <2> HIDE DEF Below
  <2> QED BY <2>3, <1>1, FS_Subset
<1>a. \A m \in v4 : m \in 1 .. v5
  OBVIOUS
<1>b. Digits.PageSize \in Nat
  BY DigitsAssumed
<1>5. CASE page # {} /\ n <= V!Max(page)
  <2>1. V!Max(page) \in page
    BY <1>5, PageMax
  <2>2. V!Max(page) \in v4 /\ Cardinality(Below(n)) <= Cardinality(Below(V!Max(page)))
    <3> HIDE DEF page, Below
    <3> QED BY <2>1, <1>2, <1>4, <1>5
  <2>3. Cardinality(Below(n)) < Digits.PageSize
    <3> HIDE DEF page, Below
    <3> QED BY <2>1, <2>2, <1>2, <1>3, <1>b
  <2> QED BY <2>3, <1>2
<1>6. CASE V!Cardinality(page) < Digits.PageSize
  <2> SUFFICES ASSUME n \notin page PROVE FALSE
    OBVIOUS
  <2> DEFINE beyond == {k \in v4 : k > v10 /\ k \notin page}
  <2>1. beyond \in SUBSET Nat /\ beyond # {}
    <3> HIDE DEF page
    <3>1. \A k \in beyond : k \in Nat
      BY <1>a
    <3>2. n \in beyond
      OBVIOUS
    <3> HIDE DEF beyond
    <3> QED BY <3>1, <3>2
  <2>2. PICK k \in beyond : \A q \in beyond : k <= q
    <3> HIDE DEF beyond
    <3> QED BY <2>1, FirstNumber
  <2>3. Below(k) \subseteq page
    <3> SUFFICES ASSUME NEW m \in v4, v10 < m, m < k PROVE m \in page
      OBVIOUS
    <3>1. m \in Nat /\ k \in Nat /\ m > v10
      BY <1>a
    <3> HIDE DEF page
    <3> QED BY <2>2, <3>1
  <2>4. Cardinality(Below(k)) <= Cardinality(page)
    <3> HIDE DEF page, Below
    <3> QED BY <2>3, <1>1, FS_Subset
  <2>5. k \in v4 /\ k > v10 /\ k \notin page
    OBVIOUS
  <2> HIDE DEF page, Below, beyond
  <2> QED BY <2>4, <2>5, <1>0, <1>2, <1>3, <1>6, <1>b
<1>7. page = {} => V!Cardinality(page) < Digits.PageSize
  BY NonePage
<1> QED BY <1>5, <1>6, <1>7

-----------------------------------------------------------------------------
(* The tick check *)

\* What the server shows stays what it was at the beginning.
ShownFollows ==
    \A n \in 1 .. Digits.LastTick : /\ v7 = V!NotAltered => v3[n] = SeriesTick(v1, v3, n)
                                    /\ IsTick(v3[n], IF n < v2 THEN 1 ELSE 2)

DigitsInv == /\ V!ReadsAreShown /\ V!ReadsAreWhole /\ ShownFollows
             /\ V!HonestTicksVerify /\ V!VerifiedFollows /\ V!RangeIsWhole

\* Of two ticks the later one is of no earlier day.
LEMMA DayGrows ==
    ASSUME NEW t \in Nat, NEW u \in Nat, t <= u
    PROVE  V!DayOf(t) \in Nat /\ V!DayOf(t) <= V!DayOf(u)
<1>1. \A n \in Nat \ {0} : t \div n \in Nat /\ t \div n <= u \div n
  <2> SUFFICES ASSUME NEW n \in Nat \ {0} PROVE t \div n \in Nat /\ t \div n <= u \div n
    OBVIOUS
  <2>1. t \div n \in Nat
    BY SMTT(30)
  <2>2. t \div n <= u \div n
    BY SMTT(30)
  <2> QED BY <2>1, <2>2
<1> QED BY <1>1, DigitsAssumed DEF V!DayOf

LEMMA ShownStays ==
    ASSUME ShownFollows, UNCHANGED <<v1, v2, v3, v7>>
    PROVE  ShownFollows'
BY DEF ShownFollows, SeriesTick, IsTick

LEMMA DigitsInit == V!Init => DigitsInv
<1> SUFFICES ASSUME V!Init PROVE DigitsInv
  OBVIOUS
<1>1. V!ReadsAreShown
  <2>1. v5 = Digits.FirstTick /\ v4 = 1 .. Digits.FirstTick /\ v13 = {} /\ v11 = <<>>
    BY DEF V!Init
  <2>2. v2 \in 1 .. Digits.LastTick + 1 /\ v3 = V!ShownTicks /\ \A n \in 1 .. Digits.FirstTick : v3[n].price > 0
    BY DEF V!Init
  <2>3. DOMAIN v11 = {}
    BY <2>1
  <2> QED BY <2>1, <2>2, <2>3, DigitsAssumed DEF V!ReadsAreShown
<1>2. V!ReadsAreWhole
  BY DEF V!Init, V!ReadsAreWhole
<1>3. V!HonestTicksVerify /\ V!VerifiedFollows /\ V!RangeIsWhole
  BY DEF V!Init, V!HonestTicksVerify, V!VerifiedFollows, V!RangeIsWhole, V!NoResult
<1>4. ShownFollows
  <2>1. v2 \in 1 .. Digits.LastTick + 1 /\ v3 = V!ShownTicks
    BY DEF V!Init
  <2> QED BY <2>1, ShownIs, Zenon DEF ShownFollows
<1> QED BY <1>1, <1>2, <1>3, <1>4 DEF DigitsInv

\* The engine goes on: what the page has read and found stays.
LEMMA EngineGoesOn ==
    ASSUME DigitsInv, v5' \in v5 .. Digits.LastTick, v4' \subseteq 1 .. v5', v13' \subseteq v4', v13' \subseteq v13,
           \A n \in 1 .. v5' : v3[n].price > 0,
           UNCHANGED <<v1, v2, v3, v7, v8, v9, v10, v11, v12>>
    PROVE  DigitsInv'
<1>1. V!ReadsAreShown'
  <2>2. v5' \in 0 .. Digits.LastTick /\ 1 .. v5 \subseteq 1 .. v5'
    BY DigitsAssumed DEF DigitsInv, V!ReadsAreShown
  <2> QED BY <2>2 DEF DigitsInv, V!ReadsAreShown
<1>2. V!ReadsAreWhole'
  BY DEF DigitsInv, V!ReadsAreWhole
<1>3. V!HonestTicksVerify'
  BY DEF DigitsInv, V!HonestTicksVerify
<1>4. V!VerifiedFollows'
  BY DEF DigitsInv, V!VerifiedFollows, V!TickFrom, V!engine_price_units_v2
<1>5. V!RangeIsWhole'
  BY DEF DigitsInv, V!RangeIsWhole
<1>6. ShownFollows'
  BY ShownStays DEF DigitsInv
<1> QED BY <1>1, <1>2, <1>3, <1>4, <1>5, <1>6 DEF DigitsInv

\* A step of the page before its result: nothing is said yet.
LEMMA NothingSaid ==
    ASSUME v8' # "done", v12' = V!NoResult
    PROVE  V!HonestTicksVerify' /\ V!VerifiedFollows' /\ V!RangeIsWhole'
BY DEF V!HonestTicksVerify, V!VerifiedFollows, V!RangeIsWhole, V!NoResult

\* A page of ticks is read: what is new is what the server shows, and no tick that was
\* there all the time is passed over.
LEMMA DigitsRead == DigitsInv /\ V!readTicks => DigitsInv'
<1> SUFFICES ASSUME DigitsInv, V!readTicks PROVE DigitsInv'
  OBVIOUS
<1> DEFINE new == [n \in V!NextPage |-> v3[n]]
           page == V!NextPage
<1>1. /\ v8 = "ticks" /\ UNCHANGED <<v1, v2, v3, v4, v5, v7, v9, v12, v13>>
      /\ \/ /\ V!Cardinality(page) < Digits.PageSize \/ V!Max(page) >= v9[2]
            /\ v8' = "proofs" /\ v10' = v10
         \/ /\ ~(V!Cardinality(page) < Digits.PageSize) /\ ~(V!Max(page) >= v9[2])
            /\ v8' = "ticks" /\ v10' = V!Max(page)
  BY DEF V!readTicks, V!engine
<1>2. /\ v5 \in Nat /\ v4 \subseteq 1 .. v5 /\ v13 \subseteq v4 /\ v10 \in Nat /\ v9 \in Digits.Ranges
      /\ v12 = V!NoResult /\ \A n \in v13 : n \in v9[1] - 1 .. v10 => n \in DOMAIN v11
      /\ DOMAIN v11 \subseteq 1 .. v5 /\ \A n \in DOMAIN v11 : v11[n] = v3[n]
  BY <1>1, DigitsAssumed DEF DigitsInv, V!ReadsAreShown, V!ReadsAreWhole
<1>3. page \subseteq v4
  BY DEF V!NextPage
<1>4. /\ DOMAIN v11' = page \cup DOMAIN v11
      /\ \A n \in DOMAIN v11' : v11'[n] = v3[n]
  <2>1. v11' = [n \in page \cup DOMAIN v11 |-> IF n \in page THEN v3[n] ELSE v11[n]]
    BY DEF V!readTicks
  <2> HIDE DEF page
  <2> QED BY <2>1, <1>2
<1>5. V!ReadsAreShown'
  <2> HIDE DEF page
  <2> QED BY <1>1, <1>2, <1>3, <1>4 DEF DigitsInv, V!ReadsAreShown
<1>6. V!ReadsAreWhole'
  <2>1. ASSUME NEW n \in v13, n > v10,
               V!Cardinality(page) < Digits.PageSize \/ n <= V!Max(page)
        PROVE  n \in page
    BY <2>1, <1>2, PageReads
  <2>2. \A n \in v13 : n \in Nat
    <3>1. v4 \subseteq 1 .. v5 /\ v5 \in Nat /\ v13 \subseteq v4
      BY <1>2
    <3>2. \A n \in 1 .. v5 : n \in Nat
      BY <3>1
    <3> QED BY <3>1, <3>2, Zenon
  <2>3. v9[1] \in Nat \ {0} /\ v9[2] \in Nat
    BY <1>2, DigitsAssumed
  <2> HIDE DEF page
  <2>4. CASE v8' = "ticks"
    <3>1. v10' = V!Max(page) /\ ~(V!Cardinality(page) < Digits.PageSize)
      BY <1>1, <2>4
    <3>2. V!Max(page) \in Nat
      BY <1>2, <3>1, PageMax, NonePage, Zenon DEF page
    <3>3. \A n \in v13' : n \in v9'[1] - 1 .. v10' => n \in DOMAIN v11'
      <4> SUFFICES ASSUME NEW n \in v13, n \in v9[1] - 1 .. V!Max(page) PROVE n \in DOMAIN v11'
        BY <1>1, <3>1
      <4>1. n \in Nat /\ (n > v10 \/ n \in v9[1] - 1 .. v10)
        BY <2>2, <2>3, <1>2
      <4>2. n <= V!Max(page)
        BY <2>3, <3>2
      <4> QED BY <4>1, <4>2, <2>1, <1>2, <1>4
    <3> QED BY <1>1, <1>2, <2>4, <3>1, <3>2, <3>3 DEF V!ReadsAreWhole
  <2>5. CASE v8' = "proofs"
    <3>1. V!Cardinality(page) < Digits.PageSize \/ V!Max(page) >= v9[2]
      BY <1>1, <2>5
    <3>2. \A n \in v13' : n \in v9'[1] .. v9'[2] => n \in DOMAIN v11'
      <4> SUFFICES ASSUME NEW n \in v13, n \in v9[1] .. v9[2] PROVE n \in DOMAIN v11'
        BY <1>1
      <4>1. n \in Nat /\ n <= v9[2] /\ (n > v10 \/ n \in v9[1] - 1 .. v10)
        BY <2>2, <2>3, <1>2
      <4>2. V!Cardinality(page) < Digits.PageSize \/ n <= V!Max(page)
        <5>1. CASE page = {}
          BY <5>1, NonePage, Zenon DEF page
        <5>2. CASE page # {}
          <6>1. V!Max(page) \in Nat
            BY <1>2, <5>2, PageMax, Zenon DEF page
          <6> QED BY <3>1, <4>1, <6>1, <2>3
        <5> QED BY <5>1, <5>2
      <4> QED BY <4>1, <4>2, <2>1, <1>2, <1>4
    <3> QED BY <1>1, <1>2, <2>5, <3>2 DEF V!ReadsAreWhole
  <2> QED BY <2>4, <2>5, <1>1
<1>7. v8' # "done" /\ v12' = V!NoResult
  BY <1>1, <1>2
<1>8. ShownFollows'
  BY <1>1, ShownStays DEF DigitsInv
<1> QED BY <1>5, <1>6, <1>7, <1>8, NothingSaid DEF DigitsInv

\* A verification begins where nothing was read before.
LEMMA DigitsSubmit == DigitsInv /\ V!submit => DigitsInv'
<1> SUFFICES ASSUME DigitsInv, V!submit PROVE DigitsInv'
  OBVIOUS
<1>1. /\ v8 = "idle" /\ v8' = "ticks" /\ v9' \in Digits.Ranges /\ v10' = V!Max({0, v9'[1] - 2})
      /\ v13' = v4 /\ UNCHANGED <<v1, v2, v3, v4, v5, v7, v11, v12>>
  BY DEF V!submit, V!engine
<1>2. v4 \subseteq 1 .. v5 /\ v5 \in Nat /\ v12 = V!NoResult
  BY <1>1, DigitsAssumed DEF DigitsInv, V!ReadsAreShown, V!ReadsAreWhole
<1>3. v9'[1] \in Nat \ {0}
  BY <1>1, DigitsAssumed
<1>4. v10' = IF v9'[1] - 2 < 0 THEN 0 ELSE v9'[1] - 2
  <2> DEFINE a == v9'[1] - 2
  <2>1. a \in Int
    BY <1>3
  <2> HIDE DEF a
  <2>2. V!Max({0, a}) = IF a < 0 THEN 0 ELSE a
    BY <2>1 DEF V!Max
  <2> QED BY <1>1, <2>2 DEF a
<1>5. V!ReadsAreShown'
  BY <1>1, <1>2 DEF DigitsInv, V!ReadsAreShown
<1>6. V!ReadsAreWhole'
  <2>1. \A n \in v4 : n \in Nat \ {0}
    BY <1>2
  <2>2. \A n \in v13' : ~(n \in v9'[1] - 1 .. v10')
    <3> SUFFICES ASSUME NEW n \in v4 PROVE ~(n \in v9'[1] - 1 .. v10')
      BY <1>1, Zenon
    <3>1. n \in Nat \ {0}
      BY <2>1, Zenon
    <3> QED BY <3>1, <1>3, <1>4
  <2>3. v10' \in Nat
    BY <1>3, <1>4
  <2> QED BY <1>1, <1>2, <2>2, <2>3 DEF V!ReadsAreWhole
<1>7. v8' # "done" /\ v12' = V!NoResult
  BY <1>1, <1>2
<1>8. ShownFollows'
  BY <1>1, ShownStays DEF DigitsInv
<1> QED BY <1>5, <1>6, <1>7, <1>8, NothingSaid DEF DigitsInv

\* A failed call leaves nothing read.
LEMMA DigitsFail == DigitsInv /\ V!callFails => DigitsInv'
<1> SUFFICES ASSUME DigitsInv, V!callFails PROVE DigitsInv'
  OBVIOUS
<1>1. /\ v8 \in {"ticks", "proofs"} /\ v8' = "idle" /\ v11' = <<>> /\ v13' = {}
      /\ UNCHANGED <<v1, v2, v3, v4, v5, v7, v12>>
  BY DEF V!callFails
<1>2. DOMAIN v11' = {}
  BY <1>1
<1>3. v8' # "done" /\ v12' = V!NoResult
  BY <1>1 DEF DigitsInv, V!ReadsAreWhole
<1>4. V!ReadsAreShown'
  BY <1>1, <1>2 DEF DigitsInv, V!ReadsAreShown
<1>5. V!ReadsAreWhole'
  BY <1>1, <1>3 DEF V!ReadsAreWhole
<1>6. ShownFollows'
  BY <1>1, ShownStays DEF DigitsInv
<1> QED BY <1>3, <1>4, <1>5, <1>6, NothingSaid DEF DigitsInv

\* A tick the server shows of the seed it was made from matches, and only such a one does.
LEMMA ShownMatches ==
    ASSUME DigitsInv, v7 = V!NotAltered, NEW ticks, NEW n \in DOMAIN ticks,
           DOMAIN ticks \subseteq 1 .. v5, \A k \in DOMAIN ticks : ticks[k] = v3[k]
    PROVE  V!Matches(v1[V!DayOf(n)], ticks, n)
<1> DEFINE seed == v1[V!DayOf(n)]
<1>1. n \in 1 .. Digits.LastTick /\ n \in 1 .. v5 /\ v5 \in Nat /\ v2 \in Nat
  BY DigitsAssumed DEF DigitsInv, V!ReadsAreShown
<1>2. ticks[n] = SeriesTick(v1, v3, n) /\ ticks[n].price > 0
  BY <1>1 DEF DigitsInv, ShownFollows, V!ReadsAreShown
<1>3. CASE n < v2
  <2>1. ticks[n] = V!Tick(1, V!engine_tick_price(Block(seed, n)), Block(seed, n).digit, 0)
    BY <1>2, <1>3, Zenon DEF SeriesTick
  <2>2. ticks[n].version = 1 /\ ticks[n].digit = Block(seed, n).digit
    BY <2>1 DEF V!Tick
  <2> HIDE DEF seed
  <2> QED BY <2>2 DEF V!Matches, seed
<1>4. CASE ~(n < v2)
  <2> DEFINE prior == IF n = 1 THEN V!BaseUnits ELSE v3[n - 1].price
             units == V!engine_price_units_v2(seed, n, prior)
  <2>1. ticks[n] = V!TickFrom(seed, n, prior)
    BY <1>2, <1>4, Zenon DEF SeriesTick
  <2>2. ticks[n].version = 2 /\ ticks[n].price = units /\ ticks[n].digit = units % 10 /\ ticks[n].previous = prior
    <3> HIDE DEF prior, seed
    <3> QED BY <2>1 DEF V!TickFrom, V!Tick
  <2>3. V!Continues(ticks, n)
    <3>1. n - 1 \in DOMAIN ticks => n # 1 /\ ticks[n - 1] = v3[n - 1]
      BY <1>1
    <3> QED BY <3>1, <2>2 DEF V!Continues
  <2>4. V!priceV2(seed, n, ticks[n].previous) = units
    BY <2>2, PricesAgree, Zenon
  <2> HIDE DEF seed, units, prior
  <2> QED BY <1>2, <2>2, <2>3, <2>4 DEF V!Matches, seed
<1> QED BY <1>3, <1>4

LEMMA MatchFollows ==
    ASSUME DigitsInv, NEW seed, NEW ticks, NEW n \in DOMAIN ticks, n \in 1 .. Digits.LastTick,
           ticks[n] = v3[n], V!Matches(seed, ticks, n)
    PROVE  IF n < v2 THEN ticks[n].digit = Block(seed, n).digit
           ELSE n - 1 \in DOMAIN ticks => ticks[n] = V!TickFrom(seed, n, ticks[n - 1].price)
<1>1. IsTick(ticks[n], IF n < v2 THEN 1 ELSE 2)
  BY DEF DigitsInv, ShownFollows
<1>2. CASE n < v2
  <2>1. ticks[n].version = 1
    BY <1>1, <1>2, TickForms
  <2> QED BY <1>2, <2>1 DEF V!Matches
<1>3. CASE ~(n < v2)
  <2> DEFINE units == V!engine_price_units_v2(seed, n, ticks[n].previous)
  <2>1. ticks[n].version = 2 /\ ticks[n] = V!Tick(2, ticks[n].price, ticks[n].digit, ticks[n].previous)
    BY <1>1, <1>3, TickForms DEF IsTick
  <2>2. V!priceV2(seed, n, ticks[n].previous) = units
    BY PricesAgree, Zenon
  <2>3. units = ticks[n].price /\ units % 10 = ticks[n].digit /\ V!Continues(ticks, n)
    <3> HIDE DEF units
    <3> QED BY <2>1, <2>2 DEF V!Matches
  <2>4. ticks[n] = V!Tick(2, units, units % 10, ticks[n].previous)
    <3> HIDE DEF units
    <3> QED BY <2>1, <2>3, Zenon
  <2>5. ticks[n] = V!TickFrom(seed, n, ticks[n].previous)
    BY <2>4, Zenon DEF V!TickFrom
  <2>6. n - 1 \in DOMAIN ticks => ticks[n].previous = ticks[n - 1].price
    BY <2>3 DEF V!Continues
  <2> HIDE DEF units
  <2> QED BY <1>3, <2>5, <2>6, Zenon
<1> QED BY <1>2, <1>3

\* The epochs are read, and the page says what it found.
LEMMA DigitsProofs == DigitsInv /\ V!readProofs => DigitsInv'
<1> SUFFICES ASSUME DigitsInv, V!readProofs PROVE DigitsInv'
  OBVIOUS
<1> DEFINE from == v9[1]
           to == v9[2]
           ticks == [n \in DOMAIN v11 \cap (from - 1 .. to) |-> v11[n]]
           present == {n \in DOMAIN ticks : n \in from .. to}
           assigned == {n \in present : V!DayOf(n) \in DOMAIN V!Proofs}
           checked == {n \in assigned : V!Proofs[V!DayOf(n)].revealed}
           good == {n \in checked : V!Matches(V!Proofs[V!DayOf(n)].seed, ticks, n)}
<1>1. /\ v8 = "proofs" /\ v8' = "done" /\ v12' = V!verify(V!Proofs, ticks, from, to)
      /\ UNCHANGED <<v1, v2, v3, v4, v5, v7, v9, v10, v11, v13>>
  BY DEF V!readProofs, V!engine
<1>2. /\ v12'.missing = (from .. to) \ present /\ v12'.unassigned = present \ assigned
      /\ v12'.verified = good /\ v12'.mismatched = checked \ good
      /\ v12'.uncommitted = V!Broken(V!Proofs, {V!DayOf(n) : n \in checked})
  BY <1>1 DEF V!verify
<1>3. /\ DOMAIN ticks = DOMAIN v11 \cap (from - 1 .. to)
      /\ \A n \in DOMAIN ticks : ticks[n] = v11[n] /\ ticks[n] = v3[n]
      /\ DOMAIN ticks \subseteq 1 .. v5 /\ 1 .. v5 \subseteq 1 .. Digits.LastTick /\ v5 \in Nat
  BY DigitsAssumed DEF DigitsInv, V!ReadsAreShown
<1>4. \A d \in V!Committed : /\ d \in DOMAIN V!Proofs /\ V!Proofs[d].commitment = v1[d]
                            /\ V!Proofs[d].seed = V!ShownSeeds[d]
  BY DEF V!Proofs
<1>5. DOMAIN V!Proofs = V!Committed
  BY DEF V!Proofs
<1> HIDE DEF ticks
<1>6. \A n \in present : V!DayOf(n) \in V!Committed
  <2> SUFFICES ASSUME NEW n \in present PROVE V!DayOf(n) \in V!Committed
    OBVIOUS
  <2>1. n \in Nat /\ n <= v5 /\ v5 \in Nat /\ v5 <= Digits.LastTick /\ Digits.LastTick \in Nat
    BY <1>3, DigitsAssumed DEF DigitsInv, V!ReadsAreShown
  <2>2. /\ V!DayOf(n) \in Nat /\ V!DayOf(v5) \in Nat /\ V!DayOf(Digits.LastTick) \in Nat
        /\ V!DayOf(n) <= V!DayOf(v5) /\ V!DayOf(v5) <= V!DayOf(Digits.LastTick)
    BY <2>1, DayGrows
  <2> QED BY <2>2 DEF V!Committed, V!Days
<1>7. V!HonestTicksVerify'
  <2> SUFFICES ASSUME v7 = V!NotAltered PROVE checked \ good = {} /\ present \ assigned = {}
                                              /\ V!Broken(V!Proofs, {V!DayOf(n) : n \in checked}) = {}
    BY <1>1, <1>2 DEF V!HonestTicksVerify
  <2>1. V!ShownSeeds = v1
    BY DEF V!ShownSeeds, V!NotAltered
  <2>2. present \ assigned = {}
    BY <1>5, <1>6
  <2>3. ASSUME NEW n \in checked PROVE n \in good
    <3>1. n \in DOMAIN ticks /\ V!DayOf(n) \in V!Committed
      BY <1>6
    <3>2. V!Matches(v1[V!DayOf(n)], ticks, n)
      BY <3>1, <1>3, ShownMatches
    <3>3. V!Proofs[V!DayOf(n)].seed = v1[V!DayOf(n)]
      BY <3>1, <1>4, <2>1
    <3> QED BY <3>2, <3>3
  <2>4. \A n \in checked : V!Proofs[V!DayOf(n)].seed = V!Proofs[V!DayOf(n)].commitment
    BY <1>4, <1>6, <2>1
  <2>5. V!Broken(V!Proofs, {V!DayOf(n) : n \in checked}) = {}
    <3> HIDE DEF checked
    <3> QED BY <2>4 DEF V!Broken
  <2> QED BY <2>2, <2>3, <2>5
<1>8. V!VerifiedFollows'
  <2> SUFFICES ASSUME V!Broken(V!Proofs, {V!DayOf(n) : n \in checked}) = {}, NEW n \in good
               PROVE  IF n < v2 THEN v11[n].digit = Block(v1[V!DayOf(n)], n).digit
                      ELSE n - 1 \in DOMAIN v11 => v11[n] = V!TickFrom(v1[V!DayOf(n)], n, v11[n - 1].price)
    <3> HIDE DEF good, checked
    <3> QED BY <1>1, <1>2 DEF V!VerifiedFollows
  <2>1. /\ n \in checked /\ n \in DOMAIN ticks /\ n \in from .. to /\ V!DayOf(n) \in V!Committed
        /\ V!Matches(V!Proofs[V!DayOf(n)].seed, ticks, n)
    BY <1>6
  <2>2. V!Proofs[V!DayOf(n)].seed = v1[V!DayOf(n)]
    <3>1. V!Proofs[V!DayOf(n)].seed = V!Proofs[V!DayOf(n)].commitment
      <4> HIDE DEF checked
      <4> QED BY <2>1 DEF V!Broken
    <3> QED BY <3>1, <2>1, <1>4
  <2>3. IF n < v2 THEN ticks[n].digit = Block(v1[V!DayOf(n)], n).digit
        ELSE n - 1 \in DOMAIN ticks => ticks[n] = V!TickFrom(v1[V!DayOf(n)], n, ticks[n - 1].price)
    <3>1. n \in 1 .. Digits.LastTick /\ ticks[n] = v3[n]
      BY <2>1, <1>3
    <3>2. V!Matches(v1[V!DayOf(n)], ticks, n) /\ n \in DOMAIN ticks
      BY <2>1, <2>2
    <3> HIDE DEF good
    <3> QED BY <3>1, <3>2, MatchFollows
  <2>4. n - 1 \in DOMAIN v11 => n - 1 \in DOMAIN ticks /\ ticks[n - 1] = v11[n - 1]
    <3>1. n \in Nat /\ n - 1 \in from - 1 .. to
      <4>1. from \in Nat /\ to \in Nat
        BY <1>1, DigitsAssumed DEF DigitsInv, V!ReadsAreWhole
      <4>2. n \in from .. to
        BY <2>1
      <4> HIDE DEF from, to
      <4> QED BY <4>1, <4>2
    <3> QED BY <3>1, <1>3
  <2>5. ticks[n] = v11[n]
    BY <2>1, <1>3
  <2> QED BY <2>3, <2>4, <2>5, Zenon
<1>9. V!RangeIsWhole'
  <2> SUFFICES ASSUME NEW n \in v13, n \in from .. to PROVE n \in present
    BY <1>1, <1>2 DEF V!RangeIsWhole
  <2>1. n \in DOMAIN v11
    BY <1>1 DEF DigitsInv, V!ReadsAreWhole
  <2>2. n \in from - 1 .. to
    BY <1>1, DigitsAssumed DEF DigitsInv, V!ReadsAreWhole
  <2> QED BY <2>1, <2>2, <1>3
<1>10. V!ReadsAreShown'
  BY <1>1 DEF DigitsInv, V!ReadsAreShown
<1>11. V!ReadsAreWhole'
  BY <1>1 DEF V!ReadsAreWhole
<1>12. ShownFollows'
  BY <1>1, ShownStays DEF DigitsInv
<1> HIDE DEF present, assigned, checked, good
<1> QED BY <1>7, <1>8, <1>9, <1>10, <1>11, <1>12 DEF DigitsInv

LEMMA DigitsNext == DigitsInv /\ [V!Next]_V!proofVars => DigitsInv'
<1> SUFFICES ASSUME DigitsInv, [V!Next]_V!proofVars PROVE DigitsInv'
  OBVIOUS
<1>0. /\ v5 \in 0 .. Digits.LastTick /\ v5 \in Nat /\ v4 \subseteq 1 .. v5 /\ v13 \subseteq v4
      /\ Digits.LastTick \in Nat /\ \A n \in 1 .. v5 : v3[n].price > 0
  BY DigitsAssumed DEF DigitsInv, V!ReadsAreShown
<1>1. CASE V!engine_advance
  <2>1. /\ v5 < Digits.LastTick /\ v3[v5 + 1].price > 0 /\ v5' = v5 + 1 /\ v4' = v4 \cup {v5 + 1}
        /\ UNCHANGED <<v1, v2, v3, v7, v8, v9, v10, v11, v12, v13>>
    BY <1>1 DEF V!engine_advance, V!engine, V!page
  <2>2. v5' \in v5 .. Digits.LastTick /\ v4' \subseteq 1 .. v5'
    <3>1. v5' \in v5 .. Digits.LastTick
      BY <1>0, <2>1
    <3>2. v5 + 1 \in 1 .. v5' /\ 1 .. v5 \subseteq 1 .. v5'
      BY <1>0, <2>1
    <3> QED BY <1>0, <2>1, <3>1, <3>2, Zenon
  <2>3. \A n \in 1 .. v5' : v3[n].price > 0
    <3>1. \A n \in 1 .. v5' : n \in 1 .. v5 \/ n = v5 + 1
      BY <1>0, <2>1
    <3> QED BY <1>0, <2>1, <3>1
  <2> QED BY <1>0, <2>1, <2>2, <2>3, EngineGoesOn
<1>2. CASE V!engine_reveal_due_epochs
  <2>1. UNCHANGED <<v1, v2, v3, v4, v5, v7, v8, v9, v10, v11, v12, v13>>
    BY <1>2 DEF V!engine_reveal_due_epochs, V!engine, V!page
  <2>2. v5' \in v5 .. Digits.LastTick
    BY <1>0, <2>1
  <2> QED BY <1>0, <2>1, <2>2, EngineGoesOn
<1>3. CASE V!engine_purge_ticks
  <2>1. /\ v4' \subseteq v4 /\ v13' = v13 \cap v4'
        /\ UNCHANGED <<v1, v2, v3, v5, v7, v8, v9, v10, v11, v12>>
    <3>1. \E day, named : v4' = v4 \ (day \ named)
      BY <1>3, Zenon DEF V!engine_purge_ticks
    <3> QED BY <1>3, <3>1 DEF V!engine_purge_ticks, V!engine
  <2>2. v5' \in v5 .. Digits.LastTick
    BY <1>0, <2>1
  <2> QED BY <1>0, <2>1, <2>2, EngineGoesOn
<1>4. CASE V!submit \/ V!readTicks \/ V!readProofs \/ V!callFails
  BY <1>4, DigitsSubmit, DigitsRead, DigitsProofs, DigitsFail
<1>5. CASE UNCHANGED V!proofVars
  <2>1. UNCHANGED <<v1, v2, v3, v4, v5, v7, v8, v9, v10, v11, v12, v13>>
    BY <1>5 DEF V!proofVars
  <2>2. v5' \in v5 .. Digits.LastTick
    BY <1>0, <2>1
  <2> QED BY <1>0, <2>1, <2>2, EngineGoesOn
<1> QED BY <1>1, <1>2, <1>3, <1>4, <1>5 DEF V!Next

-----------------------------------------------------------------------------
(* The arithmetic of version 3: the generator and the verifier compute the same            *)

\* What a quotient is.
LEMMA DivFacts ==
    ASSUME NEW n \in Int, NEW d \in Nat \ {0}
    PROVE  /\ n \div d \in Int /\ d * (n \div d) <= n /\ n < d * (n \div d) + d
           /\ n \in Nat => n \div d \in Nat
<1>1. n \div d \in Int
  OBVIOUS
<1>2. n % d \in 0 .. d - 1
  OBVIOUS
<1>3. n = d * (n \div d) + (n % d)
  OBVIOUS
<1>4. n \in Nat => n \div d \in Nat
  BY SMTT(30)
<1> DEFINE q == n \div d
           r == n % d
           p == d * q
<1>5. p \in Int
  BY <1>1
<1>6. p <= n /\ n < p + d
  <2> HIDE DEF q, r, p
  <2>1. n = p + r /\ r \in 0 .. d - 1
    BY <1>2, <1>3 DEF r, p, q
  <2> QED BY <2>1, <1>5
<1> QED BY <1>1, <1>4, <1>6

\* Half the sum of x and n / x lies above the root of n (the mean of two numbers is no less
\* than their geometric one).
LEMMA MeanAbove ==
    ASSUME NEW n \in Nat, NEW x \in Nat \ {0}
    PROVE  LET y == (x + n \div x) \div 2 IN y \in Nat /\ (y + 1) * (y + 1) > n
<1> DEFINE q == n \div x
           y == (x + q) \div 2
<1>1. q \in Nat /\ x * q <= n /\ n < x * q + x
  BY DivFacts
<1> HIDE DEF q
<1>2. y \in Nat /\ 2 * y + 2 >= x + q + 1
  BY <1>1
<1> HIDE DEF y
<1>3. \A a, b \in Nat : a >= b => a * a >= b * b
  BY SMTT(30)
<1>4. (2 * y + 2) * (2 * y + 2) >= (x + q + 1) * (x + q + 1)
  BY <1>1, <1>2, <1>3
<1>5. (x + (q + 1)) * (x + (q + 1)) >= 4 * (x * (q + 1))
  <2>1. \A a, b \in Int : (a + b) * (a + b) = (a - b) * (a - b) + 4 * (a * b)
    BY SMTT(30)
  <2>2. \A c \in Int : c * c >= 0
    BY SMTT(30)
  <2>3. x \in Int /\ q + 1 \in Int /\ x - (q + 1) \in Int
    BY <1>1
  <2>4. (x - (q + 1)) * (x - (q + 1)) >= 0
    BY <2>2, <2>3
  <2>5. (x + (q + 1)) * (x + (q + 1)) = (x - (q + 1)) * (x - (q + 1)) + 4 * (x * (q + 1))
    BY <2>1, <2>3
  <2>6. x * (q + 1) \in Int /\ (x - (q + 1)) * (x - (q + 1)) \in Int
    BY <2>3
  <2> QED BY <2>4, <2>5, <2>6
<1>6. x * (q + 1) = x * q + x
  BY <1>1
<1>7. (2 * y + 2) * (2 * y + 2) = 4 * ((y + 1) * (y + 1))
  BY <1>2
<1>8. x * q \in Nat /\ (y + 1) * (y + 1) \in Nat /\ x + (q + 1) = x + q + 1
  BY <1>1, <1>2
<1>9. (y + 1) * (y + 1) > n
  BY <1>1, <1>4, <1>5, <1>6, <1>7, <1>8
<1> QED BY <1>2, <1>9 DEF y, q

\* Newton's step does not fall only at or below the root.
LEMMA StopsBelow ==
    ASSUME NEW n \in Nat, NEW x \in Nat \ {0}, (x + n \div x) \div 2 >= x
    PROVE  x * x <= n
<1> DEFINE q == n \div x
<1>1. q \in Nat /\ x * q <= n
  BY DivFacts
<1>2. q >= x
  <2>1. (x + q) \div 2 >= x
    OBVIOUS
  <2> HIDE DEF q
  <2> QED BY <1>1, <2>1
<1> HIDE DEF q
<1>3. x * q >= x * x
  <2>1. \A a, b, c \in Nat : b <= c => a * b <= a * c
    BY SMTT(30)
  <2> QED BY <1>1, <1>2, <2>1
<1>4. x * x \in Nat /\ x * q \in Nat
  BY <1>1
<1> QED BY <1>1, <1>3, <1>4

\* The whole root of a number: there is one.
IsRoot(r, n) == r \in Nat /\ r * r <= n /\ n < (r + 1) * (r + 1)

LEMMA RootIsOne ==
    ASSUME NEW n \in Nat, NEW r, NEW s, IsRoot(r, n), IsRoot(s, n)
    PROVE  r = s
<1>1. \A a, b \in Nat : a < b => (a + 1) * (a + 1) <= b * b
  <2>1. \A a, b \in Nat : a <= b => a * a <= b * b
    BY SMTT(30)
  <2> QED BY <2>1
<1>2. r \in Nat /\ s \in Nat /\ r * r \in Nat /\ s * s \in Nat /\ (r + 1) * (r + 1) \in Nat /\ (s + 1) * (s + 1) \in Nat
  BY DEF IsRoot
<1>3. ~(r < s)
  BY <1>1, <1>2 DEF IsRoot
<1>4. ~(s < r)
  BY <1>1, <1>2 DEF IsRoot
<1> QED BY <1>2, <1>3, <1>4
\* Newton's iteration, step by step: there is a function that runs it on 1 .. n, by least
\* counterexample, and what it returns is the root.
LEMMA NewtonFindsRoot ==
    ASSUME NEW n \in Nat
    PROVE  IsRoot(isqrt(n), n)
<1> DEFINE y(x) == (x + n \div x) \div 2
           Step(f, x) == IF y(x) < x THEN f[y(x)] ELSE x
           Built(k) == \E f : f = [x \in 1 .. k |-> Step(f, x)]
           Unbuilt == {k \in Nat : ~Built(k)}
<1>1. Built(0)
  <2> WITNESS [x \in 1 .. 0 |-> 0]
  <2> QED OBVIOUS
<1>y. \A x \in Nat \ {0} : y(x) \in Nat /\ (y(x) + 1) * (y(x) + 1) > n
  BY MeanAbove
<1>z. n >= 2 => \A x \in Nat \ {0} : y(x) < x => y(x) # 0
  <2> SUFFICES ASSUME n >= 2, NEW x \in Nat \ {0}, y(x) = 0 PROVE FALSE
    BY <1>y
  <2>1. (y(x) + 1) * (y(x) + 1) > n
    BY <1>y
  <2> HIDE DEF y
  <2> QED BY <2>1
<1>2. ASSUME n >= 2, NEW k \in Nat, Built(k) PROVE Built(k + 1)
  <2>1. PICK f : f = [x \in 1 .. k |-> Step(f, x)]
    BY <1>2
  <2> DEFINE g == [x \in 1 .. k + 1 |-> Step(f, x)]
  <2>2. \A x \in 1 .. k : g[x] = f[x]
    <3> HIDE DEF Step
    <3>1. \A x \in 1 .. k : f[x] = Step(f, x) /\ x \in 1 .. k + 1
      BY <2>1
    <3> QED BY <3>1
  <2>3. \A x \in 1 .. k + 1 : Step(f, x) = Step(g, x)
    <3> SUFFICES ASSUME NEW x \in 1 .. k + 1, y(x) < x PROVE f[y(x)] = g[y(x)]
      BY Zenon
    <3>1. y(x) \in Nat /\ y(x) # 0
      BY <1>2, <1>y, <1>z
    <3> HIDE DEF y, g
    <3> QED BY <3>1, <2>2
  <2>4. g = [x \in 1 .. k + 1 |-> Step(g, x)]
    <3> HIDE DEF Step
    <3> QED BY <2>3
  <2> QED BY <2>4, Zenon
<1>3. CASE n < 2
  <2>1. isqrt(n) = n
    BY <1>3 DEF isqrt
  <2> QED BY <1>3, <2>1 DEF IsRoot
<1>4. CASE n >= 2
  <2>1. Built(n)
    <3> SUFFICES ASSUME Unbuilt # {} PROVE FALSE
      OBVIOUS
    <3> HIDE DEF Built
    <3>1. PICK k \in Unbuilt : \A q \in Unbuilt : k <= q
      BY FirstNumber
    <3>2. k \in Nat /\ k # 0 /\ ~Built(k)
      BY <1>1
    <3>3. k - 1 \in Nat /\ k - 1 \notin Unbuilt /\ k = (k - 1) + 1
      BY <3>1, <3>2
    <3> QED BY <1>2, <1>4, <3>2, <3>3
  <2> DEFINE down == CHOOSE f : f = [x \in 1 .. n |-> Step(f, x)]
  <2>2. down = [x \in 1 .. n |-> Step(down, x)]
    BY <2>1, Zenon
  <2>3. isqrt(n) = down[n]
    BY <1>4 DEF isqrt
  <2> HIDE DEF down
  <2> DEFINE Bad == {x \in 1 .. n : (x + 1) * (x + 1) > n /\ ~IsRoot(down[x], n)}
  <2>4. Bad = {}
    <3> SUFFICES ASSUME Bad # {} PROVE FALSE
      OBVIOUS
    <3>0. Bad \in SUBSET Nat
      OBVIOUS
    <3>1. PICK x \in Bad : \A z \in Bad : x <= z
      <4> HIDE DEF Bad
      <4> QED BY <3>0, FirstNumber
    <3>2. x \in 1 .. n /\ (x + 1) * (x + 1) > n /\ ~IsRoot(down[x], n) /\ x \in Nat \ {0}
      OBVIOUS
    <3>3. down[x] = Step(down, x)
      BY <2>2, <3>2
    <3>4. CASE y(x) < x
      <4>1. y(x) \in 1 .. n /\ (y(x) + 1) * (y(x) + 1) > n
        <5>1. y(x) \in Nat /\ (y(x) + 1) * (y(x) + 1) > n /\ y(x) # 0
          BY <1>4, <1>y, <1>z, <3>2, <3>4
        <5> HIDE DEF y
        <5> QED BY <3>2, <3>4, <5>1
      <4>2. down[x] = down[y(x)]
        BY <3>3, <3>4
      <4>3. y(x) \notin Bad
        <5>1. y(x) \in Nat
          BY <4>1
        <5> HIDE DEF y
        <5> QED BY <3>1, <3>2, <3>4, <5>1
      <4> HIDE DEF y
      <4> QED BY <3>2, <4>1, <4>2, <4>3
    <3>5. CASE ~(y(x) < x)
      <4>1. down[x] = x
        BY <3>3, <3>5
      <4>2. y(x) >= x
        <5>1. y(x) \in Nat
          BY <1>y, <3>2
        <5> HIDE DEF y
        <5> QED BY <3>2, <3>5, <5>1
      <4>3. x * x <= n
        BY <3>2, <4>2, StopsBelow
      <4> QED BY <3>2, <4>1, <4>3 DEF IsRoot
    <3> QED BY <3>4, <3>5
  <2>5. (n + 1) * (n + 1) > n /\ n \in 1 .. n
    <3>1. (n + 1) * (n + 1) = n * n + 2 * n + 1 /\ n * n \in Nat
      BY SMTT(30)
    <3> QED BY <1>4, <3>1
  <2> QED BY <2>3, <2>4, <2>5
<1> QED BY <1>3, <1>4
\* Bisection, step by step: it runs on pairs ever closer, and what it returns is the root.
LEMMA BisectionFindsRoot ==
    ASSUME NEW vol, Variance(vol) \in Nat
    PROVE  IsRoot(perTickSigma(vol), Variance(vol))
<1> DEFINE t == Variance(vol)
           Pairs(k) == {i \in (1 .. t) \X (1 .. t) : i[2] <= i[1] + k}
           mid(i) == (i[1] + i[2] + 1) \div 2
           Step(f, i) == IF i[1] >= i[2] THEN i[1]
                         ELSE IF mid(i) * mid(i) <= t THEN f[<<mid(i), i[2]>>] ELSE f[<<i[1], mid(i) - 1>>]
           Built(k) == \E f : f = [i \in Pairs(k) |-> Step(f, i)]
           Unbuilt == {k \in Nat : ~Built(k)}
<1>t. t \in Nat
  OBVIOUS
<1>1. Built(0)
  <2> DEFINE f == [i \in Pairs(0) |-> i[1]]
  <2>1. \A i \in Pairs(0) : Step(f, i) = i[1]
    <3>1. \A i \in Pairs(0) : i[1] \in Nat /\ i[2] \in Nat /\ i[2] <= i[1] + 0
      BY <1>t
    <3> HIDE DEF f, Pairs
    <3> QED BY <3>1
  <2>2. f = [i \in Pairs(0) |-> Step(f, i)]
    <3> HIDE DEF Step, Pairs
    <3> QED BY <2>1
  <2> QED BY <2>2, Zenon
<1>m. ASSUME NEW k \in Nat, NEW i \in Pairs(k + 1), ~(i[1] >= i[2])
      PROVE  /\ <<mid(i), i[2]>> \in Pairs(k) /\ <<i[1], mid(i) - 1>> \in Pairs(k)
             /\ mid(i) \in Nat /\ i[1] < mid(i) /\ mid(i) <= i[2]
  <2>1. i[1] \in 1 .. t /\ i[2] \in 1 .. t /\ i[2] <= i[1] + (k + 1) /\ i = <<i[1], i[2]>>
    OBVIOUS
  <2> DEFINE lo == i[1]
             hi == i[2]
             m == (lo + hi + 1) \div 2
  <2> HIDE DEF lo, hi
  <2>2. lo \in 1 .. t /\ hi \in 1 .. t /\ hi <= lo + (k + 1) /\ ~(lo >= hi)
    BY <2>1, <1>m DEF lo, hi
  <2>3. m \in Nat /\ lo < m /\ m <= hi
    BY <2>2, <1>t
  <2> HIDE DEF t, m
  <2>4. m \in 1 .. t /\ m - 1 \in 1 .. t /\ hi <= m + k /\ m - 1 <= lo + k
    BY <2>2, <2>3, <1>t
  <2> QED BY <2>2, <2>3, <2>4 DEF lo, hi, m
<1>2. ASSUME NEW k \in Nat, Built(k) PROVE Built(k + 1)
  <2>1. PICK f : f = [i \in Pairs(k) |-> Step(f, i)]
    BY <1>2
  <2> DEFINE g == [i \in Pairs(k + 1) |-> Step(f, i)]
  <2>2. \A i \in Pairs(k) : g[i] = f[i]
    <3>1. \A i \in Pairs(k) : i \in Pairs(k + 1)
      BY <1>t
    <3> HIDE DEF Step, Pairs
    <3>2. \A i \in Pairs(k) : f[i] = Step(f, i)
      BY <2>1
    <3> QED BY <3>1, <3>2
  <2>3. \A i \in Pairs(k + 1) : Step(f, i) = Step(g, i)
    <3> SUFFICES ASSUME NEW i \in Pairs(k + 1), ~(i[1] >= i[2])
                 PROVE  f[<<mid(i), i[2]>>] = g[<<mid(i), i[2]>>] /\ f[<<i[1], mid(i) - 1>>] = g[<<i[1], mid(i) - 1>>]
      <4> HIDE DEF Pairs, g, mid
      <4> QED BY Zenon
    <3>1. <<mid(i), i[2]>> \in Pairs(k) /\ <<i[1], mid(i) - 1>> \in Pairs(k)
      BY <1>m
    <3> HIDE DEF Pairs, g, mid
    <3> QED BY <3>1, <2>2
  <2>4. g = [i \in Pairs(k + 1) |-> Step(g, i)]
    <3> HIDE DEF Step, Pairs
    <3> QED BY <2>3
  <2> QED BY <2>4, Zenon
<1>3. Built(t)
  <2> SUFFICES ASSUME Unbuilt # {} PROVE FALSE
    BY <1>t
  <2> HIDE DEF Built
  <2>1. PICK k \in Unbuilt : \A q \in Unbuilt : k <= q
    BY FirstNumber
  <2>2. k \in Nat /\ k # 0 /\ ~Built(k)
    BY <1>1
  <2>3. k - 1 \in Nat /\ k - 1 \notin Unbuilt /\ k = (k - 1) + 1
    BY <2>1, <2>2
  <2> QED BY <1>2, <2>2, <2>3
<1>4. Pairs(t) = (1 .. t) \X (1 .. t)
  <2>1. \A i \in (1 .. t) \X (1 .. t) : i[2] <= i[1] + t
    BY <1>t
  <2> QED BY <2>1
<1> DEFINE Found(D) == CHOOSE f : f = [i \in D |-> Step(f, i)]
           find == Found(Pairs(t))
<1>5. find = [i \in Pairs(t) |-> Step(find, i)]
  BY <1>3, Zenon
<1>6. perTickSigma(vol) = IF t < 2 THEN t ELSE find[<<1, t>>]
  <2>1. perTickSigma(vol) = IF t < 2 THEN t ELSE Found((1 .. t) \X (1 .. t))[<<1, t>>]
    BY DEF perTickSigma
  <2> HIDE DEF Found, Pairs
  <2> QED BY <2>1, <1>4
<1> HIDE DEF find
<1> DEFINE Bad == {k \in Nat : \E i \in Pairs(k) : /\ i[1] <= i[2] /\ i[1] * i[1] <= t /\ t < (i[2] + 1) * (i[2] + 1)
                                                   /\ ~IsRoot(find[i], t)}
<1>7. Bad = {}
  <2> SUFFICES ASSUME Bad # {} PROVE FALSE
    OBVIOUS
  <2>0. Bad \in SUBSET Nat
    OBVIOUS
  <2>1. PICK k \in Bad : \A q \in Bad : k <= q
    <3> HIDE DEF Bad
    <3> QED BY <2>0, FirstNumber
  <2>2. PICK i \in Pairs(k) : /\ i[1] <= i[2] /\ i[1] * i[1] <= t /\ t < (i[2] + 1) * (i[2] + 1)
                              /\ ~IsRoot(find[i], t)
    BY <2>1
  <2>3. i[1] \in Nat /\ i[2] \in Nat /\ i[2] <= i[1] + k /\ k \in Nat /\ i \in Pairs(t)
    BY <2>2, <1>4, <1>t
  <2>4. find[i] = Step(find, i)
    <3> HIDE DEF Step, Pairs
    <3> QED BY <2>3, <1>5
  <2>5. CASE i[1] >= i[2]
    <3>1. find[i] = i[1] /\ i[1] = i[2]
      BY <2>2, <2>3, <2>4, <2>5
    <3> QED BY <2>2, <2>3, <3>1 DEF IsRoot
  <2>6. CASE ~(i[1] >= i[2])
    <3>1. k # 0 /\ k - 1 \in Nat /\ k = (k - 1) + 1
      BY <2>3, <2>6
    <3>2. k - 1 \notin Bad
      <4> HIDE DEF Bad
      <4> QED BY <2>1, <3>1, <2>3
    <3>3. /\ <<mid(i), i[2]>> \in Pairs(k - 1) /\ <<i[1], mid(i) - 1>> \in Pairs(k - 1)
          /\ mid(i) \in Nat /\ i[1] < mid(i) /\ mid(i) <= i[2]
      <4> HIDE DEF Pairs, mid
      <4> QED BY <1>m, <2>2, <2>6, <3>1
    <3>4. \A j \in Pairs(k - 1) : j[1] <= j[2] /\ j[1] * j[1] <= t /\ t < (j[2] + 1) * (j[2] + 1) => IsRoot(find[j], t)
      <4> HIDE DEF Pairs
      <4> QED BY <3>1, <3>2
    <3>5. CASE mid(i) * mid(i) <= t
      <4> DEFINE j == <<mid(i), i[2]>>
      <4>1. find[i] = find[j]
        BY <2>4, <2>6, <3>5
      <4>2. j \in Pairs(k - 1) /\ j[1] = mid(i) /\ j[2] = i[2]
        <5> HIDE DEF Pairs, mid
        <5> QED BY <3>3
      <4> HIDE DEF j, Pairs, mid
      <4> QED BY <2>2, <3>3, <3>4, <3>5, <4>1, <4>2
    <3>6. CASE ~(mid(i) * mid(i) <= t)
      <4> DEFINE j == <<i[1], mid(i) - 1>>
      <4>1. find[i] = find[j]
        BY <2>4, <2>6, <3>6
      <4>2. j \in Pairs(k - 1) /\ j[1] = i[1] /\ j[2] = mid(i) - 1
        <5> HIDE DEF Pairs, mid
        <5> QED BY <3>3
      <4> DEFINE m == mid(i)
      <4> HIDE DEF j, Pairs, mid
      <4>3. m * m \in Nat /\ (m - 1) + 1 = m
        BY <3>3
      <4>4. t < ((m - 1) + 1) * ((m - 1) + 1)
        BY <4>3, <3>6, <1>t
      <4> QED BY <2>2, <2>3, <3>3, <3>4, <4>1, <4>2, <4>4
    <3> QED BY <3>5, <3>6
  <2> QED BY <2>5, <2>6
<1>8. CASE t < 2
  BY <1>6, <1>8, <1>t DEF IsRoot
<1>9. CASE t >= 2
  <2> DEFINE i == <<1, t>>
  <2>1. i \in Pairs(t) /\ i[1] = 1 /\ i[2] = t
    BY <1>4, <1>9, <1>t
  <2>2. 1 * 1 <= t /\ t < (t + 1) * (t + 1)
    <3>1. (t + 1) * (t + 1) = t * t + 2 * t + 1 /\ t * t \in Nat
      <4> HIDE DEF t
      <4> QED BY <1>t, SMTT(30)
    <3> HIDE DEF t
    <3> QED BY <1>9, <1>t, <3>1
  <2>3. t \notin Bad
    BY <1>7
  <2> HIDE DEF i, Pairs
  <2>4. IsRoot(find[i], t)
    <3> HIDE DEF t
    <3> QED BY <2>1, <2>2, <2>3, <1>9, <1>t
  <2> QED BY <1>6, <1>9, <1>t, <2>4 DEF i
<1> QED BY <1>8, <1>9, <1>t

\* The generator and the verifier get the same volatility of a tick.
LEMMA SigmasAgree ==
    ASSUME NEW vol, Variance(vol) \in Nat
    PROVE  sigmaE12(vol) = perTickSigma(vol) /\ sigmaE12(vol) \in Nat
BY NewtonFindsRoot, BisectionFindsRoot, RootIsOne DEF sigmaE12, IsRoot
\* A quotient is known by its remainder.
LEMMA DivOf ==
    ASSUME NEW d \in Nat \ {0}, NEW e \in Int, NEW r \in 0 .. d - 1
    PROVE  (d * e + r) \div d = e
<1> DEFINE n == d * e + r
           q == n \div d
<1>1. n \in Int
  OBVIOUS
<1>2. q \in Int /\ d * q <= n /\ n < d * q + d
  <2> HIDE DEF n
  <2> QED BY <1>1, DivFacts
<1> HIDE DEF q
<1>3. \A a, b \in Int : a < b => d * a + d <= d * b
  <2>1. \A a, b \in Int : a <= b => d * a <= d * b
    BY SMTT(30)
  <2>2. \A a \in Int : d * (a + 1) = d * a + d
    OBVIOUS
  <2> QED BY <2>1, <2>2
<1>4. d * e \in Int /\ d * q \in Int
  BY <1>2
<1>5. ~(q < e) /\ ~(e < q)
  BY <1>2, <1>3, <1>4
<1> QED BY <1>2, <1>5 DEF q

\* The quotient of BigInts, stepped down for negative numbers, is the quotient; and the
\* verifier's is the same.
LEMMA FloorsAgree ==
    ASSUME NEW a \in Int, NEW b \in Nat \ {0}
    PROVE  floorDiv(a, b) = a \div b /\ floorPositive(a, b) = a \div b
<1>1. CASE a >= 0
  <2>1. Truncated(a, b) = a \div b
    BY <1>1 DEF Truncated, Abs
  <2> QED BY <1>1, <2>1 DEF floorDiv, floorPositive
<1>2. CASE a < 0
  <2> DEFINE c == -a
             q == c \div b
  <2>1. c \in Nat \ {0} /\ q \in Nat /\ b * q <= c /\ c < b * q + b
    BY <1>2, DivFacts
  <2>2. Truncated(a, b) = -q
    BY <1>2 DEF Truncated, Abs
  <2>3. CASE b * q = c
    <3>1. a \div b = -q
      <4>1. \A d \in Nat \ {0}, e \in Int : (d * e) \div d = e
        BY SMTT(30)
      <4>2. a = b * (-q)
        <5> HIDE DEF q
        <5> QED BY <2>1, <2>3
      <4> HIDE DEF q
      <4> QED BY <4>1, <4>2, <2>1
    <3>2. floorDiv(a, b) = -q
      <4>1. a = b * (-q)
        <5> HIDE DEF q
        <5> QED BY <2>1, <2>3
      <4> HIDE DEF q
      <4> QED BY <4>1, <2>2 DEF floorDiv
    <3>3. floorPositive(a, b) = -q
      <4>1. (c + b - 1) \div b = q
        <5> HIDE DEF q
        <5>1. q \in Int /\ c + b - 1 = b * q + (b - 1) /\ b - 1 \in 0 .. b - 1
          BY <2>1, <2>3
        <5> HIDE DEF c
        <5> QED BY <5>1, DivOf
      <4>2. floorPositive(a, b) = -Truncated(c + b - 1, b)
        BY <1>2 DEF floorPositive
      <4>3. Truncated(c + b - 1, b) = (c + b - 1) \div b
        <5> HIDE DEF c
        <5> QED BY <2>1 DEF Truncated, Abs
      <4> QED BY <4>1, <4>2, <4>3
    <3> QED BY <3>1, <3>2, <3>3
  <2>4. CASE b * q # c
    <3> DEFINE r == c - b * q
    <3>1. r \in 1 .. b - 1 /\ c = b * q + r
      <4> HIDE DEF q, c
      <4>1. b * q \in Int
        BY <2>1
      <4> QED BY <2>1, <2>4, <4>1
    <3>2. a \div b = -q - 1
      <4>1. a = b * (-q - 1) + (b - r) /\ b - r \in 0 .. b - 1 /\ -q - 1 \in Int
        <5> HIDE DEF q, r
        <5>1. b * q \in Int /\ b * (-q - 1) = -(b * q) - b
          BY <2>1
        <5> QED BY <2>1, <3>1, <5>1
      <4> HIDE DEF q, r
      <4> QED BY <4>1, DivOf
    <3>3. floorDiv(a, b) = -q - 1
      <4>1. a # b * (-q)
        <5> HIDE DEF q
        <5> QED BY <2>1, <2>4
      <4> HIDE DEF q
      <4> QED BY <4>1, <2>2, <1>2 DEF floorDiv
    <3>4. floorPositive(a, b) = -q - 1
      <4>1. (c + b - 1) \div b = q + 1
        <5>1. c + b - 1 = b * (q + 1) + (r - 1) /\ r - 1 \in 0 .. b - 1 /\ q + 1 \in Int
          <6> HIDE DEF q, r, c
          <6>1. b * q \in Int /\ b * (q + 1) = b * q + b
            BY <2>1
          <6> QED BY <2>1, <3>1, <6>1
        <5> HIDE DEF q, r, c
        <5> QED BY <5>1, DivOf
      <4>2. floorPositive(a, b) = -Truncated(c + b - 1, b)
        BY <1>2 DEF floorPositive
      <4>3. Truncated(c + b - 1, b) = (c + b - 1) \div b
        <5> HIDE DEF c
        <5> QED BY <2>1 DEF Truncated, Abs
      <4>4. q \in Int
        BY <2>1
      <4> HIDE DEF q, c
      <4> QED BY <4>1, <4>2, <4>3, <4>4
    <3> QED BY <3>2, <3>3, <3>4
  <2> QED BY <2>3, <2>4
<1> QED BY <1>1, <1>2
\* A configuration, a price and a draw as the generator has them.
Drawn(e, last, draw) ==
    /\ e.sigma \in Nat /\ e.kappa \in Nat /\ e.anchor \in Nat /\ last \in Int
    /\ draw.z \in -ZMax .. ZMax /\ draw.residue \in 0 .. 9 /\ draw.parity \in 0 .. 1

LEMMA DrawnNumbers ==
    ASSUME NEW e, NEW last, NEW draw, Drawn(e, last, draw)
    PROVE  /\ E12 * ZScale \in Nat \ {0} /\ ZMax \in Nat
           /\ last * e.sigma * draw.z + e.kappa * (e.anchor - last) * ZScale \in Int
<1>1. E12 \in Nat \ {0} /\ ZScale \in Nat \ {0} /\ ZMax \in Nat
  BY Scales DEF Scales
<1>2. \A a, b \in Nat \ {0} : a * b \in Nat \ {0}
  BY SMTT(30)
<1>3. \A a, b, c, f, g \in Int : a * b * c + f * g * ZScale \in Int
  BY <1>1
<1>4. last \in Int /\ e.sigma \in Int /\ draw.z \in Int /\ e.kappa \in Int /\ e.anchor - last \in Int
  BY <1>1 DEF Drawn
<1> QED BY <1>1, <1>2, <1>3, <1>4, Zenon

\* The verifier gets the generator's price from the same draw.
LEMMA UnitsAgree ==
    ASSUME NEW e, NEW last, NEW draw, Drawn(e, last, draw)
    PROVE  transition(e, last, draw) = expectedUnits(e, last, draw) /\ transition(e, last, draw) \in Int
<1> DEFINE den == E12 * ZScale
           num == last * e.sigma * draw.z + e.kappa * (e.anchor - last) * ZScale
<1>1. den \in Nat \ {0} /\ num \in Int
  BY DrawnNumbers
<1> HIDE DEF den, num
<1>2. num + 5 * den \in Int /\ 10 * den \in Nat \ {0}
  BY <1>1
<1>3. floorDiv(num + 5 * den, 10 * den) = floorPositive(num + 5 * den, 10 * den)
      /\ floorDiv(num + 5 * den, 10 * den) \in Int
  BY <1>2, FloorsAgree, DivFacts
<1>4. transition(e, last, draw) = last + 10 * floorDiv(num + 5 * den, 10 * den) + draw.residue - 4 - draw.parity
  BY DEF transition, num, den
<1>5. expectedUnits(e, last, draw) = last + 10 * floorPositive(num + 5 * den, 10 * den) + draw.residue - 4 - draw.parity
  BY DEF expectedUnits, num, den
<1>6. draw.residue \in Int /\ draw.parity \in Int /\ last \in Int
  BY DEF Drawn
<1> QED BY <1>3, <1>4, <1>5, <1>6

\* No draw moves a price by more than the limit: half a step of ten up or down may be
\* rounded away, and the last digit adds at most five.
LEMMA WithinLimit ==
    ASSUME NEW e, NEW last \in Nat, NEW draw, Drawn(e, last, draw)
    PROVE  Abs(transition(e, last, draw) - last) <= maxMoveUnits(e, last)
<1> DEFINE den == E12 * ZScale
           num == last * e.sigma * draw.z + e.kappa * (e.anchor - last) * ZScale
           most == last * e.sigma * ZMax + e.kappa * Abs(e.anchor - last) * ZScale
           q == (num + 5 * den) \div (10 * den)
           Q == (most + 5 * den) \div (10 * den)
<1>1. den \in Nat \ {0} /\ num \in Int
  BY DrawnNumbers
<1>2. most \in Int /\ -most <= num /\ num <= most
  <2>1. last * e.sigma \in Nat /\ ZMax \in Nat /\ draw.z \in -ZMax .. ZMax /\ ZScale \in Nat
    BY Scales DEF Drawn, Scales
  <2>2. \A a, m \in Nat, z \in Int : -m <= z /\ z <= m => -(a * m) <= a * z /\ a * z <= a * m /\ a * m \in Nat /\ a * z \in Int
    BY SMTT(30)
  <2>3. /\ -(last * e.sigma * ZMax) <= last * e.sigma * draw.z /\ last * e.sigma * draw.z <= last * e.sigma * ZMax
        /\ last * e.sigma * ZMax \in Nat /\ last * e.sigma * draw.z \in Int
    BY <2>1, <2>2
  <2>4. Abs(e.anchor - last) \in Nat /\ e.kappa \in Nat /\ e.anchor - last \in Int
        /\ -Abs(e.anchor - last) <= e.anchor - last /\ e.anchor - last <= Abs(e.anchor - last)
    BY DEF Drawn, Abs
  <2>5. \A k, x, w \in Nat, y \in Int : -x <= y /\ y <= x => -(k * x * w) <= k * y * w /\ k * y * w <= k * x * w
                                                           /\ k * x * w \in Nat /\ k * y * w \in Int
    <3> SUFFICES ASSUME NEW k \in Nat, NEW x \in Nat, NEW w \in Nat, NEW y \in Int, -x <= y, y <= x
                 PROVE  -(k * x * w) <= k * y * w /\ k * y * w <= k * x * w /\ k * x * w \in Nat /\ k * y * w \in Int
      OBVIOUS
    <3>1. -(k * x) <= k * y /\ k * y <= k * x /\ k * x \in Nat /\ k * y \in Int
      BY <2>2
    <3>2. -(w * (k * x)) <= w * (k * y) /\ w * (k * y) <= w * (k * x) /\ w * (k * x) \in Nat /\ w * (k * y) \in Int
      BY <2>2, <3>1
    <3> QED BY <3>1, <3>2
  <2>6. /\ -(e.kappa * Abs(e.anchor - last) * ZScale) <= e.kappa * (e.anchor - last) * ZScale
        /\ e.kappa * (e.anchor - last) * ZScale <= e.kappa * Abs(e.anchor - last) * ZScale
        /\ e.kappa * Abs(e.anchor - last) * ZScale \in Nat /\ e.kappa * (e.anchor - last) * ZScale \in Int
    BY <2>1, <2>4, <2>5
  <2> QED BY <2>3, <2>6
<1>3. maxMoveUnits(e, last) = 10 * Q + 5
  <2>1. maxMoveUnits(e, last) = 10 * floorDiv(most + 5 * den, 10 * den) + 5
    BY DEF maxMoveUnits
  <2> HIDE DEF most, den
  <2>2. most + 5 * den \in Int /\ 10 * den \in Nat \ {0}
    BY <1>1, <1>2
  <2> QED BY <2>1, <2>2, FloorsAgree
<1>4. transition(e, last, draw) = last + 10 * q + draw.residue - 4 - draw.parity
  <2>1. transition(e, last, draw) = last + 10 * floorDiv(num + 5 * den, 10 * den) + draw.residue - 4 - draw.parity
    BY DEF transition
  <2> HIDE DEF num, den
  <2>2. num + 5 * den \in Int /\ 10 * den \in Nat \ {0}
    BY <1>1
  <2> QED BY <2>1, <2>2, FloorsAgree
<1> HIDE DEF den, num, most
<1>5. /\ q \in Int /\ (10 * den) * q <= num + 5 * den /\ num + 5 * den < (10 * den) * q + 10 * den
      /\ Q \in Int /\ (10 * den) * Q <= most + 5 * den /\ most + 5 * den < (10 * den) * Q + 10 * den
  <2>1. 10 * den \in Nat \ {0} /\ num + 5 * den \in Int /\ most + 5 * den \in Int
    BY <1>1, <1>2
  <2> QED BY <2>1, DivFacts
<1> HIDE DEF q, Q
<1>6. q <= Q /\ -Q <= q
  <2> DEFINE d == 10 * den
  <2>1. d \in Nat \ {0} /\ d * q \in Int /\ d * Q \in Int /\ 5 * den + 5 * den = d
    BY <1>1, <1>5
  <2>2. d * q < d * Q + d /\ d * q + d * Q + d > 0
    <3> DEFINE a == d * q
               b == d * Q
    <3> HIDE DEF a, b
    <3>1. a \in Int /\ b \in Int /\ a <= num + 5 * den /\ num + 5 * den < a + d /\ b <= most + 5 * den /\ most + 5 * den < b + d
      BY <1>5, <2>1 DEF a, b
    <3>2. a < b + d /\ a + b + d > 0
      BY <3>1, <1>1, <1>2
    <3> QED BY <3>2 DEF a, b
  <2>3. \A x, y \in Int : d * x < d * y => x < y
    <3> HIDE DEF d
    <3>1. \A x, y \in Int : y <= x => d * y <= d * x
      BY <2>1, SMTT(30)
    <3>2. \A x \in Int : d * x \in Int
      BY <2>1
    <3> QED BY <3>1, <3>2
  <2> HIDE DEF d
  <2>4. d * q < d * (Q + 1) /\ d * (-q) < d * (Q + 1)
    BY <2>1, <2>2, <1>5
  <2>5. q < Q + 1 /\ -q < Q + 1
    BY <2>3, <2>4, <1>5
  <2> QED BY <2>5, <1>5
<1>7. draw.residue \in 0 .. 9 /\ draw.parity \in 0 .. 1
  BY DEF Drawn
<1> QED BY <1>3, <1>4, <1>5, <1>6, <1>7 DEF Abs
-----------------------------------------------------------------------------
(* What the generator of version 3 makes: its prices, commitments and chain are the       *)
(* functions their recursive definitions say, by least counterexample.                    *)

LastDay == (1 + LastTick * Interval) \div Day

LEMMA Extent == LastTick \in Nat \ {0} /\ LastDay \in Nat /\ Days = 0 .. LastDay
<1>1. Day \in Nat \ {0} /\ LastTick \in Nat \ {0} /\ Interval \in Nat \ {0}
  BY Scales, Bounds DEF Scales, Bounds
<1>2. 1 + LastTick * Interval \in Nat
  BY <1>1
<1>3. LastDay \in Nat
  <2> DEFINE x == 1 + LastTick * Interval
  <2> HIDE DEF x
  <2>1. x \in Nat => x \div Day \in Nat
    BY <1>1, DivFacts
  <2> QED BY <1>2, <2>1 DEF x, LastDay
<1> QED BY <1>1, <1>3 DEF Days, LastDay

\* The price of tick n after those of f; the commitment of day d; the tick n of the chain.
PriceStep(h, f, n) ==
    IF n = 0 THEN [state |-> "on", prev |-> Anchor, price |-> Anchor]
    ELSE LET last == IF Resumes(h, n) THEN ResumeUnits(f[n - 1].price, h.k) ELSE f[n - 1].price
             next == transition(FirstConfig(h), last, SeedDraw(h, n))
         IN IF f[n - 1].state # "on" \/ Skipped(h, n) THEN f[n - 1]
            ELSE [state |-> IF Abs(next - last) > maxMoveUnits(FirstConfig(h), last) THEN "limit"
                             ELSE IF InBand(FirstConfig(h), next) THEN "on" ELSE "band",
                  prev |-> last, price |-> next]
ChainStep(h, config, f, d) ==
    LET prev == IF d = 0 THEN Zero ELSE f[d - 1].commitment
    IN [seedHash |-> h.seeds[d + 1], cfg |-> config[d], prev |-> prev,
        commitment |-> commitmentHash(d, h.seeds[d + 1], config[d], prev)]
TickStep(h, prices, ledger, f, n) ==
    IF n = 0 THEN [hash |-> genesisHash(ledger[0].cfg)]
    ELSE IF prices[n].state # "on" \/ Skipped(h, n) THEN f[n - 1]
    ELSE Sealed([hash |-> Zero, no |-> n, at |-> scheduledMs(ledger[DayOf(h, n)].cfg, n), day |-> DayOf(h, n),
                 prev |-> prices[n].prev, price |-> prices[n].price, digit |-> prices[n].price % 10,
                 cfg |-> ledger[DayOf(h, n)].cfg, commitment |-> ledger[DayOf(h, n)].commitment,
                 prevHash |-> IF Resumes(h, n) THEN genesisHash(ledger[DayOf(h, n)].cfg) ELSE f[n - 1].hash])
AllTicks(h, prices, ledger) == CHOOSE f : f = [n \in 0 .. LastTick |-> TickStep(h, prices, ledger, f, n)]

\* The prices of a history.
LEMMA PricesAre ==
    ASSUME NEW h
    PROVE  Prices(h) = [n \in 0 .. LastTick |-> PriceStep(h, Prices(h), n)]
<1> DEFINE Built(k) == \E f : f = [n \in 0 .. k |-> PriceStep(h, f, n)]
           Unbuilt == {k \in Nat : ~Built(k)}
<1>1. Built(0)
  <2> DEFINE base == [state |-> "on", prev |-> Anchor, price |-> Anchor]
             f == [n \in 0 .. 0 |-> base]
  <2>1. \A n \in 0 .. 0 : PriceStep(h, f, n) = base
    <3> HIDE DEF f
    <3>1. PriceStep(h, f, 0) = base
      BY Zenon DEF PriceStep
    <3> QED BY <3>1
  <2> HIDE DEF base
  <2>2. f = [n \in 0 .. 0 |-> PriceStep(h, f, n)]
    BY <2>1
  <2> QED BY <2>2, Zenon
<1>2. ASSUME NEW k \in Nat, Built(k) PROVE Built(k + 1)
  <2>1. PICK f : f = [n \in 0 .. k |-> PriceStep(h, f, n)]
    BY <1>2
  <2> DEFINE g == [n \in 0 .. k + 1 |-> PriceStep(h, f, n)]
  <2>2. \A n \in 0 .. k : g[n] = f[n]
    <3>1. \A n \in 0 .. k : f[n] = PriceStep(h, f, n) /\ n \in 0 .. k + 1
      BY <2>1
    <3> QED BY <3>1
  <2>3. \A n \in 0 .. k + 1 : PriceStep(h, f, n) = PriceStep(h, g, n)
    <3> SUFFICES ASSUME NEW n \in 0 .. k + 1 PROVE PriceStep(h, f, n) = PriceStep(h, g, n)
      OBVIOUS
    <3>1. n = 0 \/ n - 1 \in 0 .. k
      OBVIOUS
    <3>2. n = 0 \/ f[n - 1] = g[n - 1]
      BY <3>1, <2>2
    <3> HIDE DEF g
    <3> QED BY <3>2, Zenon DEF PriceStep
  <2>4. g = [n \in 0 .. k + 1 |-> PriceStep(h, g, n)]
    BY <2>3
  <2> QED BY <2>4, Zenon
<1>3. Built(LastTick)
  <2> SUFFICES Unbuilt = {}
    BY Extent
  <2> SUFFICES ASSUME Unbuilt # {} PROVE FALSE
    OBVIOUS
  <2> HIDE DEF Built
  <2>1. PICK k \in Unbuilt : \A q \in Unbuilt : k <= q
    BY FirstNumber
  <2>2. k \in Nat /\ k # 0 /\ ~Built(k)
    BY <1>1
  <2>3. k - 1 \in Nat /\ k - 1 \notin Unbuilt /\ k = (k - 1) + 1
    BY <2>1, <2>2
  <2> QED BY <1>2, <2>2, <2>3
<1>4. PICK f : f = [n \in 0 .. LastTick |-> PriceStep(h, f, n)]
  BY <1>3
<1>5. Prices(h) = CHOOSE g : g = [n \in 0 .. LastTick |-> PriceStep(h, g, n)]
  BY DEF Prices, PriceStep
<1> QED BY <1>4, <1>5, Zenon

\* The commitments of its days.
LEMMA CommitmentsAre ==
    ASSUME NEW h, NEW config
    PROVE  Commitments(h, config) = [n \in 0 .. LastDay |-> ChainStep(h, config, Commitments(h, config), n)]
<1> DEFINE Built(k) == \E f : f = [n \in 0 .. k |-> ChainStep(h, config, f, n)]
           Unbuilt == {k \in Nat : ~Built(k)}
<1>1. Built(0)
  <2> DEFINE base == [seedHash |-> h.seeds[0 + 1], cfg |-> config[0], prev |-> Zero,
                       commitment |-> commitmentHash(0, h.seeds[0 + 1], config[0], Zero)]
             f == [n \in 0 .. 0 |-> base]
  <2>1. \A n \in 0 .. 0 : ChainStep(h, config, f, n) = base
    <3> HIDE DEF f
    <3>1. ChainStep(h, config, f, 0) = base
      BY Zenon DEF ChainStep
    <3> QED BY <3>1
  <2> HIDE DEF base
  <2>2. f = [n \in 0 .. 0 |-> ChainStep(h, config, f, n)]
    BY <2>1
  <2> QED BY <2>2, Zenon
<1>2. ASSUME NEW k \in Nat, Built(k) PROVE Built(k + 1)
  <2>1. PICK f : f = [n \in 0 .. k |-> ChainStep(h, config, f, n)]
    BY <1>2
  <2> DEFINE g == [n \in 0 .. k + 1 |-> ChainStep(h, config, f, n)]
  <2>2. \A n \in 0 .. k : g[n] = f[n]
    <3>1. \A n \in 0 .. k : f[n] = ChainStep(h, config, f, n) /\ n \in 0 .. k + 1
      BY <2>1
    <3> QED BY <3>1
  <2>3. \A n \in 0 .. k + 1 : ChainStep(h, config, f, n) = ChainStep(h, config, g, n)
    <3> SUFFICES ASSUME NEW n \in 0 .. k + 1 PROVE ChainStep(h, config, f, n) = ChainStep(h, config, g, n)
      OBVIOUS
    <3>1. n = 0 \/ n - 1 \in 0 .. k
      OBVIOUS
    <3>2. n = 0 \/ f[n - 1] = g[n - 1]
      BY <3>1, <2>2
    <3> HIDE DEF g
    <3> QED BY <3>2, Zenon DEF ChainStep
  <2>4. g = [n \in 0 .. k + 1 |-> ChainStep(h, config, g, n)]
    BY <2>3
  <2> QED BY <2>4, Zenon
<1>3. Built(LastDay)
  <2> SUFFICES Unbuilt = {}
    BY Extent
  <2> SUFFICES ASSUME Unbuilt # {} PROVE FALSE
    OBVIOUS
  <2> HIDE DEF Built
  <2>1. PICK k \in Unbuilt : \A q \in Unbuilt : k <= q
    BY FirstNumber
  <2>2. k \in Nat /\ k # 0 /\ ~Built(k)
    BY <1>1
  <2>3. k - 1 \in Nat /\ k - 1 \notin Unbuilt /\ k = (k - 1) + 1
    BY <2>1, <2>2
  <2> QED BY <1>2, <2>2, <2>3
<1>4. PICK f : f = [n \in 0 .. LastDay |-> ChainStep(h, config, f, n)]
  BY <1>3
<1>5. Commitments(h, config) = CHOOSE g : g = [n \in 0 .. LastDay |-> ChainStep(h, config, g, n)]
  BY DEF Commitments, ChainStep, Days, LastDay
<1> QED BY <1>4, <1>5, Zenon

\* Its chain of ticks.
LEMMA TicksAre ==
    ASSUME NEW h, NEW prices, NEW ledger
    PROVE  AllTicks(h, prices, ledger) = [n \in 0 .. LastTick |-> TickStep(h, prices, ledger, AllTicks(h, prices, ledger), n)]
<1> DEFINE Built(k) == \E f : f = [n \in 0 .. k |-> TickStep(h, prices, ledger, f, n)]
           Unbuilt == {k \in Nat : ~Built(k)}
<1>1. Built(0)
  <2> DEFINE base == [hash |-> genesisHash(ledger[0].cfg)]
             f == [n \in 0 .. 0 |-> base]
  <2>1. \A n \in 0 .. 0 : TickStep(h, prices, ledger, f, n) = base
    <3> HIDE DEF f
    <3>1. TickStep(h, prices, ledger, f, 0) = base
      BY Zenon DEF TickStep
    <3> QED BY <3>1
  <2> HIDE DEF base
  <2>2. f = [n \in 0 .. 0 |-> TickStep(h, prices, ledger, f, n)]
    BY <2>1
  <2> QED BY <2>2, Zenon
<1>2. ASSUME NEW k \in Nat, Built(k) PROVE Built(k + 1)
  <2>1. PICK f : f = [n \in 0 .. k |-> TickStep(h, prices, ledger, f, n)]
    BY <1>2
  <2> DEFINE g == [n \in 0 .. k + 1 |-> TickStep(h, prices, ledger, f, n)]
  <2>2. \A n \in 0 .. k : g[n] = f[n]
    <3>1. \A n \in 0 .. k : f[n] = TickStep(h, prices, ledger, f, n) /\ n \in 0 .. k + 1
      BY <2>1
    <3> QED BY <3>1
  <2>3. \A n \in 0 .. k + 1 : TickStep(h, prices, ledger, f, n) = TickStep(h, prices, ledger, g, n)
    <3> SUFFICES ASSUME NEW n \in 0 .. k + 1 PROVE TickStep(h, prices, ledger, f, n) = TickStep(h, prices, ledger, g, n)
      OBVIOUS
    <3>1. n = 0 \/ n - 1 \in 0 .. k
      OBVIOUS
    <3>2. n = 0 \/ f[n - 1] = g[n - 1]
      BY <3>1, <2>2
    <3> HIDE DEF g
    <3> QED BY <3>2, Zenon DEF TickStep
  <2>4. g = [n \in 0 .. k + 1 |-> TickStep(h, prices, ledger, g, n)]
    BY <2>3
  <2> QED BY <2>4, Zenon
<1>3. Built(LastTick)
  <2> SUFFICES Unbuilt = {}
    BY Extent
  <2> SUFFICES ASSUME Unbuilt # {} PROVE FALSE
    OBVIOUS
  <2> HIDE DEF Built
  <2>1. PICK k \in Unbuilt : \A q \in Unbuilt : k <= q
    BY FirstNumber
  <2>2. k \in Nat /\ k # 0 /\ ~Built(k)
    BY <1>1
  <2>3. k - 1 \in Nat /\ k - 1 \notin Unbuilt /\ k = (k - 1) + 1
    BY <2>1, <2>2
  <2> QED BY <1>2, <2>2, <2>3
<1>4. PICK f : f = [n \in 0 .. LastTick |-> TickStep(h, prices, ledger, f, n)]
  BY <1>3
<1>5. AllTicks(h, prices, ledger) = CHOOSE g : g = [n \in 0 .. LastTick |-> TickStep(h, prices, ledger, g, n)]
  BY DEF AllTicks
<1> QED BY <1>4, <1>5, Zenon

-----------------------------------------------------------------------------
(* A history of version 3 *)

\* What the histories have in common.
IsHistory(h) ==
    /\ h.t0 \in {0, 1} /\ h.seeds \in [1 .. LastDay + 1 -> Seeds] /\ h.k \in {-1, 0, 1, 2}
    /\ h.pause = NoPause \/ (h.pause \in Nat \ {0, 1} /\ h.t0 = 0)

LEMMA HistoriesAre == \A h \in Histories : IsHistory(h)
<1>1. Cardinality(Days) = LastDay + 1
  <2>1. LastDay \in Int /\ 0 \in Int /\ LastDay >= 0
    BY Extent
  <2>2. Cardinality(0 .. LastDay) = LastDay - 0 + 1
    BY <2>1, FS_Interval
  <2> QED BY <2>1, <2>2, Extent
<1>2. Chosen = [1 .. LastDay + 1 -> Seeds]
  BY <1>1 DEF Chosen
<1> QED BY <1>2 DEF Histories, IsHistory

LEMMA DaysOfTicks ==
    ASSUME NEW h, h.t0 \in {0, 1}
    PROVE  /\ \A n \in Nat : DayOf(h, n) \in Nat /\ Day * DayOf(h, n) <= h.t0 + n * Interval
                             /\ h.t0 + n * Interval < Day * DayOf(h, n) + Day
           /\ \A n \in 0 .. LastTick : DayOf(h, n) \in Days
           /\ \A m, n \in Nat : m <= n => DayOf(h, m) <= DayOf(h, n)
<1>1. Day \in Nat \ {0} /\ Interval \in Nat \ {0} /\ LastTick \in Nat /\ h.t0 \in Nat /\ h.t0 <= 1
  BY Scales, Extent DEF Scales
<1> DEFINE at(n) == h.t0 + n * Interval
<1>2. \A m, n \in Nat : m <= n => m * Interval <= n * Interval
  BY <1>1, SMTT(30)
<1>3. \A n \in Nat : n * Interval \in Nat
  BY <1>1
<1>4. \A n \in Nat : at(n) \in Nat
  BY <1>1, <1>3
<1>5. \A m, n \in Nat : m <= n => at(m) <= at(n)
  <2> SUFFICES ASSUME NEW m \in Nat, NEW n \in Nat, m <= n PROVE at(m) <= at(n)
    OBVIOUS
  <2>1. m * Interval \in Nat /\ n * Interval \in Nat /\ m * Interval <= n * Interval
    BY <1>2, <1>3
  <2> QED BY <2>1, <1>1
<1>6. \A a \in Nat : a \div Day \in Nat /\ Day * (a \div Day) <= a /\ a < Day * (a \div Day) + Day
  BY <1>1, DivFacts
<1>7. \A a, b \in Nat : a <= b => a \div Day <= b \div Day
  <2> SUFFICES ASSUME NEW a \in Nat, NEW b \in Nat, a <= b PROVE a \div Day <= b \div Day
    OBVIOUS
  <2> DEFINE x == a \div Day
             y == b \div Day
  <2>1. x \in Nat /\ y \in Nat /\ Day * x <= a /\ b < Day * y + Day
    BY <1>6
  <2> HIDE DEF x, y
  <2>2. ~(y + 1 <= x)
    <3>1. y + 1 <= x => Day * (y + 1) <= Day * x
      BY <1>1, <2>1, SMTT(30)
    <3>2. Day * (y + 1) = Day * y + Day /\ Day * x \in Nat /\ Day * y \in Nat
      BY <1>1, <2>1
    <3> QED BY <3>1, <3>2, <2>1, <1>1
  <2>3. x <= y
    BY <2>1, <2>2
  <2> QED BY <2>3 DEF x, y
<1>8. \A n \in Nat : DayOf(h, n) = at(n) \div Day
  BY DEF DayOf
<1>9. \A n \in 0 .. LastTick : DayOf(h, n) \in Days
  <2> SUFFICES ASSUME NEW n \in 0 .. LastTick PROVE DayOf(h, n) \in Days
    OBVIOUS
  <2>1. n \in Nat /\ n * Interval \in Nat /\ LastTick * Interval \in Nat /\ n * Interval <= LastTick * Interval
    BY <1>1, <1>2, <1>3
  <2>2. at(n) <= 1 + LastTick * Interval /\ 1 + LastTick * Interval \in Nat
    BY <2>1, <1>1
  <2> HIDE DEF at
  <2>3. at(n) \div Day \in Nat /\ at(n) \div Day <= LastDay
    BY <2>1, <2>2, <1>4, <1>6, <1>7, Zenon DEF LastDay
  <2> QED BY <2>1, <2>3, <1>8, Extent
<1> HIDE DEF at
<1>10. \A n \in Nat : DayOf(h, n) \in Nat /\ Day * DayOf(h, n) <= at(n) /\ at(n) < Day * DayOf(h, n) + Day
  BY <1>4, <1>6, <1>8
<1>11. \A m, n \in Nat : m <= n => DayOf(h, m) <= DayOf(h, n)
  BY <1>4, <1>5, <1>7, <1>8
<1> QED BY <1>9, <1>10, <1>11, Zenon DEF at

\* The seed of its day yields a draw for each tick.
Draws == [z : -ZMax .. ZMax, parity : 0 .. 1, residue : 0 .. 9]

LEMMA SeedsYield ==
    ASSUME NEW h, IsHistory(h)
    PROVE  /\ \A n \in 0 .. LastTick : SeedDraw(h, n) \in Draws
           /\ \A d \in Days : h.seeds[d + 1] # NoSeed
<1>1. Day \in Nat \ {0} /\ Interval \in Nat \ {0}
  BY Scales DEF Scales
<1> DEFINE slots_ == (Day - 1) \div Interval
<1>2. slots_ \in Nat
  <2>1. Day - 1 \in Nat
    BY <1>1
  <2> QED BY <1>1, <2>1, DivFacts
<1>3. Seeds \subseteq [1 .. slots_ + 1 -> Draws]
  BY Drawing DEF Drawing, Draws
<1>4. \A d \in Days : h.seeds[d + 1] \in [1 .. slots_ + 1 -> Draws]
  <2> HIDE DEF slots_
  <2>1. \A d \in Days : d + 1 \in 1 .. LastDay + 1
    BY Extent
  <2> QED BY <1>3, <2>1 DEF IsHistory
<1>5. \A n \in 0 .. LastTick : (((h.t0 + n * Interval) % Day) \div Interval) + 1 \in 1 .. slots_ + 1
  <2> SUFFICES ASSUME NEW n \in 0 .. LastTick PROVE (((h.t0 + n * Interval) % Day) \div Interval) + 1 \in 1 .. slots_ + 1
    OBVIOUS
  <2> DEFINE a == h.t0 + n * Interval
             r == a % Day
  <2>1. a \in Nat
    <3>1. n \in Nat /\ h.t0 \in Nat
      BY Extent DEF IsHistory
    <3>2. n * Interval \in Nat
      BY <1>1, <3>1
    <3> QED BY <3>1, <3>2
  <2> HIDE DEF a
  <2>2. r \in 0 .. Day - 1
    BY <1>1, <2>1
  <2> HIDE DEF r
  <2> DEFINE x == r \div Interval
  <2>3. x \in Nat /\ Interval * x <= r /\ Day - 1 < Interval * slots_ + Interval
    <3>1. r \in Nat /\ Day - 1 \in Nat
      BY <1>1, <2>2
    <3> QED BY <1>1, <3>1, DivFacts
  <2> HIDE DEF x, slots_
  <2>4. ~(slots_ + 1 <= x)
    <3>1. slots_ + 1 <= x => Interval * (slots_ + 1) <= Interval * x
      BY <1>1, <1>2, <2>3, SMTT(30)
    <3>2. Interval * (slots_ + 1) = Interval * slots_ + Interval /\ Interval * x \in Nat /\ Interval * slots_ \in Nat
      BY <1>1, <1>2, <2>3
    <3> QED BY <3>1, <3>2, <2>2, <2>3, <1>1
  <2>5. x + 1 \in 1 .. slots_ + 1
    BY <1>2, <2>3, <2>4
  <2> QED BY <2>5 DEF x, r, a
<1> HIDE DEF slots_
<1>6. \A n \in 0 .. LastTick : DayOf(h, n) \in Days
  BY DaysOfTicks DEF IsHistory
<1>7. \A n \in 0 .. LastTick : SeedDraw(h, n) \in Draws
  BY <1>4, <1>5, <1>6, Zenon DEF SeedDraw
<1>8. \A d \in Days : h.seeds[d + 1] # NoSeed
  <2>1. DOMAIN NoSeed = {} /\ 1 \in 1 .. slots_ + 1
    BY <1>2 DEF NoSeed
  <2> QED BY <1>4, <2>1
<1> QED BY <1>7, <1>8

-----------------------------------------------------------------------------
(* Its prices *)

LEMMA FirstDraws ==
    ASSUME NEW h, NEW last \in Int, NEW draw \in Draws
    PROVE  Drawn(FirstConfig(h), last, draw)
<1>1. sigmaE12(Vol) \in Nat /\ Kappa \in Nat /\ Anchor \in Nat
  BY SigmasAgree, Drawing, Bounds DEF Drawing, Bounds
<1> QED BY <1>1 DEF Drawn, FirstConfig, Draws

LEMMA ResumedUnits ==
    ASSUME NEW u \in Nat, NEW k \in {-1, 0, 1, 2}
    PROVE  ResumeUnits(u, k) \in Nat
<1>1. floorDiv(u, 10) = u \div 10
  BY FloorsAgree
<1>2. u \div 10 \in Nat
  BY DivFacts
<1>3. k = 2 => ResumeUnits(u, k) \in Nat
  BY DEF ResumeUnits
<1>4. k = 1 => ResumeUnits(u, k) \in Nat
  BY DEF ResumeUnits, rescaleUnits
<1>5. k = 0 => ResumeUnits(u, k) \in Nat
  BY DEF ResumeUnits, rescaleUnits
<1>6. k = -1 => ResumeUnits(u, k) \in Nat
  BY <1>1, <1>2 DEF ResumeUnits, rescaleUnits
<1> QED BY <1>3, <1>4, <1>5, <1>6

\* The price a tick moves from.
From(h, n) == IF Resumes(h, n) THEN ResumeUnits(Prices(h)[n - 1].price, h.k) ELSE Prices(h)[n - 1].price
Walked(h, n) ==
    /\ Prices(h)[n].state \in {"on", "band"}
    /\ Prices(h)[n].state = "on" => Prices(h)[n].price \in Nat

LEMMA PriceIs ==
    ASSUME NEW h
    PROVE  /\ Prices(h)[0] = [state |-> "on", prev |-> Anchor, price |-> Anchor]
           /\ \A n \in 1 .. LastTick :
                  Prices(h)[n] =
                  LET next == transition(FirstConfig(h), From(h, n), SeedDraw(h, n))
                  IN IF Prices(h)[n - 1].state # "on" \/ Skipped(h, n) THEN Prices(h)[n - 1]
                     ELSE [state |-> IF Abs(next - From(h, n)) > maxMoveUnits(FirstConfig(h), From(h, n)) THEN "limit"
                                      ELSE IF InBand(FirstConfig(h), next) THEN "on" ELSE "band",
                           prev |-> From(h, n), price |-> next]
<1>1. \A n \in 0 .. LastTick : Prices(h)[n] = PriceStep(h, Prices(h), n)
  <2> DEFINE w == Prices(h)
  <2>1. w = [n \in 0 .. LastTick |-> PriceStep(h, w, n)]
    BY PricesAre
  <2> HIDE DEF w
  <2>2. \A n \in 0 .. LastTick : w[n] = PriceStep(h, w, n)
    BY <2>1
  <2> QED BY <2>2 DEF w
<1>2. 0 \in 0 .. LastTick /\ \A n \in 1 .. LastTick : n \in 0 .. LastTick /\ n # 0
  BY Extent
<1>3. Prices(h)[0] = [state |-> "on", prev |-> Anchor, price |-> Anchor]
  BY <1>1, <1>2, Zenon DEF PriceStep
<1>4. ASSUME NEW n \in 1 .. LastTick
      PROVE  Prices(h)[n] =
                  LET next == transition(FirstConfig(h), From(h, n), SeedDraw(h, n))
                  IN IF Prices(h)[n - 1].state # "on" \/ Skipped(h, n) THEN Prices(h)[n - 1]
                     ELSE [state |-> IF Abs(next - From(h, n)) > maxMoveUnits(FirstConfig(h), From(h, n)) THEN "limit"
                                      ELSE IF InBand(FirstConfig(h), next) THEN "on" ELSE "band",
                           prev |-> From(h, n), price |-> next]
  BY <1>1, <1>2, Zenon DEF PriceStep, From
<1> QED BY <1>3, <1>4, Zenon

\* Prices stay within the limit and, until they leave the band, within the band.
LEMMA PriceMoves ==
    ASSUME NEW h, IsHistory(h), NEW n \in 1 .. LastTick, Walked(h, n - 1)
    PROVE  /\ Walked(h, n)
           /\ Prices(h)[n].state = "on" => Prices(h)[n - 1].state = "on"
           /\ Skipped(h, n) => Prices(h)[n] = Prices(h)[n - 1]
           /\ Prices(h)[n].state = "on" /\ ~Skipped(h, n) =>
                 /\ From(h, n) \in Nat /\ Prices(h)[n].prev = From(h, n)
                 /\ Prices(h)[n].price = transition(FirstConfig(h), From(h, n), SeedDraw(h, n))
                 /\ InBand(FirstConfig(h), Prices(h)[n].price)
<1> DEFINE before == Prices(h)[n - 1]
           e == FirstConfig(h)
           last == From(h, n)
           next == transition(e, last, SeedDraw(h, n))
<1>1. CASE before.state # "on" \/ Skipped(h, n)
  <2>1. Prices(h)[n] = before
    BY <1>1, PriceIs, Zenon
  <2> QED BY <2>1, <1>1 DEF Walked
<1>2. CASE before.state = "on" /\ ~Skipped(h, n)
  <2>1. last \in Nat
    <3>1. before.price \in Nat /\ h.k \in {-1, 0, 1, 2}
      BY <1>2 DEF Walked, IsHistory
    <3> QED BY <3>1, ResumedUnits DEF From
  <2>2. Drawn(e, last, SeedDraw(h, n))
    <3>1. SeedDraw(h, n) \in Draws /\ last \in Int
      BY <2>1, SeedsYield, Extent
    <3> QED BY <3>1, FirstDraws
  <2>3. ~(Abs(next - last) > maxMoveUnits(e, last)) /\ next \in Int
    <3>1. next \in Int /\ Abs(next - last) <= maxMoveUnits(e, last)
      BY <2>1, <2>2, UnitsAgree, WithinLimit, Zenon
    <3>2. maxMoveUnits(e, last) \in Int
      <4> DEFINE den == E12 * ZScale
                 most == last * e.sigma * ZMax + e.kappa * Abs(e.anchor - last) * ZScale
      <4>1. den \in Nat \ {0}
        BY <2>2, DrawnNumbers
      <4>2. most + 5 * den \in Int /\ 10 * den \in Nat \ {0}
        <5>1. e.sigma \in Nat /\ ZMax \in Nat /\ e.kappa \in Nat /\ ZScale \in Nat /\ Abs(e.anchor - last) \in Nat
          BY <2>1, <2>2, Scales DEF Drawn, Scales, Abs
        <5>2. \A a, b, c, d, f, g \in Nat : a * b * c + d * f * g \in Int
          OBVIOUS
        <5>3. most \in Int
          BY <5>1, <5>2, <2>1, Zenon
        <5> HIDE DEF most, den
        <5> QED BY <4>1, <5>3
      <4> HIDE DEF most, den
      <4>3. floorDiv(most + 5 * den, 10 * den) \in Int
        BY <4>2, FloorsAgree, DivFacts
      <4> QED BY <4>3 DEF maxMoveUnits, most, den
    <3>3. Abs(next - last) \in Int
      BY <3>1, <2>1 DEF Abs
    <3> HIDE DEF next, last, e
    <3> QED BY <3>1, <3>2, <3>3
  <2>4. Prices(h)[n] = [state |-> IF InBand(e, next) THEN "on" ELSE "band", prev |-> last, price |-> next]
    <3>1. Prices(h)[n] = [state |-> IF Abs(next - last) > maxMoveUnits(e, last) THEN "limit"
                                      ELSE IF InBand(e, next) THEN "on" ELSE "band",
                           prev |-> last, price |-> next]
      BY <1>2, PriceIs, Zenon
    <3> HIDE DEF next, last, e
    <3> QED BY <3>1, <2>3, Zenon
  <2>5. InBand(e, next) => next \in Nat
    <3>1. e.min = MinUnits /\ MinUnits \in Nat
      BY Bounds DEF FirstConfig, Bounds
    <3> HIDE DEF next, e
    <3> QED BY <3>1, <2>3 DEF InBand
  <2> HIDE DEF next, last, e
  <2> QED BY <2>1, <2>4, <2>5, <1>2 DEF Walked, last, e, next
<1> QED BY <1>1, <1>2

LEMMA PricesWalk == ASSUME NEW h, IsHistory(h) PROVE \A n \in 0 .. LastTick : Walked(h, n)
<1> DEFINE Bad == {n \in Nat : n \in 0 .. LastTick /\ ~Walked(h, n)}
<1> SUFFICES ASSUME Bad # {} PROVE FALSE
  BY Extent
<1>1. Bad \in SUBSET Nat
  OBVIOUS
<1>2. PICK n \in Bad : \A q \in Bad : n <= q
  <2> HIDE DEF Bad
  <2> QED BY <1>1, FirstNumber
<1>3. n # 0
  <2>1. Walked(h, 0)
    BY PriceIs, Bounds DEF Walked, Bounds
  <2> QED BY <2>1
<1>4. n \in 1 .. LastTick /\ n - 1 \in Nat /\ n - 1 \in 0 .. LastTick /\ n - 1 < n
  BY <1>3, Extent
<1>5. Walked(h, n - 1)
  BY <1>2, <1>4
<1> QED BY <1>4, <1>5, PriceMoves

-----------------------------------------------------------------------------
(* Its days and their configurations *)

\* The configurations of a history differ in where they start only.
LikeFirst(h, c) ==
    /\ c.vol = Vol /\ c.sigma = sigmaE12(Vol) /\ c.kappa = Kappa /\ c.anchor = Anchor
    /\ c.min = MinUnits /\ c.max = MaxUnits /\ c.t0 = h.t0

LEMMA ConfigIs ==
    ASSUME NEW h, NEW d
    PROVE  /\ LikeFirst(h, Config(h, d))
           /\ h.pause = NoPause \/ d < ResumeDay => Config(h, d) = FirstConfig(h)
           /\ ~(h.pause = NoPause \/ d < ResumeDay) =>
                 /\ Config(h, d).gen = ResumeGenesis(h)
                 /\ Config(h, d).units = ResumeUnits(Prices(h)[ResumeGenesis(h)].price, h.k)
<1>1. LikeFirst(h, FirstConfig(h))
  BY Zenon DEF LikeFirst, FirstConfig
<1>2. CASE h.pause = NoPause \/ d < ResumeDay
  <2>1. Config(h, d) = FirstConfig(h)
    BY <1>2, Zenon DEF Config
  <2> QED BY <1>1, <1>2, <2>1
<1>3. CASE ~(h.pause = NoPause \/ d < ResumeDay)
  <2> DEFINE g == ResumeGenesis(h)
             u == ResumeUnits(Prices(h)[g].price, h.k)
  <2>1. Config(h, d) = [FirstConfig(h) EXCEPT !.gen = g, !.units = u]
    BY <1>3, Zenon DEF Config
  <2> HIDE DEF g, u
  <2>2. Config(h, d) = [vol |-> Vol, sigma |-> sigmaE12(Vol), kappa |-> Kappa, anchor |-> Anchor,
                        min |-> MinUnits, max |-> MaxUnits, t0 |-> h.t0, gen |-> g, units |-> u]
    BY <2>1 DEF FirstConfig
  <2>3. LikeFirst(h, Config(h, d)) /\ Config(h, d).gen = g /\ Config(h, d).units = u
    BY <2>2 DEF LikeFirst
  <2> QED BY <1>3, <2>3 DEF g, u
<1> QED BY <1>2, <1>3

\* Each day has its seed and configuration, committed after the day before.
LEMMA LedgerIs ==
    ASSUME NEW h
    PROVE  /\ \A d \in Days :
                 /\ Ledger(h)[d].seedHash = h.seeds[d + 1] /\ Ledger(h)[d].cfg = Config(h, d)
                 /\ Ledger(h)[d].commitment =
                        commitmentHash(d, Ledger(h)[d].seedHash, Ledger(h)[d].cfg, Ledger(h)[d].prev)
           /\ Ledger(h)[0].prev = Zero
           /\ \A d \in Days \ {0} : Ledger(h)[d].prev = Ledger(h)[d - 1].commitment
<1> DEFINE config == [d \in Days |-> Config(h, d)]
           c == Commitments(h, config)
<1>1. c = [d \in 0 .. LastDay |-> ChainStep(h, config, c, d)]
  BY CommitmentsAre
<1>2. Ledger(h) = c
  BY DEF Ledger
<1>3. \A d \in Days : config[d] = Config(h, d)
  OBVIOUS
<1> HIDE DEF config, c
<1>4. \A d \in Days : c[d] = ChainStep(h, config, c, d)
  BY <1>1, Extent
<1>5. ASSUME NEW d \in Days
      PROVE  /\ c[d].seedHash = h.seeds[d + 1] /\ c[d].cfg = Config(h, d)
             /\ c[d].prev = IF d = 0 THEN Zero ELSE c[d - 1].commitment
             /\ c[d].commitment = commitmentHash(d, c[d].seedHash, c[d].cfg, c[d].prev)
  <2> DEFINE prev == IF d = 0 THEN Zero ELSE c[d - 1].commitment
  <2>1. c[d] = [seedHash |-> h.seeds[d + 1], cfg |-> config[d], prev |-> prev,
                commitment |-> commitmentHash(d, h.seeds[d + 1], config[d], prev)]
    BY <1>4, Zenon DEF ChainStep
  <2> HIDE DEF prev
  <2>2. /\ c[d].seedHash = h.seeds[d + 1] /\ c[d].cfg = config[d] /\ c[d].prev = prev
        /\ c[d].commitment = commitmentHash(d, c[d].seedHash, c[d].cfg, c[d].prev)
    <3> DEFINE made == commitmentHash(d, h.seeds[d + 1], config[d], prev)
    <3>1. c[d] = [seedHash |-> h.seeds[d + 1], cfg |-> config[d], prev |-> prev, commitment |-> made]
      BY <2>1
    <3> HIDE DEF made
    <3>2. c[d].seedHash = h.seeds[d + 1] /\ c[d].cfg = config[d] /\ c[d].prev = prev /\ c[d].commitment = made
      BY <3>1
    <3> QED BY <3>2, Zenon DEF made
  <2> QED BY <2>2, <1>3 DEF prev
<1>6. 0 \in Days
  BY Extent
<1> QED BY <1>2, <1>5, <1>6

\* The resume is where the ticks reach its day.
LEMMA ResumeIs ==
    ASSUME NEW h, IsHistory(h), h.pause # NoPause
    PROVE  /\ ResumeGenesis(h) \in 0 .. LastTick /\ DayOf(h, ResumeGenesis(h) + 1) = ResumeDay
           /\ \A n \in Nat : DayOf(h, n) < ResumeDay <=> n <= ResumeGenesis(h)
<1>1. h.t0 = 0
  BY DEF IsHistory
<1>2. \E n \in 0 .. LastTick : DayOf(h, n) < ResumeDay /\ DayOf(h, n + 1) = ResumeDay
  <2>1. PICK n \in 0 .. LastTick : (n * Interval) \div Day < ResumeDay /\ ((n + 1) * Interval) \div Day = ResumeDay
    BY ResumeIsThere DEF ResumeIsThere
  <2>2. 0 + n * Interval = n * Interval /\ 0 + (n + 1) * Interval = (n + 1) * Interval
    BY Scales, Extent DEF Scales
  <2> QED BY <1>1, <2>1, <2>2 DEF DayOf
<1> DEFINE g == ResumeGenesis(h)
<1>3. g \in 0 .. LastTick /\ DayOf(h, g) < ResumeDay /\ DayOf(h, g + 1) = ResumeDay
  <2>1. g = CHOOSE n \in 0 .. LastTick : DayOf(h, n) < ResumeDay /\ DayOf(h, n + 1) = ResumeDay
    BY DEF ResumeGenesis
  <2> HIDE DEF g
  <2> QED BY <1>2, <2>1
<1> HIDE DEF g
<1>4. ASSUME NEW n \in Nat PROVE DayOf(h, n) < ResumeDay <=> n <= g
  <2>1. g \in Nat /\ g + 1 \in Nat /\ ResumeDay \in Nat
    BY <1>3, Extent, Bounds DEF Bounds
  <2>2. n <= g => DayOf(h, n) <= DayOf(h, g)
    BY <2>1, DaysOfTicks DEF IsHistory
  <2>3. g + 1 <= n => DayOf(h, g + 1) <= DayOf(h, n)
    BY <2>1, DaysOfTicks DEF IsHistory
  <2>4. DayOf(h, n) \in Nat /\ DayOf(h, g) \in Nat /\ (n <= g \/ g + 1 <= n)
    BY <2>1, DaysOfTicks DEF IsHistory
  <2> QED BY <1>3, <2>1, <2>2, <2>3, <2>4
<1> QED BY <1>3, <1>4 DEF g

-----------------------------------------------------------------------------
(* Its ticks *)

Published(h) == {m \in 1 .. LastTick : Prices(h)[m].state = "on" /\ ~Skipped(h, m)}

LEMMA SeriesAre ==
    ASSUME NEW h
    PROVE  Series(h) = [n \in Published(h) |-> AllTicks(h, Prices(h), Ledger(h))[n]]
BY Zenon DEF Series, Chained, AllTicks, TickStep, Published

\* What a tick published is, but for the hash of the one before it.
IsTickOf(h, n, t) ==
    LET day == Ledger(h)[DayOf(h, n)] IN
    /\ t.no = n /\ t.day = DayOf(h, n) /\ t.cfg = day.cfg /\ t.commitment = day.commitment
    /\ t.at = scheduledMs(day.cfg, n) /\ t.prev = Prices(h)[n].prev /\ t.price = Prices(h)[n].price
    /\ t.digit = t.price % 10 /\ t.hash = tickHash(t)
    /\ Resumes(h, n) => t.prevHash = genesisHash(t.cfg)

LEMMA TickIs ==
    ASSUME NEW h, NEW n \in Published(h)
    PROVE  /\ IsTickOf(h, n, Series(h)[n])
           /\ ~Resumes(h, n) /\ n - 1 \in Published(h) => Series(h)[n].prevHash = Series(h)[n - 1].hash
           /\ ~Resumes(h, n) /\ n = 1 => Series(h)[n].prevHash = genesisHash(Ledger(h)[0].cfg)
<1> DEFINE all == AllTicks(h, Prices(h), Ledger(h))
           day == Ledger(h)[DayOf(h, n)]
           before == IF Resumes(h, n) THEN genesisHash(day.cfg) ELSE all[n - 1].hash
           t == [hash |-> Zero, no |-> n, at |-> scheduledMs(day.cfg, n), day |-> DayOf(h, n),
                 prev |-> Prices(h)[n].prev, price |-> Prices(h)[n].price, digit |-> Prices(h)[n].price % 10,
                 cfg |-> day.cfg, commitment |-> day.commitment, prevHash |-> before]
<1>1. all = [m \in 0 .. LastTick |-> TickStep(h, Prices(h), Ledger(h), all, m)]
  BY TicksAre
<1>2. /\ n \in 0 .. LastTick /\ n # 0 /\ 0 \in 0 .. LastTick
      /\ Prices(h)[n].state = "on" /\ ~Skipped(h, n)
  BY Extent DEF Published
<1> HIDE DEF all
<1>3. all[n] = TickStep(h, Prices(h), Ledger(h), all, n) /\ all[0] = TickStep(h, Prices(h), Ledger(h), all, 0)
  BY <1>1, <1>2
<1>4. all[n] = Sealed(t)
  BY <1>2, <1>3, Zenon DEF TickStep
<1>5. all[0].hash = genesisHash(Ledger(h)[0].cfg)
  <2>1. all[0] = [hash |-> genesisHash(Ledger(h)[0].cfg)]
    BY <1>3, Zenon DEF TickStep
  <2> QED BY <2>1
<1>6. \A m \in Published(h) : Series(h)[m] = all[m]
  BY SeriesAre DEF all
<1> HIDE DEF day, before
<1>7. all[n] = [hash |-> tickHash(t), no |-> n, at |-> scheduledMs(day.cfg, n), day |-> DayOf(h, n),
                prev |-> Prices(h)[n].prev, price |-> Prices(h)[n].price, digit |-> Prices(h)[n].price % 10,
                cfg |-> day.cfg, commitment |-> day.commitment, prevHash |-> before]
  <2> DEFINE s == tickHash(t)
  <2> HIDE DEF s
  <2>1. all[n] = [t EXCEPT !.hash = s]
    BY <1>4 DEF Sealed, s
  <2>2. all[n] = [hash |-> s, no |-> n, at |-> scheduledMs(day.cfg, n), day |-> DayOf(h, n),
                prev |-> Prices(h)[n].prev, price |-> Prices(h)[n].price, digit |-> Prices(h)[n].price % 10,
                cfg |-> day.cfg, commitment |-> day.commitment, prevHash |-> before]
    BY <2>1
  <2> QED BY <2>2 DEF s
<1>8. tickHash(t) = tickHash(all[n])
  <2> DEFINE s == tickHash(t)
  <2>1. /\ t.no = n /\ t.at = scheduledMs(day.cfg, n) /\ t.day = DayOf(h, n) /\ t.prev = Prices(h)[n].prev
        /\ t.price = Prices(h)[n].price /\ t.digit = Prices(h)[n].price % 10 /\ t.cfg = day.cfg
        /\ t.commitment = day.commitment /\ t.prevHash = before
    OBVIOUS
  <2>2. all[n] = [hash |-> s, no |-> n, at |-> scheduledMs(day.cfg, n), day |-> DayOf(h, n),
                prev |-> Prices(h)[n].prev, price |-> Prices(h)[n].price, digit |-> Prices(h)[n].price % 10,
                cfg |-> day.cfg, commitment |-> day.commitment, prevHash |-> before]
    BY <1>7
  <2> HIDE DEF s, t
  <2>3. /\ all[n].no = n /\ all[n].at = scheduledMs(day.cfg, n) /\ all[n].day = DayOf(h, n)
        /\ all[n].prev = Prices(h)[n].prev /\ all[n].price = Prices(h)[n].price
        /\ all[n].digit = Prices(h)[n].price % 10 /\ all[n].cfg = day.cfg
        /\ all[n].commitment = day.commitment /\ all[n].prevHash = before
    BY <2>2
  <2> QED BY <2>1, <2>3, Zenon DEF tickHash
<1>9. IsTickOf(h, n, all[n]) /\ all[n].prevHash = before
  <2> DEFINE s == tickHash(t)
  <2>1. all[n] = [hash |-> s, no |-> n, at |-> scheduledMs(day.cfg, n), day |-> DayOf(h, n),
                prev |-> Prices(h)[n].prev, price |-> Prices(h)[n].price, digit |-> Prices(h)[n].price % 10,
                cfg |-> day.cfg, commitment |-> day.commitment, prevHash |-> before]
    BY <1>7
  <2>2. s = tickHash(all[n])
    BY <1>8
  <2> HIDE DEF s, t
  <2>3. /\ all[n].no = n /\ all[n].at = scheduledMs(day.cfg, n) /\ all[n].day = DayOf(h, n)
        /\ all[n].prev = Prices(h)[n].prev /\ all[n].price = Prices(h)[n].price
        /\ all[n].digit = Prices(h)[n].price % 10 /\ all[n].cfg = day.cfg /\ all[n].hash = s
        /\ all[n].commitment = day.commitment /\ all[n].prevHash = before
    BY <2>1
  <2> QED BY <2>2, <2>3, Zenon DEF IsTickOf, day, before
<1>10. ~Resumes(h, n) => before = all[n - 1].hash
  BY DEF before
<1> QED BY <1>5, <1>6, <1>9, <1>10

\* Prices are generated up to a last tick.
LEMMA OnBefore ==
    ASSUME NEW h, IsHistory(h), NEW n \in 1 .. LastTick, Prices(h)[n].state = "on"
    PROVE  \A m \in 0 .. n : Prices(h)[m].state = "on"
<1> DEFINE Off == {j \in Nat : j <= n /\ Prices(h)[n - j].state # "on"}
<1>0. n \in Nat /\ LastTick \in Nat /\ n <= LastTick
  BY Extent
<1>1. SUFFICES ASSUME Off # {} PROVE FALSE
  <2>1. \A m \in 0 .. n : n - m \in Nat /\ n - m <= n /\ n - (n - m) = m
    BY <1>0
  <2> QED BY <2>1
<1>2. Off \in SUBSET Nat
  OBVIOUS
<1>3. PICK j \in Off : \A i \in Off : j <= i
  <2> HIDE DEF Off
  <2> QED BY <1>1, <1>2, FirstNumber
<1>4. j # 0
  <2>1. n - 0 = n
    BY <1>0
  <2> QED BY <2>1
<1>5. j - 1 \in Nat /\ j - 1 <= n /\ ~(j <= j - 1) /\ n - (j - 1) \in 1 .. LastTick /\ (n - (j - 1)) - 1 = n - j
  BY <1>0, <1>3, <1>4
<1>6. Prices(h)[n - (j - 1)].state = "on"
  BY <1>3, <1>5
<1>7. (n - (j - 1)) - 1 \in 0 .. LastTick
  BY <1>0, <1>5
<1>8. Prices(h)[(n - (j - 1)) - 1].state = "on"
  BY <1>5, <1>6, <1>7, PriceMoves, PricesWalk
<1> QED BY <1>3, <1>5, <1>8

\* The first tick is published if any is.
LEMMA FirstIsOne ==
    ASSUME NEW h, IsHistory(h), NEW n \in Published(h)
    PROVE  1 \in Published(h)
<1>1. n \in 1 .. LastTick /\ 1 \in 0 .. n /\ 1 \in 1 .. LastTick
  BY Extent DEF Published
<1>2. Prices(h)[1].state = "on"
  BY <1>1, OnBefore DEF Published
<1>3. ~Skipped(h, 1)
  BY Extent DEF IsHistory, Skipped, NoPause
<1> QED BY <1>1, <1>2, <1>3 DEF Published

\* A tick is a resume after the last one before the pause, or follows the one before it.
LEMMA Follows ==
    ASSUME NEW h, IsHistory(h), NEW n \in Published(h), NEW m \in Published(h), m < n,
           \A k \in Published(h) : k < n => k <= m
    PROVE  \/ /\ Resumes(h, n) /\ m <= ResumeGenesis(h)
              /\ Prices(h)[ResumeGenesis(h)].price = Prices(h)[m].price
           \/ ~Resumes(h, n) /\ m = n - 1
<1> DEFINE g == ResumeGenesis(h)
<1>1. /\ n \in 1 .. LastTick /\ m \in 1 .. LastTick /\ LastTick \in Nat
      /\ ~Skipped(h, n) /\ n \in Nat /\ m \in Nat
  BY Extent DEF Published
<1>2. \A k \in 0 .. n : Prices(h)[k].state = "on"
  BY <1>1, OnBefore DEF Published
<1>3. CASE Resumes(h, n)
  <2>1. n = g + 1 /\ h.pause # NoPause
    BY <1>3 DEF Resumes
  <2>2. g \in Nat
    BY <2>1, ResumeIs, Extent
  <2>3. m <= g
    BY <1>1, <2>1, <2>2
  <2> DEFINE Moved == {j \in Nat : m <= j /\ j <= g /\ Prices(h)[j].price # Prices(h)[m].price}
  <2>4. Moved = {}
    <3> SUFFICES ASSUME Moved # {} PROVE FALSE
      OBVIOUS
    <3>1. Moved \in SUBSET Nat
      OBVIOUS
    <3>2. PICK j \in Moved : \A i \in Moved : j <= i
      <4> HIDE DEF Moved
      <4> QED BY <3>1, FirstNumber
    <3> HIDE DEF g
    <3>3. j \in Nat /\ m < j /\ j <= g
      BY <3>2, <1>1
    <3>4. /\ j - 1 \in Nat /\ m <= j - 1 /\ j - 1 <= g /\ ~(j <= j - 1) /\ j \in 1 .. LastTick
          /\ j \in 0 .. n /\ j < n /\ ~(j <= m) /\ j - 1 \in 0 .. LastTick
      BY <3>3, <1>1, <2>1, <2>2
    <3>5. Prices(h)[j - 1].price = Prices(h)[m].price
      BY <3>2, <3>4
    <3>6. j \notin Published(h)
      BY <3>4
    <3>7. Skipped(h, j)
      BY <3>4, <3>6, <1>2 DEF Published
    <3>8. Prices(h)[j] = Prices(h)[j - 1]
      BY <3>4, <3>7, PriceMoves, PricesWalk
    <3> QED BY <3>2, <3>5, <3>8
  <2>5. Prices(h)[g].price = Prices(h)[m].price
    <3> HIDE DEF g
    <3> QED BY <2>2, <2>3, <2>4
  <2> QED BY <1>3, <2>3, <2>5
<1>4. CASE ~Resumes(h, n)
  <2>1. n - 1 \in Published(h)
    <3>1. n - 1 \in 1 .. LastTick /\ n - 1 \in 0 .. n
      BY <1>1
    <3>2. ~Skipped(h, n - 1)
      <4> SUFFICES ASSUME Skipped(h, n - 1) PROVE FALSE
        OBVIOUS
      <4>1. h.pause < n - 1 /\ n - 1 <= g
        BY DEF Skipped
      <4>2. h.pause # NoPause /\ h.pause \in Nat
        BY <4>1, <1>1 DEF IsHistory, NoPause
      <4>3. g \in Nat
        BY <4>2, ResumeIs, Extent
      <4>4. ~(n <= g)
        BY <1>1, <4>1, <4>2 DEF Skipped
      <4> HIDE DEF g
      <4>5. n = g + 1
        BY <1>1, <4>1, <4>3, <4>4
      <4> QED BY <1>4, <4>2, <4>5 DEF Resumes, g
    <3> QED BY <3>1, <3>2, <1>2 DEF Published
  <2>2. n - 1 <= m
    BY <1>1, <2>1
  <2> QED BY <1>1, <1>4, <2>2
<1> QED BY <1>3, <1>4

-----------------------------------------------------------------------------
(* What the verifier makes of evidence that is as it was made *)

LEMMA WorstIs ==
    ASSUME NEW S, S \subseteq {Fine, Incomplete}
    PROVE  Worst(S) \in {Fine, Incomplete} /\ (S \subseteq {Fine} => Worst(S) = Fine)
<1>1. \E x \in S \union {Fine} : \A y \in S : y <= x
  BY DEF Fine, Incomplete
<1>2. Worst(S) \in S \union {Fine}
  <2> DEFINE w == CHOOSE x \in S \union {Fine} : \A y \in S : y <= x
  <2>1. w \in S \union {Fine}
    BY <1>1
  <2> QED BY <2>1 DEF Worst
<1> QED BY <1>2

AllGenuine(receipts, subject) == \A r \in receipts : Verifies(r, subject)
InTime(o, receipts, deadline) ==
    \A w \in o.required : \E r \in receipts : r.provider = w /\ \A x \in deadline : r.at < x

LEMMA ReceiptsPass ==
    ASSUME NEW o, NEW subject, NEW receipts, NEW deadline,
           AllGenuine(receipts, subject)
    PROVE  /\ checkReceipts(o, subject, receipts, deadline) \in {Fine, Incomplete}
           /\ ReceiptNotes(o, subject, receipts) = {}
           /\ o.roots /\ InTime(o, receipts, deadline) => checkReceipts(o, subject, receipts, deadline) = Fine
<1> USE DEF AllGenuine, InTime
<1> DEFINE mine(w) == {r \in receipts : r.provider = w}
           ok(w) == {r \in mine(w) : Verifies(r, subject)}
           level(w) == IF ~o.roots \/ mine(w) = {} THEN Incomplete
                       ELSE IF ok(w) = {} THEN Wrong
                       ELSE IF \E r \in ok(w) : \A x \in deadline : r.at < x THEN Fine ELSE Incomplete
           levels == {level(w) : w \in o.required}
<1>1. checkReceipts(o, subject, receipts, deadline) = Worst(levels)
  BY DEF checkReceipts
<1>2. \A w : mine(w) # {} => ok(w) # {}
  OBVIOUS
<1>3. \A w : level(w) \in {Fine, Incomplete}
  <2> SUFFICES ASSUME NEW w PROVE level(w) \in {Fine, Incomplete}
    OBVIOUS
  <2>1. mine(w) # {} => ok(w) # {}
    BY <1>2
  <2> QED BY <2>1, Zenon
<1>4. ASSUME o.roots, \A w \in o.required : \E r \in receipts : r.provider = w /\ \A x \in deadline : r.at < x
      PROVE  \A w \in o.required : level(w) = Fine
  <2> SUFFICES ASSUME NEW w \in o.required PROVE level(w) = Fine
    OBVIOUS
  <2>1. \E r \in ok(w) : \A x \in deadline : r.at < x
    BY <1>4
  <2>2. mine(w) # {} /\ ok(w) # {}
    BY <2>1
  <2> HIDE DEF mine, ok
  <2> QED BY <2>1, <2>2, <1>4
<1> HIDE DEF level
<1>5. levels \subseteq {Fine, Incomplete}
  BY <1>3
<1>6. ReceiptNotes(o, subject, receipts) = {}
  BY DEF ReceiptNotes
<1>7. (\A w \in o.required : level(w) = Fine) => levels \subseteq {Fine}
  OBVIOUS
<1> HIDE DEF levels
<1> QED BY <1>1, <1>4, <1>5, <1>6, <1>7, WorstIs

LEMMA SignaturePasses ==
    ASSUME NEW p, p.keys = {"published", "retired"}, NEW o, o.pinned \in BOOLEAN, NEW subject, NEW sig,
           sig = [key |-> "published", of |-> subject]
    PROVE  /\ checkSignature(p, o, subject, sig) \in {Fine, Incomplete}
           /\ o.pinned => checkSignature(p, o, subject, sig) = Fine
           /\ SignatureNotes(checkSignature(p, o, subject, sig)) = {}
<1>1. sig.key = "published" /\ sig.of = subject
  OBVIOUS
<1>2. checkSignature(p, o, subject, sig) = IF o.pinned THEN Fine ELSE Incomplete
  BY <1>1 DEF checkSignature
<1> QED BY <1>2 DEF SignatureNotes, Fine, Incomplete, Wrong

\* A checkpoint of a tick is signed, and received by every service.
Reads(p, o) ==
    /\ p.keys = {"published", "retired"}
    /\ o.pinned \in BOOLEAN /\ o.roots \in BOOLEAN /\ o.required = Providers
Attests(p, o, c, t) ==
    /\ c.no = t.no /\ c.tickHash = t.hash /\ c.tick = t /\ c.sig.key # "none"
    /\ checkSignature(p, o, checkpointHash(c), c.sig) \in {Fine, Incomplete}
    /\ o.pinned => checkSignature(p, o, checkpointHash(c), c.sig) = Fine
    /\ SignatureNotes(checkSignature(p, o, checkpointHash(c), c.sig)) = {}
    /\ checkReceipts(o, checkpointHash(c), c.receipts, {}) \in {Fine, Incomplete}
    /\ o.roots => checkReceipts(o, checkpointHash(c), c.receipts, {}) = Fine
    /\ ReceiptNotes(o, checkpointHash(c), c.receipts) = {}

LEMMA CheckpointPasses ==
    ASSUME NEW p, NEW o, Reads(p, o), NEW t
    PROVE  Attests(p, o, Checkpoint(t), t)
<1>0. /\ p.keys = {"published", "retired"}
      /\ o.pinned \in BOOLEAN /\ o.roots \in BOOLEAN /\ o.required = Providers
  BY DEF Reads
<1> DEFINE c == Checkpoint(t)
           s == checkpointHash([no |-> t.no, tickHash |-> t.hash])
           R == {Receipt(s, w, t.at + 1) : w \in Providers}
<1>1. c = [no |-> t.no, tickHash |-> t.hash, tick |-> t, sig |-> [key |-> "published", of |-> s], receipts |-> R]
  BY DEF Checkpoint
<1> HIDE DEF s, R, c
<1>2. /\ c.no = t.no /\ c.tickHash = t.hash /\ c.tick = t /\ c.sig = [key |-> "published", of |-> s]
      /\ c.receipts = R
  BY <1>1
<1>3. s = checkpointHash(c)
  <2>1. s = <<"checkpoint", t.no, t.hash>>
    BY DEF s, checkpointHash
  <2> QED BY <1>2, <2>1, Zenon DEF checkpointHash
<1>4. AllGenuine(R, s) /\ InTime(o, R, {})
  <2>1. \A w : LET r == Receipt(s, w, t.at + 1) IN r.provider = w /\ r.genuine /\ r.of = s
    BY DEF Receipt
  <2> QED BY <1>0, <2>1, Zenon DEF R, Verifies, AllGenuine, InTime
<1>5. /\ checkReceipts(o, s, R, {}) \in {Fine, Incomplete} /\ ReceiptNotes(o, s, R) = {}
      /\ o.roots => checkReceipts(o, s, R, {}) = Fine
  BY <1>4, ReceiptsPass, Zenon
<1>6. /\ checkSignature(p, o, s, c.sig) \in {Fine, Incomplete} /\ (o.pinned => checkSignature(p, o, s, c.sig) = Fine)
      /\ SignatureNotes(checkSignature(p, o, s, c.sig)) = {}
  BY <1>0, <1>2, SignaturePasses
<1>7. c.sig.key # "none"
  BY <1>2
<1> QED BY <1>2, <1>3, <1>5, <1>6, <1>7, Zenon DEF c, Attests

-----------------------------------------------------------------------------
(* A tick that was published against what its record, its seed and the tick before say *)

\* Of natural numbers the quotient that drops the fraction is the floor.
LEMMA WholeIs ==
    ASSUME NEW a \in Nat, NEW b \in Nat \ {0}
    PROVE  Truncated(a, b) = a \div b
BY DEF Truncated, Abs

\* The deadline of a day lies in it, and no later than the first tick it makes tradable;
\* the database and the verifier, which divide differently, agree on it.
LEMMA DeadlineIs ==
    ASSUME NEW c, c.t0 \in Nat, c.gen \in Nat, NEW start \in Nat
    PROVE  /\ witnessDeadline(c, start) \in Int /\ start <= witnessDeadline(c, start)
           /\ v3_witness_deadline(c, start) = witnessDeadline(c, start)
           /\ \A n \in Nat : start <= c.t0 + n * Interval /\ c.gen < n =>
                  witnessDeadline(c, start) <= c.t0 + n * Interval
<1> DEFINE t0 == c.t0
           q == (t0 - start) \div Interval
           r == (start - t0 + Interval - 1) \div Interval
           tradable == t0 + Interval * (IF start <= t0 THEN -q ELSE r)
           first == t0 + (c.gen + 1) * Interval
<1>0. Interval \in Nat \ {0} /\ t0 \in Nat
  BY Scales DEF Scales
<1>1. /\ witnessDeadline(c, start) = IF tradable > first THEN tradable ELSE first
      /\ v3_witness_deadline(c, start) = IF first > tradable THEN first ELSE tradable
  <2>1. CASE start <= t0
    <3>1. t0 - start \in Nat /\ -(start - t0) = t0 - start /\ start - t0 <= 0
      BY <1>0, <2>1
    <3>2. Truncated(-(start - t0), Interval) = q
      BY <1>0, <3>1, WholeIs, Zenon
    <3> HIDE DEF q
    <3> QED BY <2>1, <3>1, <3>2, Zenon DEF witnessDeadline, v3_witness_deadline, Larger, q
  <2>2. CASE ~(start <= t0)
    <3>1. start - t0 + Interval - 1 \in Nat /\ ~(start - t0 <= 0)
      BY <1>0, <2>2
    <3>2. Truncated(start - t0 + Interval - 1, Interval) = r
      BY <1>0, <3>1, WholeIs, Zenon
    <3> QED BY <2>2, <3>1, <3>2, Zenon DEF witnessDeadline, v3_witness_deadline, Larger
  <2> QED BY <2>1, <2>2
<1>2. first \in Int /\ \A n \in Nat : c.gen < n => first <= t0 + n * Interval
  <2>1. \A a, b \in Nat : a <= b => a * Interval <= b * Interval
    BY <1>0, SMTT(30)
  <2>2. \A a \in Nat : a * Interval \in Nat
    BY <1>0
  <2> SUFFICES ASSUME NEW n \in Nat PROVE first \in Int /\ (c.gen < n => first <= t0 + n * Interval)
    OBVIOUS
  <2> DEFINE x == (c.gen + 1) * Interval
             y == n * Interval
  <2>3. x \in Nat /\ y \in Nat /\ (c.gen + 1 <= n => x <= y)
    BY <2>1, <2>2
  <2> HIDE DEF x, y, t0
  <2>4. t0 + x \in Int /\ (c.gen < n => t0 + x <= t0 + y)
    BY <1>0, <2>3
  <2> QED BY <2>4 DEF x, y
<1>3. tradable \in Int /\ start <= tradable
      /\ \A n \in Nat : start <= t0 + n * Interval => tradable <= t0 + n * Interval
  <2>1. CASE start <= t0
    <3>1. t0 - start \in Int
      BY <1>0
    <3>2. q \in Int /\ Interval * q <= t0 - start /\ t0 - start < Interval * q + Interval
      <4> DEFINE x == t0 - start
      <4> HIDE DEF x
      <4> QED BY <1>0, <3>1, DivFacts DEF x
    <3>3. q \in Nat
      BY <3>1, <1>0, <2>1, DivFacts
    <3> HIDE DEF q
    <3> DEFINE m == Interval * q
    <3>4. m \in Nat /\ Interval * (-q) = -m
      BY <1>0, <3>3
    <3>5. tradable = t0 - m
      BY <2>1, <3>4, <1>0
    <3>6. \A n \in Nat : n * Interval \in Nat
      BY <1>0
    <3> HIDE DEF m, tradable
    <3> QED BY <3>2, <3>4, <3>5, <3>6, <1>0 DEF m
  <2>2. CASE ~(start <= t0)
    <3> DEFINE x == start - t0
    <3>1. x \in Nat \ {0} /\ x + Interval - 1 \in Int /\ r = (x + Interval - 1) \div Interval
      BY <1>0, <2>2
    <3>2. r \in Int /\ Interval * r <= x + Interval - 1 /\ x + Interval - 1 < Interval * r + Interval
      <4> DEFINE y == x + Interval - 1
      <4> HIDE DEF x, y, r
      <4>1. y \in Int /\ r = y \div Interval
        BY <3>1 DEF y
      <4>2. r \in Int /\ Interval * r <= y /\ y < Interval * r + Interval
        BY <4>1, <1>0, DivFacts
      <4> QED BY <4>2 DEF y
    <3>3. tradable = t0 + Interval * r /\ start = t0 + x
      BY <2>2, <1>0
    <3> HIDE DEF r, x, tradable
    <3>4. \A n \in Nat : x <= n * Interval => Interval * r <= n * Interval
      <4> SUFFICES ASSUME NEW n \in Nat, x <= n * Interval PROVE Interval * r <= n * Interval
        OBVIOUS
      <4>1. r <= n
        <5> SUFFICES ASSUME n + 1 <= r PROVE FALSE
          BY <3>2
        <5>1. Interval * (n + 1) <= Interval * r
          BY <3>2, <1>0, SMTT(30)
        <5>2. Interval * (n + 1) = n * Interval + Interval /\ n * Interval \in Nat /\ Interval * r \in Int
          BY <3>2, <1>0
        <5> DEFINE u == n * Interval
                   v == Interval * r
        <5>3. u + Interval <= v /\ v <= x + Interval - 1 /\ x <= u /\ u \in Nat /\ v \in Int
          BY <5>1, <5>2, <3>2
        <5> HIDE DEF u, v
        <5> QED BY <5>3, <3>1, <1>0
      <4> QED BY <4>1, <3>2, <1>0, SMTT(30)
    <3> DEFINE v == Interval * r
    <3>5. v \in Int /\ x <= v /\ tradable = t0 + v /\ \A n \in Nat : x <= n * Interval => v <= n * Interval
      BY <3>1, <3>2, <3>3, <3>4, <1>0
    <3> HIDE DEF v, t0
    <3>6. tradable \in Int /\ start <= tradable
      BY <3>1, <3>3, <3>5, <1>0
    <3>7. ASSUME NEW n \in Nat, start <= t0 + n * Interval PROVE tradable <= t0 + n * Interval
      <4> DEFINE y == n * Interval
      <4>1. y \in Nat /\ start <= t0 + y /\ (x <= y => v <= y)
        BY <3>5, <3>7, <1>0
      <4> HIDE DEF y
      <4>2. tradable <= t0 + y
        BY <4>1, <3>1, <3>3, <3>5, <1>0
      <4> QED BY <4>2 DEF y
    <3> QED BY <3>6, <3>7
  <2> QED BY <2>1, <2>2
<1> HIDE DEF tradable, first
<1>4. tradable \in Int /\ first \in Int
  BY <1>2, <1>3
<1>5. v3_witness_deadline(c, start) = witnessDeadline(c, start)
  BY <1>1, <1>4
<1> QED BY <1>1, <1>2, <1>3, <1>5

\* The day, the time and the configuration of a tick go together.
LEMMA RecordIs ==
    ASSUME NEW h, IsHistory(h), NEW n \in Published(h)
    PROVE  LET t == Series(h)[n] IN
           /\ n \in 1 .. LastTick /\ t.no = n /\ t.day = DayOf(h, n) /\ t.day \in Days
           /\ t.cfg = Config(h, t.day) /\ LikeFirst(h, t.cfg) /\ t.cfg.gen \in Nat /\ t.cfg.gen < n
           /\ t.cfg = Ledger(h)[t.day].cfg /\ t.commitment = Ledger(h)[t.day].commitment
           /\ t.hash = tickHash(t) /\ t.digit = t.price % 10
           /\ t.at = scheduledMs(t.cfg, n) /\ t.day * Day = epochStartMs(t.at)
           /\ t.at >= witnessDeadline(t.cfg, t.day * Day)
<1> DEFINE t == Series(h)[n]
           c == Config(h, t.day)
<1>1. n \in 1 .. LastTick /\ n \in 0 .. LastTick /\ n \in Nat /\ n # 0 /\ LastTick \in Nat
  BY Extent DEF Published
<1>2. IsTickOf(h, n, t)
  BY TickIs
<1>3. t.no = n /\ t.day = DayOf(h, n) /\ t.day \in Days /\ t.day \in Nat
  BY <1>1, <1>2, DaysOfTicks DEF IsTickOf, IsHistory
<1>4. LikeFirst(h, c) /\ c.t0 = h.t0
  BY ConfigIs DEF LikeFirst
<1>5. t.cfg = c /\ t.cfg = Ledger(h)[t.day].cfg /\ t.commitment = Ledger(h)[t.day].commitment
  BY <1>2, <1>3, LedgerIs DEF IsTickOf
<1>6. t.hash = tickHash(t) /\ t.digit = t.price % 10 /\ t.at = scheduledMs(t.cfg, n)
  BY <1>2, <1>5 DEF IsTickOf
<1> HIDE DEF t, c
<1>7. c.gen \in Nat /\ c.gen < n
  <2>1. CASE h.pause = NoPause \/ t.day < ResumeDay
    <3>1. c = FirstConfig(h)
      BY <2>1, ConfigIs DEF c
    <3> QED BY <1>1, <3>1 DEF FirstConfig
  <2>2. CASE ~(h.pause = NoPause \/ t.day < ResumeDay)
    <3>1. c.gen = ResumeGenesis(h)
      BY <2>2, ConfigIs DEF c
    <3>2. ResumeGenesis(h) \in Nat /\ ~(n <= ResumeGenesis(h))
      BY <1>1, <1>3, <2>2, ResumeIs
    <3> QED BY <1>1, <3>1, <3>2
  <2> QED BY <2>1, <2>2
<1>8. t.at = h.t0 + n * Interval /\ h.t0 \in Nat
  BY <1>4, <1>5, <1>6 DEF scheduledMs, IsHistory
<1>9. t.day * Day = epochStartMs(t.at)
  BY <1>3, <1>8 DEF epochStartMs, DayOf
<1>10. t.at >= witnessDeadline(t.cfg, t.day * Day)
  <2>1. Day \in Nat \ {0} /\ Interval \in Nat \ {0}
    BY Scales DEF Scales
  <2>2. t.day * Day \in Nat /\ t.day * Day <= h.t0 + n * Interval
    <3>1. Day * t.day <= h.t0 + n * Interval
      BY <1>1, <1>3, <1>8, DaysOfTicks DEF IsHistory
    <3>2. Day * t.day = t.day * Day /\ t.day * Day \in Nat
      BY <1>3, <2>1
    <3> QED BY <3>1, <3>2
  <2> DEFINE start == t.day * Day
             due == witnessDeadline(c, start)
  <2> HIDE DEF start
  <2>3. start \in Nat /\ start <= c.t0 + n * Interval /\ c.t0 \in Nat
    BY <1>4, <1>8, <2>2 DEF start
  <2>4. due \in Int /\ due <= c.t0 + n * Interval
    BY <1>1, <1>7, <2>3, DeadlineIs
  <2>5. due <= t.at /\ t.at \in Int
    <3>1. n * Interval \in Nat
      BY <1>1, <2>1
    <3> QED BY <1>4, <1>8, <2>4, <3>1
  <2> HIDE DEF due
  <2> QED BY <1>5, <2>4, <2>5 DEF due, start
<1> QED BY <1>1, <1>3, <1>4, <1>5, <1>6, <1>7, <1>9, <1>10 DEF t, c

\* The price of a tick, computed again from the seed of its day.
LEMMA PriceAgain ==
    ASSUME NEW h, IsHistory(h), NEW n \in Published(h)
    PROVE  LET t == Series(h)[n] IN
           /\ t.prev = From(h, n) /\ InBand(t.cfg, t.price)
           /\ expectedUnits(t.cfg, t.prev, DrawOf(h.seeds[t.day + 1], t)) = t.price
<1> DEFINE t == Series(h)[n]
           draw == SeedDraw(h, n)
           e == FirstConfig(h)
           last == From(h, n)
<1>1. n \in 1 .. LastTick /\ n \in 0 .. LastTick /\ n - 1 \in 0 .. LastTick
  BY Extent DEF Published
<1>2. /\ Prices(h)[n].state = "on" /\ ~Skipped(h, n)
  BY DEF Published
<1>3. Walked(h, n - 1)
  BY <1>1, PricesWalk
<1>4. /\ last \in Nat /\ Prices(h)[n].prev = last
      /\ Prices(h)[n].price = transition(e, last, draw) /\ InBand(e, Prices(h)[n].price)
  BY <1>1, <1>2, <1>3, PriceMoves
<1>5. t.prev = last /\ t.price = Prices(h)[n].price
  BY <1>4, TickIs DEF IsTickOf
<1>6. LikeFirst(h, t.cfg) /\ LikeFirst(h, e)
  <2>1. LikeFirst(h, e)
    BY Zenon DEF LikeFirst, FirstConfig
  <2> QED BY <2>1, RecordIs
<1>7. Drawn(e, last, draw)
  BY <1>1, <1>4, SeedsYield, FirstDraws
<1> HIDE DEF last, e
<1>8. expectedUnits(e, last, draw) = t.price
  BY <1>4, <1>5, <1>7, UnitsAgree
<1>9. expectedUnits(t.cfg, last, draw) = expectedUnits(e, last, draw) /\ (InBand(t.cfg, t.price) <=> InBand(e, t.price))
  <2> HIDE DEF t, draw
  <2>1. /\ t.cfg.sigma = e.sigma /\ t.cfg.kappa = e.kappa /\ t.cfg.anchor = e.anchor
        /\ t.cfg.min = e.min /\ t.cfg.max = e.max
    BY <1>6 DEF LikeFirst
  <2> QED BY <2>1, Zenon DEF expectedUnits, InBand
<1>10. draw = DrawOf(h.seeds[t.day + 1], t)
  <2>1. t.day = DayOf(h, n) /\ t.at = h.t0 + n * Interval
    BY <1>6, RecordIs DEF scheduledMs, LikeFirst
  <2> HIDE DEF t
  <2> QED BY <2>1, Zenon DEF SeedDraw, DrawOf, draw
<1> HIDE DEF t, draw
<1>11. t.prev = last /\ InBand(t.cfg, t.price) /\ expectedUnits(t.cfg, t.prev, DrawOf(h.seeds[t.day + 1], t)) = t.price
  BY <1>4, <1>5, <1>8, <1>9, <1>10
<1> QED BY <1>11, Zenon DEF t, last

\* Where a tick starts anew it starts as its configuration says, and so does the first one.
Fresh(t) == t.no = t.cfg.gen + 1 /\ t.prev = t.cfg.units /\ t.prevHash = genesisHash(t.cfg)

LEMMA ResumeIsFresh ==
    ASSUME NEW h, IsHistory(h), NEW n \in Published(h), Resumes(h, n)
    PROVE  /\ Fresh(Series(h)[n]) /\ Series(h)[n].cfg.gen = ResumeGenesis(h)
           /\ Series(h)[n].cfg.units = ResumeUnits(Prices(h)[ResumeGenesis(h)].price, h.k)
<1> DEFINE t == Series(h)[n]
           g == ResumeGenesis(h)
<1>1. n = g + 1 /\ h.pause # NoPause
  BY DEF Resumes
<1>2. g \in Nat /\ DayOf(h, n) = ResumeDay /\ ~(ResumeDay < ResumeDay)
  BY <1>1, ResumeIs, Extent, Bounds DEF Bounds
<1>3. /\ t.no = n /\ t.day = ResumeDay /\ t.cfg = Config(h, t.day)
  BY <1>2, RecordIs
<1>4. t.prevHash = genesisHash(t.cfg)
  BY TickIs DEF IsTickOf
<1>5. t.prev = From(h, n)
  BY PriceAgain
<1>6. t.cfg.gen = g /\ t.cfg.units = ResumeUnits(Prices(h)[g].price, h.k)
  BY <1>1, <1>2, <1>3, ConfigIs
<1>7. From(h, n) = ResumeUnits(Prices(h)[n - 1].price, h.k) /\ n - 1 = g
  <2>1. n - 1 = g
    BY <1>1, <1>2
  <2> QED BY <2>1 DEF From
<1> HIDE DEF t, g
<1>8. Fresh(t)
  BY <1>1, <1>3, <1>4, <1>5, <1>6, <1>7 DEF Fresh
<1> QED BY <1>6, <1>8 DEF t, g

LEMMA FirstIsFresh ==
    ASSUME NEW h, IsHistory(h), 1 \in Published(h)
    PROVE  Fresh(Series(h)[1])
<1> DEFINE t == Series(h)[1]
           d == DayOf(h, 1)
<1>1. CASE Resumes(h, 1)
  BY <1>1, ResumeIsFresh
<1>2. CASE ~Resumes(h, 1)
  <2>1. h.pause = NoPause \/ d < ResumeDay
    <3> SUFFICES ASSUME h.pause # NoPause PROVE d < ResumeDay
      OBVIOUS
    <3>1. ResumeGenesis(h) \in Nat /\ (1 <= ResumeGenesis(h) => d < ResumeDay)
      BY ResumeIs, Extent
    <3>2. ResumeGenesis(h) # 0
      BY <1>2 DEF Resumes
    <3> QED BY <3>1, <3>2
  <2>2. /\ t.no = 1 /\ t.day = d /\ t.cfg = Config(h, t.day) /\ 1 \in 1 .. LastTick
    BY RecordIs
  <2>3. t.cfg = FirstConfig(h)
    BY <2>1, <2>2, ConfigIs
  <2>4. Ledger(h)[0].cfg = FirstConfig(h)
    <3>1. 0 \in Days /\ 0 < ResumeDay
      BY Extent, Bounds DEF Bounds
    <3> QED BY <3>1, LedgerIs, ConfigIs
  <2>5. t.prev = Anchor
    <3>1. t.prev = From(h, 1)
      BY PriceAgain
    <3>2. From(h, 1) = Prices(h)[0].price
      BY <1>2 DEF From
    <3>3. Prices(h)[0].price = Anchor
      BY PriceIs
    <3> QED BY <3>1, <3>2, <3>3
  <2>6. t.prevHash = genesisHash(Ledger(h)[0].cfg)
    BY <1>2, TickIs
  <2>7. FirstConfig(h).gen = 0 /\ FirstConfig(h).units = Anchor
    BY DEF FirstConfig
  <2> HIDE DEF t
  <2>8. Fresh(t)
    BY <2>2, <2>3, <2>4, <2>5, <2>6, <2>7 DEF Fresh
  <2> QED BY <2>8 DEF t
<1> QED BY <1>1, <1>2

\* A tick continues the one before it: it starts anew at a price scaled as the pause said,
\* or follows it.
LEMMA Continues ==
    ASSUME NEW h, IsHistory(h), h.k # 2, NEW n \in Published(h), NEW m \in Published(h), m < n,
           \A k \in Published(h) : k < n => k <= m
    PROVE  LET t == Series(h)[n]
               s == Series(h)[m]
           IN  IF t.cfg.gen >= s.no /\ t.no = t.cfg.gen + 1 THEN Scaled(t.cfg, s) /\ Fresh(t)
               ELSE t.no = s.no + 1 /\ t.prev = s.price /\ t.prevHash = s.hash
<1> DEFINE t == Series(h)[n]
           s == Series(h)[m]
           g == ResumeGenesis(h)
<1>1. /\ n \in 1 .. LastTick /\ m \in 1 .. LastTick /\ t.no = n /\ s.no = m /\ n \in Nat /\ m \in Nat
      /\ t.day = DayOf(h, n) /\ t.cfg = Config(h, t.day)
  BY RecordIs, Extent
<1>2. s.price = Prices(h)[m].price
  BY TickIs DEF IsTickOf
<1>3. CASE Resumes(h, n)
  <2>1. m <= g /\ Prices(h)[g].price = s.price
    BY <1>2, <1>3, Follows
  <2>2. Fresh(t) /\ t.cfg.gen = g /\ t.cfg.units = ResumeUnits(Prices(h)[g].price, h.k)
    BY <1>3, ResumeIsFresh
  <2>3. Scaled(t.cfg, s)
    <3>1. s.price \in Nat
      <4>1. m \in 0 .. LastTick /\ Prices(h)[m].state = "on"
        BY <1>1 DEF Published
      <4> QED BY <4>1, <1>2, PricesWalk DEF Walked
    <3>2. \A u \in Nat : floorDiv(u, 10) = u \div 10
      BY FloorsAgree
    <3>3. h.k \in {-1, 0, 1}
      BY DEF IsHistory
    <3>4. t.cfg.units = rescaleUnits(s.price, h.k)
      BY <2>1, <2>2, <3>3 DEF ResumeUnits
    <3> HIDE DEF t, s
    <3> QED BY <3>1, <3>2, <3>3, <3>4 DEF Scaled, rescaleUnits
  <2>4. t.cfg.gen >= s.no /\ t.no = t.cfg.gen + 1
    BY <1>1, <2>1, <2>2 DEF Fresh
  <2> QED BY <2>2, <2>3, <2>4
<1>4. CASE ~Resumes(h, n)
  <2>1. m = n - 1
    BY <1>4, Follows
  <2>2. t.prevHash = s.hash
    BY <1>4, <2>1, TickIs
  <2>3. t.prev = s.price
    <3>1. t.prev = From(h, n)
      BY PriceAgain
    <3> QED BY <1>2, <1>4, <2>1, <3>1 DEF From
  <2>4. ~(t.cfg.gen >= s.no /\ t.no = t.cfg.gen + 1)
    <3>1. CASE h.pause = NoPause \/ t.day < ResumeDay
      <4>1. t.cfg.gen = 0
        BY <1>1, <3>1, ConfigIs DEF FirstConfig
      <4> QED BY <1>1, <4>1
    <3>2. CASE ~(h.pause = NoPause \/ t.day < ResumeDay)
      <4>1. t.cfg.gen = g /\ h.pause # NoPause
        BY <1>1, <3>2, ConfigIs
      <4> QED BY <1>1, <1>4, <4>1 DEF Resumes
    <3> QED BY <3>1, <3>2
  <2>5. t.no = s.no + 1
    BY <1>1, <2>1
  <2> QED BY <2>2, <2>3, <2>4, <2>5
<1> QED BY <1>3, <1>4

-----------------------------------------------------------------------------
(* The package of a range of ticks *)

Near(h, from, to) == {d \in Days : \E n \in Published(h) : from - 1 <= n /\ n <= to /\ DayOf(h, n) = d}
InRange(h, from, to) == {m \in Published(h) : from <= m /\ m <= to}

EpochOf(h, r, d, near) ==
    /\ r.seedHash = h.seeds[d + 1] /\ r.cfg = Config(h, d) /\ r.prev = Ledger(h)[d].prev
    /\ r.commitment = Ledger(h)[d].commitment /\ r.sig = [key |-> "published", of |-> r.commitment]
    /\ r.seed \in {r.seedHash, NoSeed} /\ (near /\ d < h.revealed => r.seed = r.seedHash)
    /\ near => r.receipts = ReceiptsOf(h, r.commitment, d)
    /\ r.deadline \subseteq {v3_witness_deadline(r.cfg, d * Day)}

ContractsOf(h, to) ==
    {Contract(Series(h)[n], bet[1], bet[2]) : n \in {to} \intersect Published(h), bet \in Bets}

Exported(h, p, from, to) ==
    /\ from \in {1, 3} /\ to \in Int /\ InRange(h, from, to) # {}
    /\ from # 1 => from - 1 \in Published(h)
    /\ p.keys = {"published", "retired"}
    /\ p.configs = {Config(h, d) : d \in Near(h, from, to)}
    /\ DOMAIN p.epochs = {d \in Days : \E e \in Near(h, from, to) : d <= e}
    /\ \A d \in DOMAIN p.epochs : EpochOf(h, p.epochs[d], d, d \in Near(h, from, to))
    /\ p.anchor = IF from = 1 THEN {} ELSE {Checkpoint(Series(h)[from - 1])}
    /\ DOMAIN p.ticks = InRange(h, from, to) /\ \A n \in InRange(h, from, to) : p.ticks[n] = Series(h)[n]
    /\ p.checkpoints = {Checkpoint(Series(h)[n]) : n \in {to} \intersect Published(h)}
    /\ p.contracts = ContractsOf(h, to)

LEMMA ExportIs ==
    ASSUME series = Series(hist), NEW from \in {1, 3}, NEW to \in Int,
           from # 1 => from - 1 \in DOMAIN series, \E n \in DOMAIN series : from <= n /\ n <= to
    PROVE  Exported(hist, Export(Ledger(hist), from, to), from, to)
<1> DEFINE h == hist
           ledger == Ledger(hist)
           near == {d \in Days : \E n \in DOMAIN series : from - 1 <= n /\ n <= to /\ series[n].day = d}
           upTo == {d \in Days : \E e \in near : d <= e}
           epoch(d) == [seedHash |-> ledger[d].seedHash, cfg |-> ledger[d].cfg, prev |-> ledger[d].prev,
             commitment |-> ledger[d].commitment, sig |-> [key |-> "published", of |-> ledger[d].commitment],
             seed |-> IF d \in near /\ d < hist.revealed THEN ledger[d].seedHash ELSE NoSeed,
             deadline |-> IF d \in near THEN {v3_witness_deadline(ledger[d].cfg, d * Day)} ELSE {},
             receipts |-> IF d \in near THEN ReceiptsOf(hist, ledger[d].commitment, d) ELSE {}]
           configs == {ledger[d].cfg : d \in near}
           epochs == [d \in upTo |-> epoch(d)]
           anchor == IF from = 1 THEN {} ELSE {Checkpoint(series[from - 1])}
           ticks == [n \in {m \in DOMAIN series : from <= m /\ m <= to} |-> series[n]]
           checkpoints == {Checkpoint(series[n]) : n \in {to} \intersect DOMAIN series}
           contracts == {Contract(series[n], bet[1], bet[2]) : n \in {to} \intersect DOMAIN series, bet \in Bets}
           p == Export(ledger, from, to)
<1>1. p = [configs |-> configs, keys |-> {"published", "retired"}, epochs |-> epochs, anchor |-> anchor,
           ticks |-> ticks, checkpoints |-> checkpoints, contracts |-> contracts]
  BY DEF Export
<1>2. DOMAIN series = Published(h)
  BY SeriesAre
<1>3. \A n \in Published(h) : series[n].day = DayOf(h, n)
  BY TickIs DEF IsTickOf
<1>4. near = Near(h, from, to)
  BY <1>2, <1>3 DEF Near
<1>5. \A d \in Days : ledger[d].seedHash = h.seeds[d + 1] /\ ledger[d].cfg = Config(h, d)
  BY LedgerIs
<1>6. configs = {Config(h, d) : d \in near}
  <2>1. \A d \in near : ledger[d].cfg = Config(h, d)
    BY <1>5
  <2> HIDE DEF near, ledger
  <2> QED BY <2>1
<1>7. DOMAIN epochs = upTo /\ \A d \in upTo : epochs[d] = epoch(d)
  OBVIOUS
<1>8. \A d \in upTo : EpochOf(h, epochs[d], d, d \in near)
  <2> SUFFICES ASSUME NEW d \in upTo PROVE EpochOf(h, epochs[d], d, d \in near)
    OBVIOUS
  <2> DEFINE r == epochs[d]
             S == IF d \in near /\ d < hist.revealed THEN ledger[d].seedHash ELSE NoSeed
             R == IF d \in near THEN ReceiptsOf(hist, ledger[d].commitment, d) ELSE {}
             due == IF d \in near THEN {v3_witness_deadline(ledger[d].cfg, d * Day)} ELSE {}
  <2>1. r = [seedHash |-> ledger[d].seedHash, cfg |-> ledger[d].cfg, prev |-> ledger[d].prev,
             commitment |-> ledger[d].commitment, sig |-> [key |-> "published", of |-> ledger[d].commitment],
             seed |-> S, deadline |-> due, receipts |-> R]
    BY <1>7
  <2>2. d \in Days
    OBVIOUS
  <2> HIDE DEF r, S, R, due, ledger, near
  <2>3. /\ r.seedHash = ledger[d].seedHash /\ r.cfg = ledger[d].cfg /\ r.prev = ledger[d].prev
        /\ r.commitment = ledger[d].commitment /\ r.sig = [key |-> "published", of |-> r.commitment]
        /\ r.seed = S /\ r.receipts = R /\ r.deadline = due
    BY <2>1
  <2>4. S \in {ledger[d].seedHash, NoSeed} /\ (d \in near /\ d < h.revealed => S = ledger[d].seedHash)
    BY DEF S
  <2>5. (d \in near => R = ReceiptsOf(h, ledger[d].commitment, d)) 
        /\ due \subseteq {v3_witness_deadline(ledger[d].cfg, d * Day)}
    BY DEF R, due
  <2>6. ledger[d].seedHash = h.seeds[d + 1] /\ ledger[d].cfg = Config(h, d)
    BY <1>5, <2>2
  <2>7. EpochOf(h, r, d, d \in near)
    BY <2>3, <2>4, <2>5, <2>6, Zenon DEF EpochOf, ledger
  <2> QED BY <2>7 DEF r
<1>9. DOMAIN ticks = InRange(h, from, to) /\ \A n \in InRange(h, from, to) : ticks[n] = Series(h)[n]
  BY <1>2 DEF InRange
<1>10. InRange(h, from, to) # {} /\ (from # 1 => from - 1 \in Published(h))
  BY <1>2 DEF InRange
<1>11. checkpoints = {Checkpoint(Series(h)[n]) : n \in {to} \intersect Published(h)}
       /\ contracts = ContractsOf(h, to)
       /\ anchor = IF from = 1 THEN {} ELSE {Checkpoint(Series(h)[from - 1])}
  BY <1>2 DEF ContractsOf
<1>12. upTo = {d \in Days : \E e \in Near(h, from, to) : d <= e}
  BY <1>4
<1> HIDE DEF configs, epochs, anchor, ticks, checkpoints, contracts, near, upTo, p, ledger
<1>13. /\ p.configs = configs /\ p.keys = {"published", "retired"} /\ p.epochs = epochs /\ p.anchor = anchor
       /\ p.ticks = ticks /\ p.checkpoints = checkpoints /\ p.contracts = contracts
  BY <1>1
<1>14. /\ p.configs = {Config(h, d) : d \in Near(h, from, to)}
       /\ DOMAIN p.epochs = {d \in Days : \E e \in Near(h, from, to) : d <= e}
       /\ \A d \in DOMAIN p.epochs : EpochOf(h, p.epochs[d], d, d \in Near(h, from, to))
  BY <1>4, <1>6, <1>7, <1>8, <1>12, <1>13
<1> HIDE DEF h
<1>15. Exported(h, p, from, to)
  <2>1. p.anchor = IF from = 1 THEN {} ELSE {Checkpoint(Series(h)[from - 1])}
    BY <1>11, <1>13, Zenon
  <2>2. DOMAIN p.ticks = InRange(h, from, to) /\ \A n \in InRange(h, from, to) : p.ticks[n] = Series(h)[n]
    BY <1>9, <1>13, Zenon
  <2>3. p.checkpoints = {Checkpoint(Series(h)[n]) : n \in {to} \intersect Published(h)}
    BY <1>11, <1>13, Zenon
  <2>4. p.contracts = ContractsOf(h, to)
    BY <1>11, <1>13, Zenon
  <2>5. p.keys = {"published", "retired"} /\ from \in {1, 3} /\ to \in Int
    BY <1>13, Zenon
  <2> QED BY <1>10, <1>14, <2>1, <2>2, <2>3, <2>4, <2>5, Zenon DEF Exported
<1> QED BY <1>15 DEF p, ledger, h

\* A history that nothing is amiss with, the reader's documents, and the package of a range.
Honest(h, o, p, from, to) ==
    /\ IsHistory(h) /\ h.k # 2 /\ h.receipts \in {"early", "late", "missing"}
    /\ o.pinned \in BOOLEAN /\ o.roots \in BOOLEAN /\ o.required = Providers
    /\ Exported(h, p, from, to)

LEMMA ConfigsPass ==
    ASSUME NEW h, NEW o, NEW p, NEW from, NEW to, Honest(h, o, p, from, to)
    PROVE  ConfigNotes(p) = {}
<1>1. \A c \in p.configs : \E d \in Near(h, from, to) : c = Config(h, d)
  BY DEF Honest, Exported
<1>2. \A c \in p.configs : c.sigma = perTickSigma(c.vol)
  <2> SUFFICES ASSUME NEW c \in p.configs PROVE c.sigma = perTickSigma(c.vol)
    OBVIOUS
  <2>1. LikeFirst(h, c)
    BY <1>1, ConfigIs
  <2>2. sigmaE12(Vol) = perTickSigma(Vol)
    BY SigmasAgree, Drawing DEF Drawing
  <2> QED BY <2>1, <2>2 DEF LikeFirst
<1> QED BY <1>2, Zenon DEF ConfigNotes

\* The days of a package chain from the first one.
LEMMA EpochsPass ==
    ASSUME NEW h, NEW o, NEW p, NEW from, NEW to, Honest(h, o, p, from, to), NEW d \in DOMAIN p.epochs
    PROVE  /\ EpochFault(p, o, d) = {} /\ EpochNotes(p, o, d) = {}
           /\ SignatureOf(p, o, d) \in {Fine, Incomplete} /\ (o.pinned => SignatureOf(p, o, d) = Fine)
<1> DEFINE D == DOMAIN p.epochs
           r == p.epochs[d]
<1>1. D = {e \in Days : \E f \in Near(h, from, to) : e <= f} /\ d \in Days
  BY DEF Honest, Exported
<1>2. EpochOf(h, r, d, d \in Near(h, from, to))
  BY DEF Honest, Exported
<1>3. \A e \in D : p.epochs[e].commitment = Ledger(h)[e].commitment
  BY DEF Honest, Exported, EpochOf
<1>4. /\ SignatureOf(p, o, d) \in {Fine, Incomplete} /\ (o.pinned => SignatureOf(p, o, d) = Fine)
      /\ SignatureNotes(SignatureOf(p, o, d)) = {}
  <2>1. r.sig = [key |-> "published", of |-> r.commitment]
    BY <1>2 DEF EpochOf
  <2>2. p.keys = {"published", "retired"} /\ o.pinned \in BOOLEAN
    BY DEF Honest, Exported
  <2> HIDE DEF r
  <2>3. SignatureOf(p, o, d) = checkSignature(p, o, r.commitment, r.sig)
    BY DEF SignatureOf, r
  <2> QED BY <2>1, <2>2, <2>3, SignaturePasses
<1>5. Recomputed(p, d)
  <2>1. /\ Ledger(h)[d].commitment = commitmentHash(d, Ledger(h)[d].seedHash, Ledger(h)[d].cfg, Ledger(h)[d].prev)
        /\ Ledger(h)[d].seedHash = h.seeds[d + 1] /\ Ledger(h)[d].cfg = Config(h, d)
    BY <1>1, LedgerIs
  <2> HIDE DEF r
  <2>2. /\ r.commitment = commitmentHash(d, r.seedHash, r.cfg, r.prev) /\ (r.seed # NoSeed => r.seed = r.seedHash)
    BY <1>2, <2>1, Zenon DEF EpochOf
  <2> QED BY <2>2 DEF Recomputed, r
<1>6. EpochFault(p, o, d) = {}
  BY <1>4, <1>5 DEF EpochFault
<1>7. IF d = Least(D) THEN r.prev = Zero ELSE d - 1 \in D /\ r.prev = p.epochs[d - 1].commitment
  <2>1. 0 \in D /\ D \subseteq Nat
    <3>1. Days \subseteq Nat /\ 0 \in Days
      BY Extent
    <3>2. Near(h, from, to) \subseteq Days
      BY DEF Near
    <3>3. PICK f \in Near(h, from, to) : d <= f
      BY <1>1
    <3>4. 0 <= f
      <4>1. f \in Nat
        BY <3>1, <3>2
      <4> QED BY <4>1
    <3> QED BY <1>1, <3>1, <3>4
  <2>2. Least(D) = 0
    <3> HIDE DEF D
    <3>1. \A m \in D : 0 <= m
      BY <2>1
    <3>2. \A n \in D : (\A m \in D : n <= m) => n = 0
      BY <2>1
    <3> QED BY <2>1, <3>1, <3>2 DEF Least
  <2>3. r.prev = Ledger(h)[d].prev
    BY <1>2 DEF EpochOf
  <2>4. CASE d = 0
    BY <2>2, <2>3, <2>4, LedgerIs
  <2>5. CASE d # 0
    <3>1. d - 1 \in D
      <4>1. d \in Nat /\ d - 1 \in Days
        BY <1>1, <2>5, Extent
      <4>2. PICK f \in Near(h, from, to) : d <= f
        BY <1>1
      <4>3. f \in Int
        BY <4>2, Extent DEF Near
      <4>4. d - 1 <= f
        BY <4>1, <4>2, <4>3
      <4> QED BY <1>1, <4>1, <4>4
    <3>2. Ledger(h)[d].prev = Ledger(h)[d - 1].commitment
      BY <1>1, <2>5, LedgerIs
    <3> QED BY <1>3, <2>2, <2>3, <2>5, <3>1, <3>2
  <2> QED BY <2>4, <2>5
<1> HIDE DEF D, r
<1>8. EpochNotes(p, o, d) = {}
  BY <1>4, <1>6, <1>7, Zenon DEF EpochNotes, D, r
<1> QED BY <1>4, <1>6, <1>8

\* The record before the range is what was published, signed and received.
LEMMA AnchorsPass ==
    ASSUME NEW h, NEW o, NEW p, NEW from, NEW to, Honest(h, o, p, from, to)
    PROVE  /\ AnchorSigned(p) = p.anchor /\ Anchors(p, o) \subseteq p.anchor
           /\ from = 1 => p.anchor = {}
           /\ from # 1 => p.anchor # {}
           /\ \A a \in p.anchor :
                 /\ from # 1 /\ a.tick = Series(h)[from - 1]
                 /\ AnchorLevel(p, o, a) \in {Fine, Incomplete} /\ (o.pinned => AnchorLevel(p, o, a) = Fine)
                 /\ AnchorReceipts(o, a) \in {Fine, Incomplete} /\ (o.roots => AnchorReceipts(o, a) = Fine)
           /\ o.roots => Anchors(p, o) = p.anchor
           /\ AnchorNotes(p, o) \subseteq {"missing_history"} /\ (o.roots => AnchorNotes(p, o) = {})
<1>1. /\ p.keys = {"published", "retired"} /\ o.pinned \in BOOLEAN /\ o.roots \in BOOLEAN /\ o.required = Providers
      /\ IsHistory(h)
  BY DEF Honest, Exported
<1>2. p.anchor = IF from = 1 THEN {} ELSE {Checkpoint(Series(h)[from - 1])}
  BY DEF Honest, Exported
<1>3. ASSUME NEW a \in p.anchor
      PROVE  /\ from # 1 /\ a.tick = Series(h)[from - 1] /\ a.sig.key # "none" /\ AnchorMatches(a)
             /\ AnchorLevel(p, o, a) \in {Fine, Incomplete} /\ (o.pinned => AnchorLevel(p, o, a) = Fine)
             /\ AnchorReceipts(o, a) \in {Fine, Incomplete} /\ (o.roots => AnchorReceipts(o, a) = Fine)
             /\ SignatureNotes(AnchorLevel(p, o, a)) = {} /\ ReceiptNotes(o, checkpointHash(a), a.receipts) = {}
  <2> DEFINE t == Series(h)[from - 1]
  <2>1. from # 1 /\ a = Checkpoint(t) /\ from - 1 \in Published(h)
    BY <1>2 DEF Honest, Exported
  <2>2. t.hash = tickHash(t)
    BY <1>1, <2>1, RecordIs
  <2> HIDE DEF t
  <2>3. /\ a.no = t.no /\ a.tickHash = t.hash /\ a.tick = t /\ a.sig.key # "none"
        /\ checkSignature(p, o, checkpointHash(a), a.sig) \in {Fine, Incomplete}
        /\ o.pinned => checkSignature(p, o, checkpointHash(a), a.sig) = Fine
        /\ SignatureNotes(checkSignature(p, o, checkpointHash(a), a.sig)) = {}
        /\ checkReceipts(o, checkpointHash(a), a.receipts, {}) \in {Fine, Incomplete}
        /\ o.roots => checkReceipts(o, checkpointHash(a), a.receipts, {}) = Fine
        /\ ReceiptNotes(o, checkpointHash(a), a.receipts) = {}
    <3>1. Attests(p, o, Checkpoint(t), t)
      BY <1>1, CheckpointPasses DEF Reads
    <3>2. Attests(p, o, a, t)
      BY <2>1, <3>1
    <3> QED BY <3>2, Zenon DEF Attests
  <2>4. AnchorMatches(a)
    BY <2>2, <2>3 DEF AnchorMatches
  <2> QED BY <2>1, <2>3, <2>4, Zenon DEF AnchorLevel, AnchorReceipts, t
<1>4. AnchorSigned(p) = p.anchor
  BY <1>3 DEF AnchorSigned
<1>5. Anchors(p, o) \subseteq p.anchor
  BY <1>4, Zenon DEF Anchors
<1>6. o.roots => Anchors(p, o) = p.anchor
  <2>1. \A a \in p.anchor : AnchorLevel(p, o, a) # Wrong
    BY <1>3 DEF Fine, Incomplete, Wrong
  <2> QED BY <1>3, <1>4, <2>1, Zenon DEF Anchors
<1>7. AnchorNotes(p, o) \subseteq {"missing_history"} /\ (o.roots => AnchorNotes(p, o) = {})
  <2> DEFINE note(a) == SignatureNotes(AnchorLevel(p, o, a)) \union ReceiptNotes(o, checkpointHash(a), a.receipts)
                        \union IF AnchorMatches(a) THEN {} ELSE {"broken_continuity"}
             left == IF \E a \in p.anchor : AnchorMatches(a) /\ a \notin Anchors(p, o) THEN {"missing_history"} ELSE {}
  <2>1. AnchorNotes(p, o) = (UNION {note(a) : a \in p.anchor}) \union left
    BY <1>4, Zenon DEF AnchorNotes
  <2>2. \A a \in p.anchor : note(a) = {}
    BY <1>3
  <2>3. left \subseteq {"missing_history"} /\ (o.roots => left = {})
    BY <1>6
  <2> HIDE DEF note, left
  <2> QED BY <2>1, <2>2, <2>3
<1>8. (from = 1 => p.anchor = {}) /\ (from # 1 => p.anchor # {})
  BY <1>2
<1> QED BY <1>3, <1>4, <1>5, <1>6, <1>7, <1>8

\* The record a tick is compared with is the last one published before it, if it is there.
LEMMA PriorIs ==
    ASSUME NEW h, NEW o, NEW p, NEW from, NEW to, Honest(h, o, p, from, to), NEW n \in DOMAIN p.ticks
    PROVE  \/ Prior(p, o, n) = {} /\ (n = 1 \/ ~o.roots)
           \/ \E m \in Published(h) :
                 m < n /\ (\A k \in Published(h) : k < n => k <= m) /\ Prior(p, o, n) = {Series(h)[m]}
<1> DEFINE D == DOMAIN p.ticks
           all == Published(h)
<1>1. /\ D = InRange(h, from, to) /\ \A m \in InRange(h, from, to) : p.ticks[m] = Series(h)[m]
      /\ from \in {1, 3} /\ to \in Int /\ IsHistory(h) /\ (from # 1 => from - 1 \in all)
  BY DEF Honest, Exported
<1>2. D = {m \in all : from <= m /\ m <= to}
  BY <1>1 DEF InRange
<1>3. all \subseteq 1 .. LastTick /\ LastTick \in Nat
  BY Extent DEF Published
<1>4. n \in all /\ from <= n /\ n <= to /\ n \in Nat
  BY <1>2, <1>3
<1> HIDE DEF D, all
<1>5. \A i \in D : i \in Nat
  BY <1>2, <1>3
<1>6. CASE \E m \in D : m < n
  <2> DEFINE Back == {j \in Nat : n - j \in D /\ n - j < n}
             m == Previous(D, n)
  <2>1. Back # {} /\ Back \in SUBSET Nat
    <3>1. PICK k \in D : k < n
      BY <1>6
    <3>2. k \in Nat
      BY <1>5
    <3>3. n - k \in Nat /\ n - (n - k) = k
      BY <1>4, <3>1, <3>2
    <3> QED BY <3>1, <3>3
  <2>2. PICK j \in Back : \A i \in Back : j <= i
    <3> HIDE DEF Back
    <3> QED BY <2>1, FirstNumber
  <2>3. \E k \in D : k < n /\ \A i \in D : i < n => i <= k
    <3> DEFINE k == n - j
    <3>1. k \in D /\ k < n /\ j \in Nat
      BY <2>2
    <3>2. ASSUME NEW i \in D, i < n PROVE i <= k
      <4>1. i \in Nat /\ n - i \in Nat /\ n - (n - i) = i
        BY <1>4, <1>5, <3>2
      <4>2. j <= n - i
        BY <2>2, <3>2, <4>1
      <4> QED BY <1>4, <3>1, <4>1, <4>2
    <3> QED BY <3>1, <3>2
  <2>4. m \in D /\ m < n /\ \A i \in D : i < n => i <= m
    <3>1. m = CHOOSE k \in D : k < n /\ \A i \in D : i < n => i <= k
      BY DEF Previous
    <3> HIDE DEF m
    <3> QED BY <2>3, <3>1
  <2> HIDE DEF m
  <2>5. m \in all /\ \A k \in all : k < n => k <= m
    <3>1. m \in all /\ from <= m /\ m \in Nat
      <4>1. m \in all /\ from <= m
        BY <1>2, <2>4
      <4>2. m \in 1 .. LastTick
        BY <1>3, <4>1
      <4> QED BY <1>3, <4>1, <4>2
    <3>2. ASSUME NEW k \in all, k < n PROVE k <= m
      <4>1. k \in Nat
        BY <1>3
      <4>2. CASE from <= k
        <5>1. k <= to
          BY <1>1, <1>4, <3>2, <4>1
        <5> QED BY <1>2, <2>4, <3>2, <4>2, <5>1
      <4>3. CASE ~(from <= k)
        BY <1>1, <3>1, <4>1, <4>3
      <4> QED BY <4>2, <4>3
    <3> QED BY <3>1, <3>2
  <2>6. Prior(p, o, n) = {p.ticks[m]}
    BY <1>6, Zenon DEF Prior, D, m
  <2>7. p.ticks[m] = Series(h)[m]
    BY <1>1, <2>4
  <2> QED BY <2>4, <2>5, <2>6, <2>7 DEF all
<1>7. CASE ~\E m \in D : m < n
  <2>1. Prior(p, o, n) = {a.tick : a \in Anchors(p, o)}
    BY <1>7, Zenon DEF Prior, D
  <2>2. CASE from = 1
    <3>1. Anchors(p, o) = {}
      BY <2>2, AnchorsPass
    <3>2. 1 \in D
      <4>1. 1 \in all
        BY <1>1, <1>4, FirstIsOne DEF all
      <4>2. 1 <= to
        BY <1>1, <1>4, <2>2
      <4> QED BY <1>2, <2>2, <4>1, <4>2
    <3>3. n = 1
      BY <1>4, <1>7, <2>2, <3>2
    <3> QED BY <2>1, <3>1, <3>3
  <2>3. CASE from # 1
    <3> DEFINE m == from - 1
    <3>1. m \in all /\ m < n /\ from = 3
      BY <1>1, <1>4, <2>3
    <3>2. ASSUME NEW k \in all, k < n PROVE k <= m
      <4>1. k \in Nat /\ k <= to
        BY <1>1, <1>3, <1>4, <3>2
      <4>2. ~(from <= k)
        BY <1>2, <1>7, <3>2, <4>1
      <4> QED BY <3>1, <4>1, <4>2
    <3>3. Anchors(p, o) \subseteq p.anchor /\ (o.roots => Anchors(p, o) # {})
          /\ \A a \in p.anchor : a.tick = Series(h)[m]
      <4>1. /\ Anchors(p, o) \subseteq p.anchor /\ p.anchor # {} /\ (o.roots => Anchors(p, o) = p.anchor)
            /\ \A a \in p.anchor : a.tick = Series(h)[from - 1]
        BY <2>3, AnchorsPass
      <4> QED BY <4>1
    <3> HIDE DEF m
    <3>4. Prior(p, o, n) \subseteq {Series(h)[m]} /\ (o.roots => Prior(p, o, n) # {})
      BY <2>1, <3>3
    <3>5. CASE Prior(p, o, n) = {}
      BY <3>4, <3>5
    <3>6. CASE Prior(p, o, n) # {}
      <4>1. Prior(p, o, n) = {Series(h)[m]}
        BY <3>4, <3>6
      <4> QED BY <3>1, <3>2, <4>1 DEF all
    <3> QED BY <3>5, <3>6
  <2> QED BY <2>2, <2>3
<1> QED BY <1>6, <1>7

\* So a tick of the range is fine, but for what the reader has no document of and for a
\* seed that is not public yet.
LEMMA TicksPass ==
    ASSUME NEW h, NEW o, NEW p, NEW from, NEW to, Honest(h, o, p, from, to), NEW n \in DOMAIN p.ticks
    PROVE  /\ TickNotes(p, o, n) \subseteq {"missing_history", "not_yet_revealable"}
           /\ o.roots /\ Series(h)[n].day < h.revealed => TickNotes(p, o, n) = {}
           /\ HasEntry(p, Series(h)[n]) /\ (Fresh(Series(h)[n]) => FromGenesis(p, Series(h)[n]))
<1> DEFINE t == Series(h)[n]
           r == p.epochs[t.day]
           e == Entry(p, t)
<1>1. n \in Published(h) /\ IsHistory(h) /\ h.k # 2 /\ p.ticks[n] = t /\ from - 1 <= n /\ n <= to
  <2>1. n \in InRange(h, from, to) /\ p.ticks[n] = t /\ IsHistory(h) /\ h.k # 2 /\ from \in {1, 3} /\ to \in Int
    BY DEF Honest, Exported
  <2>2. n \in Published(h) /\ from <= n /\ n <= to
    BY <2>1 DEF InRange
  <2>3. n \in Nat
    BY <2>2, Extent DEF Published
  <2> QED BY <2>1, <2>2, <2>3
<1>2. /\ t.no = n /\ t.day = DayOf(h, n) /\ t.day \in Days /\ t.cfg = Config(h, t.day)
      /\ t.commitment = Ledger(h)[t.day].commitment /\ t.hash = tickHash(t) /\ t.digit = t.price % 10
      /\ t.at = scheduledMs(t.cfg, n) /\ t.day * Day = epochStartMs(t.at)
      /\ t.at >= witnessDeadline(t.cfg, t.day * Day)
  BY <1>1, RecordIs
<1>3. t.day \in Near(h, from, to) /\ t.day \in DOMAIN p.epochs
  <2>1. t.day \in Near(h, from, to)
    BY <1>1, <1>2 DEF Near
  <2>2. t.day <= t.day
    BY <1>2, Extent
  <2> QED BY <1>2, <2>1, <2>2 DEF Honest, Exported
<1>4. EpochOf(h, r, t.day, TRUE)
  BY <1>3 DEF Honest, Exported
<1>5. /\ r.cfg = t.cfg /\ r.commitment = t.commitment /\ e = t.cfg
      /\ r.seed \in {h.seeds[t.day + 1], NoSeed} /\ (t.day < h.revealed => r.seed = h.seeds[t.day + 1])
      /\ h.seeds[t.day + 1] # NoSeed
  <2>1. h.seeds[t.day + 1] # NoSeed
    BY <1>1, <1>2, SeedsYield
  <2> HIDE DEF r
  <2>2. e = r.cfg
    BY DEF Entry, r
  <2> QED BY <1>2, <1>4, <2>1, <2>2 DEF EpochOf
<1>6. HasDay(p, t) /\ HasEntry(p, t)
  <2>1. e \in p.configs
    BY <1>2, <1>3, <1>5 DEF Honest, Exported
  <2> QED BY <1>3, <2>1 DEF HasDay, HasEntry, Known
<1>7. FromGenesis(p, t) <=> Fresh(t)
  <2> HIDE DEF t
  <2> QED BY <1>5 DEF FromGenesis, Fresh, e
<1>8. ContinuityNotes(p, o, t) \subseteq {"missing_history"} /\ (o.roots => ContinuityNotes(p, o, t) = {})
  <2> DEFINE note(prior) == IF e.gen >= prior.no /\ t.no = e.gen + 1 THEN ResumeNotes(p, t, prior)
                            ELSE IF t.no = prior.no + 1 /\ t.prev = prior.price /\ t.prevHash = prior.hash THEN {}
                            ELSE {"broken_continuity"}
  <2>1. ContinuityNotes(p, o, t) =
          IF Prior(p, o, n) = {} THEN IF FromGenesis(p, t) THEN {} ELSE {"missing_history"}
          ELSE UNION {note(prior) : prior \in Prior(p, o, n)}
    BY <1>2 DEF ContinuityNotes
  <2>2. CASE Prior(p, o, n) = {} /\ (n = 1 \/ ~o.roots)
    <3>1. n = 1 => Fresh(t)
      BY <1>1, FirstIsFresh
    <3> HIDE DEF t
    <3> QED BY <1>7, <2>1, <2>2, <3>1
  <2>3. ASSUME NEW m \in Published(h), m < n, \A k \in Published(h) : k < n => k <= m,
               Prior(p, o, n) = {Series(h)[m]}
        PROVE  ContinuityNotes(p, o, t) = {}
    <3> DEFINE s == Series(h)[m]
    <3>1. IF t.cfg.gen >= s.no /\ t.no = t.cfg.gen + 1 THEN Scaled(t.cfg, s) /\ Fresh(t)
          ELSE t.no = s.no + 1 /\ t.prev = s.price /\ t.prevHash = s.hash
      BY <1>1, <2>3, Continues
    <3>2. note(s) = {}
      <4> HIDE DEF t, s, e
      <4>1. Scaled(t.cfg, s) /\ Fresh(t) => ResumeNotes(p, t, s) = {}
        BY <1>5, <1>7 DEF ResumeNotes, e
      <4> QED BY <1>5, <3>1, <4>1
    <3> HIDE DEF note, s, t
    <3> QED BY <2>1, <2>3, <3>2 DEF s
  <2> QED BY <2>2, <2>3, PriorIs
<1>9. RecordNotes(p, t) = {}
  <2> HIDE DEF t
  <2> QED BY <1>2, <1>5 DEF RecordNotes, e
<1>10. SeedNotes(p, o, t) \subseteq {"not_yet_revealable"} /\ (t.day < h.revealed => SeedNotes(p, o, t) = {})
  <2>1. EpochFault(p, o, t.day) = {}
    BY <1>3, EpochsPass
  <2>2. InBand(t.cfg, t.price) /\ expectedUnits(t.cfg, t.prev, DrawOf(h.seeds[t.day + 1], t)) = t.price
    BY <1>1, PriceAgain
  <2> HIDE DEF t, r, e
  <2>3. SeedNotes(p, o, t) = IF r.seed = NoSeed THEN {"not_yet_revealable"}
                             ELSE IF InBand(e, expectedUnits(e, t.prev, DrawOf(r.seed, t)))
                                     /\ expectedUnits(e, t.prev, DrawOf(r.seed, t)) = t.price
                                  THEN {} ELSE {"price_mismatch"}
    BY <1>5, <2>1, Zenon DEF SeedNotes, r, e
  <2> QED BY <1>5, <2>2, <2>3
<1>11. TickNotes(p, o, n) = ContinuityNotes(p, o, t) \union RecordNotes(p, t) \union SeedNotes(p, o, t)
  <2> HIDE DEF t
  <2> QED BY <1>1, <1>6, Zenon DEF TickNotes
<1> HIDE DEF t
<1>12. /\ TickNotes(p, o, n) \subseteq {"missing_history", "not_yet_revealable"}
       /\ o.roots /\ t.day < h.revealed => TickNotes(p, o, n) = {}
  BY <1>8, <1>9, <1>10, <1>11
<1> QED BY <1>6, <1>7, <1>12, Zenon DEF t

\* The receipts of a day are for its commitment and, unless one is late or missing, of every
\* service and before the day.
LEMMA ReceiptsOfDay ==
    ASSUME NEW h, h.receipts \in {"early", "late", "missing"}, NEW c, NEW d \in Nat
    PROVE  /\ AllGenuine(ReceiptsOf(h, c, d), c)
           /\ h.receipts = "early" =>
                 \A w \in Providers : \E r \in ReceiptsOf(h, c, d) : r.provider = w /\ r.at = d * Day - 1
<1> DEFINE late == Receipt(c, Flawed, v3_witness_deadline(Config(h, d), d * Day))
           early == Receipt(c, Flawed, d * Day - 1)
           others == {Receipt(c, w, d * Day - 1) : w \in Providers \ {Flawed}}
           R == ReceiptsOf(h, c, d)
<1>1. R = others \union
          IF d # 1 THEN {early}
          ELSE CASE h.receipts = "early" -> {early}
                 [] h.receipts = "late" -> {late}
                 [] h.receipts = "missing" -> {}
                 [] h.receipts = "replaced" -> {early, [early EXCEPT !.genuine = FALSE]}
  BY Zenon DEF ReceiptsOf
<1>2. \A w, at : LET r == Receipt(c, w, at) IN r.provider = w /\ r.at = at /\ Verifies(r, c)
  BY DEF Receipt, Verifies
<1>3. /\ \A r \in others : Verifies(r, c)
      /\ \A w \in Providers \ {Flawed} : \E r \in others : r.provider = w /\ r.at = d * Day - 1
  <2> DEFINE at == d * Day - 1
             from(w) == Receipt(c, w, at)
  <2>1. \A w : from(w).provider = w /\ from(w).at = at /\ Verifies(from(w), c)
    BY <1>2, Zenon
  <2>2. others = {from(w) : w \in Providers \ {Flawed}}
    OBVIOUS
  <2> HIDE DEF from, others
  <2>3. (\A r \in others : Verifies(r, c)) /\ \A w \in Providers \ {Flawed} : from(w) \in others
    BY <2>1, <2>2
  <2> QED BY <2>1, <2>3
<1>4. Verifies(early, c) /\ early.provider = Flawed /\ early.at = d * Day - 1 /\ Verifies(late, c)
  BY <1>2, Zenon
<1> HIDE DEF late, early, others, R
<1>5. R \subseteq others \union {early, late} /\ others \subseteq R /\ (h.receipts = "early" => early \in R)
  <2>1. CASE d # 1
    <3>1. R = others \union {early}
      BY <1>1, <2>1
    <3> QED BY <3>1
  <2>2. CASE d = 1 /\ h.receipts = "early"
    <3>1. R = others \union {early}
      BY <1>1, <2>2
    <3> QED BY <3>1
  <2>3. CASE d = 1 /\ h.receipts = "late"
    <3>1. R = others \union {late}
      BY <1>1, <2>3
    <3> QED BY <3>1, <2>3
  <2>4. CASE d = 1 /\ h.receipts = "missing"
    <3>1. R = others
      BY <1>1, <2>4
    <3> QED BY <3>1, <2>4
  <2> QED BY <2>1, <2>2, <2>3, <2>4
<1>6. AllGenuine(R, c)
  BY <1>3, <1>4, <1>5 DEF AllGenuine
<1>7. h.receipts = "early" => \A w \in Providers : \E r \in R : r.provider = w /\ r.at = d * Day - 1
  BY <1>3, <1>4, <1>5
<1> QED BY <1>6, <1>7 DEF R

LEMMA WitnessesPass ==
    ASSUME NEW h, NEW o, NEW p, NEW from, NEW to, Honest(h, o, p, from, to)
    PROVE  /\ WitnessNotes(p, o) = {} /\ WitnessLevel(p, o) \in {Fine, Incomplete}
           /\ o.roots /\ h.receipts = "early" => WitnessLevel(p, o) = Fine
<1> DEFINE level(d) == checkReceipts(o, p.epochs[d].commitment, p.epochs[d].receipts,
                                     {witnessDeadline(p.epochs[d].cfg, d * Day)})
           note(d) == DeadlineNotes(p, d) \union ReceiptNotes(o, p.epochs[d].commitment, p.epochs[d].receipts)
           days == WitnessedDays(p)
<1>1. ASSUME NEW d \in days
      PROVE  /\ level(d) \in {Fine, Incomplete} /\ note(d) = {}
             /\ o.roots /\ h.receipts = "early" => level(d) = Fine
  <2> DEFINE r == p.epochs[d]
             due == witnessDeadline(r.cfg, d * Day)
  <2>1. d \in DOMAIN p.epochs /\ d \in Near(h, from, to) /\ d \in Nat
    <3>1. PICK n \in DOMAIN p.ticks : d = p.ticks[n].day
      BY DEF WitnessedDays
    <3>2. n \in InRange(h, from, to) /\ p.ticks[n] = Series(h)[n] /\ IsHistory(h) /\ from \in {1, 3}
      BY DEF Honest, Exported
    <3>3. n \in Published(h) /\ from <= n /\ n <= to /\ n \in Nat
      BY <3>2, Extent DEF InRange, Published
    <3>4. d = DayOf(h, n) /\ d \in Days /\ from - 1 <= n
      BY <3>1, <3>2, <3>3, RecordIs
    <3> QED BY <3>3, <3>4, Extent DEF Near, WitnessedDays
  <2>2. EpochOf(h, r, d, TRUE)
    BY <2>1 DEF Honest, Exported
  <2>3. /\ r.cfg = Config(h, d) /\ r.receipts = ReceiptsOf(h, r.commitment, d)
        /\ r.deadline \subseteq {v3_witness_deadline(r.cfg, d * Day)}
    BY <2>2 DEF EpochOf
  <2>4. /\ h.receipts \in {"early", "late", "missing"} /\ IsHistory(h) /\ o.required = Providers
    BY DEF Honest
  <2> HIDE DEF r
  <2>5. /\ AllGenuine(r.receipts, r.commitment)
        /\ h.receipts = "early" => \A w \in Providers : \E x \in r.receipts : x.provider = w /\ x.at = d * Day - 1
    BY <2>1, <2>3, <2>4, ReceiptsOfDay
  <2>6. d * Day - 1 < due /\ v3_witness_deadline(r.cfg, d * Day) = due
    <3>1. r.cfg.t0 \in Nat /\ r.cfg.gen \in Nat /\ d * Day \in Nat
      <4>1. r.cfg.t0 = h.t0 /\ h.t0 \in Nat
        BY <2>3, <2>4, ConfigIs DEF LikeFirst, IsHistory
      <4>2. r.cfg.gen \in Nat
        <5>1. CASE h.pause = NoPause \/ d < ResumeDay
          BY <2>3, <5>1, ConfigIs DEF FirstConfig
        <5>2. CASE ~(h.pause = NoPause \/ d < ResumeDay)
          BY <2>3, <2>4, <5>2, ConfigIs, ResumeIs, Extent
        <5> QED BY <5>1, <5>2
      <4>3. d * Day \in Nat
        BY <2>1, Scales DEF Scales
      <4> QED BY <4>1, <4>2, <4>3
    <3>2. due \in Int /\ d * Day <= due /\ v3_witness_deadline(r.cfg, d * Day) = due
      BY <3>1, DeadlineIs
    <3> HIDE DEF due
    <3> QED BY <3>1, <3>2
  <2>7. h.receipts = "early" => InTime(o, r.receipts, {due})
    <3> HIDE DEF due
    <3> QED BY <2>4, <2>5, <2>6 DEF InTime
  <2>8. level(d) = checkReceipts(o, r.commitment, r.receipts, {due}) /\ note(d) = ReceiptNotes(o, r.commitment, r.receipts)
    <3>1. DeadlineNotes(p, d) = {}
      BY <2>3, <2>6, Zenon DEF DeadlineNotes, r, due
    <3> QED BY <3>1 DEF r
  <2> HIDE DEF level, note, due
  <2> QED BY <2>5, <2>7, <2>8, ReceiptsPass
<1>2. WitnessNotes(p, o) = UNION {note(d) : d \in days}
  BY Zenon DEF WitnessNotes
<1>3. WitnessLevel(p, o) = Worst({level(d) : d \in days})
  BY Zenon DEF WitnessLevel
<1> HIDE DEF level, note, days
<1>4. {level(d) : d \in days} \subseteq {Fine, Incomplete}
      /\ (o.roots /\ h.receipts = "early" => {level(d) : d \in days} \subseteq {Fine})
  BY <1>1
<1>5. WitnessNotes(p, o) = {}
  BY <1>1, <1>2
<1> DEFINE levels == {level(d) : d \in days}
<1> HIDE DEF levels
<1>6. levels \subseteq {Fine, Incomplete} /\ (o.roots /\ h.receipts = "early" => levels \subseteq {Fine})
      /\ WitnessLevel(p, o) = Worst(levels)
  BY <1>3, <1>4 DEF levels
<1> QED BY <1>5, <1>6, WorstIs

LEMMA CheckpointsPass ==
    ASSUME NEW h, NEW o, NEW p, NEW from, NEW to, Honest(h, o, p, from, to), NEW c \in p.checkpoints
    PROVE  /\ CheckpointNotes(p, o, c) = {}
           /\ checkSignature(p, o, checkpointHash(c), c.sig) \in {Fine, Incomplete}
           /\ o.pinned => checkSignature(p, o, checkpointHash(c), c.sig) = Fine
           /\ checkReceipts(o, checkpointHash(c), c.receipts, {}) \in {Fine, Incomplete}
           /\ o.roots => checkReceipts(o, checkpointHash(c), c.receipts, {}) = Fine
<1> DEFINE t == Series(h)[to]
<1>1. Reads(p, o) /\ IsHistory(h)
  BY DEF Honest, Exported, Reads
<1>2. to \in Published(h) /\ c = Checkpoint(t)
  BY DEF Honest, Exported
<1>3. t.no = to
  BY <1>1, <1>2, RecordIs
<1>4. to \in DOMAIN p.ticks => p.ticks[to] = t
  BY DEF Honest, Exported
<1> HIDE DEF t
<1>5. Attests(p, o, c, t)
  BY <1>1, <1>2, CheckpointPasses
<1>6. CheckpointNotes(p, o, c) = {}
  BY <1>3, <1>4, <1>5 DEF CheckpointNotes, Attests
<1> QED BY <1>5, <1>6, Zenon DEF Attests

LEMMA ContractsPass ==
    ASSUME NEW h, NEW o, NEW p, NEW from, NEW to, Honest(h, o, p, from, to), NEW c \in Judged(p)
    PROVE  to \in DOMAIN p.ticks /\ ContractNotes(p, o, c) = TickNotes(p, o, to)
<1> DEFINE t == Series(h)[to]
<1>1. /\ IsHistory(h) /\ from \in {1, 3} /\ to \in Int /\ InRange(h, from, to) # {}
      /\ DOMAIN p.ticks = InRange(h, from, to) /\ \A n \in InRange(h, from, to) : p.ticks[n] = Series(h)[n]
      /\ p.contracts = ContractsOf(h, to)
  BY DEF Honest, Exported
<1>2. PICK bet \in Bets : to \in Published(h) /\ c = Contract(t, bet[1], bet[2])
  BY <1>1 DEF Judged, ContractsOf
<1>3. to \in DOMAIN p.ticks /\ p.ticks[to] = t
  <2>1. PICK n \in InRange(h, from, to) : TRUE
    BY <1>1
  <2>2. from <= to
    <3>1. n \in Nat /\ from <= n /\ n <= to
      BY <2>1, Extent DEF InRange, Published
    <3> QED BY <1>1, <3>1
  <2>3. to <= to
    BY <1>1
  <2> QED BY <1>1, <1>2, <2>2, <2>3 DEF InRange
<1>4. t.no = to /\ to \in Nat \ {0} /\ t.digit \in 0 .. 9
  <2>1. t.no = to /\ to \in 1 .. LastTick /\ to \in 0 .. LastTick /\ t.digit = t.price % 10
    BY <1>1, <1>2, RecordIs, Extent
  <2>2. t.price = Prices(h)[to].price /\ Prices(h)[to].state = "on"
    BY <1>2, TickIs DEF IsTickOf, Published
  <2>3. t.price \in Nat
    BY <1>1, <2>1, <2>2, PricesWalk DEF Walked
  <2>4. \A x \in Nat : x % 10 \in 0 .. 9
    OBVIOUS
  <2> QED BY <2>1, <2>3, <2>4, Extent
<1> HIDE DEF t
<1> DEFINE type == bet[1]
           barrier == bet[2]
           result == DC!Verdict(type, barrier, t.no, t.digit, 0)
<1>5. c = [entry |-> t.no - 1, settle |-> t.no, type |-> type, barrier |-> barrier, exit |-> t.digit,
           result |-> result]
  BY <1>2 DEF Contract
<1>6. <<type, barrier>> \in {<<"EVEN", 0>>, <<"OVER", 4>>, <<"DIFFER", 7>>}
  BY DEF Bets
<1> HIDE DEF type, barrier, result
<1>7. c.entry = t.no - 1 /\ c.settle = t.no /\ c.type = type /\ c.barrier = barrier /\ c.exit = t.digit /\ c.result = result
  BY <1>5
<1>8. result = IF t.digit \in DC!WinningDigits(type, barrier) THEN "WON" ELSE "LOST"
  <2>1. ~DC!Late(t.no, 0)
    BY <1>4 DEF DC!Late
  <2> QED BY <2>1 DEF DC!Verdict, result
<1>9. (c.result = "WON") = contractWins(c, c.exit)
  <2>1. CASE type = "EVEN" /\ barrier = 0
    BY <1>4, <1>7, <1>8, <2>1 DEF contractWins, DC!WinningDigits, DC!Digit
  <2>2. CASE type = "OVER" /\ barrier = 4
    BY <1>4, <1>7, <1>8, <2>2 DEF contractWins, DC!WinningDigits, DC!Digit
  <2>3. CASE type = "DIFFER" /\ barrier = 7
    BY <1>4, <1>7, <1>8, <2>3 DEF contractWins, DC!WinningDigits, DC!Digit
  <2> QED BY <1>6, <2>1, <2>2, <2>3
<1>10. ~(c.settle <= c.entry) /\ c.settle = to
  BY <1>4, <1>7
<1>11. ContractNotes(p, o, c) = TickNotes(p, o, to)
  <2> DEFINE won == c.result = "WON"
             wins == contractWins(c, c.exit)
  <2>1. ~(won # wins)
    BY <1>9
  <2> HIDE DEF won, wins
  <2>2. ContractNotes(p, o, c) = IF c.settle <= c.entry THEN {"contract_mismatch"}
                                 ELSE IF c.settle \notin DOMAIN p.ticks THEN {"missing_history"}
                                 ELSE IF c.exit # p.ticks[c.settle].digit \/ won # wins THEN {"contract_mismatch"}
                                 ELSE TickNotes(p, o, c.settle)
    BY Zenon DEF ContractNotes, won, wins
  <2>3. ~(c.exit # p.ticks[c.settle].digit)
    BY <1>3, <1>7, <1>10
  <2> QED BY <1>3, <1>10, <2>1, <2>2, <2>3, Zenon
<1> QED BY <1>3, <1>11

-----------------------------------------------------------------------------
(* The verdict *)

LEMMA NotesPass ==
    ASSUME NEW h, NEW o, NEW p, NEW from, NEW to, Honest(h, o, p, from, to)
    PROVE  /\ AllNotes(p, o) \subseteq {"missing_history", "not_yet_revealable"}
           /\ o.roots /\ (\A n \in DOMAIN p.ticks : p.ticks[n].day < h.revealed) => AllNotes(p, o) = {}
<1> DEFINE all == o.roots /\ \A n \in DOMAIN p.ticks : p.ticks[n].day < h.revealed
           some == {"missing_history", "not_yet_revealable"}
           ticks == UNION {TickNotes(p, o, n) : n \in DOMAIN p.ticks}
           epochs == UNION {EpochNotes(p, o, d) : d \in DOMAIN p.epochs}
           checkpoints == UNION {CheckpointNotes(p, o, c) : c \in p.checkpoints}
           contracts == UNION {ContractNotes(p, o, c) : c \in Judged(p)}
<1>1. \A n \in DOMAIN p.ticks : TickNotes(p, o, n) \subseteq some /\ (all => TickNotes(p, o, n) = {})
  <2> SUFFICES ASSUME NEW n \in DOMAIN p.ticks
               PROVE  TickNotes(p, o, n) \subseteq some /\ (all => TickNotes(p, o, n) = {})
    OBVIOUS
  <2>1. p.ticks[n] = Series(h)[n]
    BY DEF Honest, Exported
  <2>2. /\ TickNotes(p, o, n) \subseteq some
        /\ o.roots /\ Series(h)[n].day < h.revealed => TickNotes(p, o, n) = {}
    BY TicksPass
  <2> QED BY <2>1, <2>2
<1>2. \A d \in DOMAIN p.epochs : EpochNotes(p, o, d) = {}
  BY EpochsPass
<1>3. \A c \in p.checkpoints : CheckpointNotes(p, o, c) = {}
  BY CheckpointsPass
<1>4. \A c \in Judged(p) : ContractNotes(p, o, c) \subseteq some /\ (all => ContractNotes(p, o, c) = {})
  BY <1>1, ContractsPass
<1>5. ticks \subseteq some /\ (all => ticks = {})
  <2> HIDE DEF all, some
  <2> QED BY <1>1
<1>6. epochs = {} /\ checkpoints = {}
  BY <1>2, <1>3
<1>7. contracts \subseteq some /\ (all => contracts = {})
  <2> HIDE DEF all, some
  <2> QED BY <1>4
<1>8. AnchorNotes(p, o) \subseteq some /\ (all => AnchorNotes(p, o) = {})
  <2>1. AnchorNotes(p, o) \subseteq {"missing_history"} /\ (o.roots => AnchorNotes(p, o) = {})
    BY AnchorsPass
  <2> QED BY <2>1
<1>9. ConfigNotes(p) = {} /\ WitnessNotes(p, o) = {}
  BY ConfigsPass, WitnessesPass
<1>10. AllNotes(p, o) = ConfigNotes(p) \union AnchorNotes(p, o) \union WitnessNotes(p, o)
                        \union epochs \union ticks \union checkpoints \union contracts
  BY Zenon DEF AllNotes
<1> HIDE DEF ticks, epochs, checkpoints, contracts, some
<1>11. AllNotes(p, o) \subseteq some /\ (all => AllNotes(p, o) = {})
  <2> HIDE DEF all
  <2> QED BY <1>5, <1>6, <1>7, <1>8, <1>9, <1>10
<1> QED BY <1>11, Zenon DEF some

LEMMA LevelsPass ==
    ASSUME NEW h, NEW o, NEW p, NEW from, NEW to, Honest(h, o, p, from, to)
    PROVE  /\ SignatureLevel(p, o) \in {Fine, Incomplete} /\ (o.pinned => SignatureLevel(p, o) = Fine)
           /\ CheckpointLevel(p, o) \in {Fine, Incomplete} /\ (o.roots => CheckpointLevel(p, o) = Fine)
<1> DEFINE signatures == {SignatureOf(p, o, d) : d \in DOMAIN p.epochs} \union {AnchorLevel(p, o, a) : a \in AnchorSigned(p)}
                         \union {checkSignature(p, o, checkpointHash(c), c.sig) : c \in p.checkpoints}
           receipts == {checkReceipts(o, checkpointHash(c), c.receipts, {}) : c \in p.checkpoints}
                       \union {AnchorReceipts(o, a) : a \in AnchorSigned(p)}
<1>1. SignatureLevel(p, o) = Worst(signatures) /\ CheckpointLevel(p, o) = Worst(receipts)
  BY Zenon DEF SignatureLevel, CheckpointLevel
<1>2. \A d \in DOMAIN p.epochs : SignatureOf(p, o, d) \in {Fine, Incomplete} /\ (o.pinned => SignatureOf(p, o, d) = Fine)
  BY EpochsPass
<1>3. \A a \in AnchorSigned(p) :
        /\ AnchorLevel(p, o, a) \in {Fine, Incomplete} /\ (o.pinned => AnchorLevel(p, o, a) = Fine)
        /\ AnchorReceipts(o, a) \in {Fine, Incomplete} /\ (o.roots => AnchorReceipts(o, a) = Fine)
  BY AnchorsPass
<1>4. \A c \in p.checkpoints :
        /\ checkSignature(p, o, checkpointHash(c), c.sig) \in {Fine, Incomplete}
        /\ o.pinned => checkSignature(p, o, checkpointHash(c), c.sig) = Fine
        /\ checkReceipts(o, checkpointHash(c), c.receipts, {}) \in {Fine, Incomplete}
        /\ o.roots => checkReceipts(o, checkpointHash(c), c.receipts, {}) = Fine
  BY CheckpointsPass
<1>5. signatures \subseteq {Fine, Incomplete} /\ (o.pinned => signatures \subseteq {Fine})
  BY <1>2, <1>3, <1>4
<1>6. receipts \subseteq {Fine, Incomplete} /\ (o.roots => receipts \subseteq {Fine})
  BY <1>3, <1>4
<1> HIDE DEF signatures, receipts
<1> QED BY <1>1, <1>5, <1>6, WorstIs

LEMMA AnchoredPass ==
    ASSUME NEW h, NEW o, NEW p, NEW from, NEW to, Honest(h, o, p, from, to), o.roots
    PROVE  DOMAIN p.ticks # {} /\ Anchored(p, o)
<1> DEFINE D == DOMAIN p.ticks
<1>1. /\ D = InRange(h, from, to) /\ D # {} /\ IsHistory(h) /\ from \in {1, 3} /\ to \in Int
      /\ \A n \in InRange(h, from, to) : p.ticks[n] = Series(h)[n]
  BY DEF Honest, Exported
<1>2. CASE from # 1
  <2>1. Anchors(p, o) # {}
    BY <1>2, AnchorsPass
  <2> QED BY <1>1, <2>1, Zenon DEF Anchored
<1>3. CASE from = 1
  <2>1. PICK n \in D : TRUE
    BY <1>1
  <2>2. n \in Published(h) /\ n \in Nat /\ n <= to /\ 1 <= n
    BY <1>1, <1>3, <2>1, Extent DEF InRange, Published
  <2>3. 1 \in Published(h)
    BY <1>1, <2>2, FirstIsOne
  <2>4. 1 \in D /\ \A m \in D : 1 <= m /\ m \in Nat
    <3>1. 1 <= to
      BY <1>1, <2>2
    <3>2. \A m \in D : m \in 1 .. LastTick
      BY <1>1 DEF InRange, Published
    <3> QED BY <1>1, <1>3, <2>3, <3>1, <3>2, Extent DEF InRange
  <2> HIDE DEF D
  <2>5. Least(D) = 1
    <3>1. \A m \in D : (\A k \in D : m <= k) => m = 1
      BY <2>4
    <3> QED BY <2>4, <3>1 DEF Least
  <2>6. p.ticks[1] = Series(h)[1]
    BY <1>1, <2>4
  <2>7. HasEntry(p, Series(h)[1]) /\ FromGenesis(p, Series(h)[1])
    BY <1>1, <2>3, <2>4, TicksPass, FirstIsFresh DEF D
  <2> QED BY <1>1, <2>5, <2>6, <2>7, Zenon DEF Anchored, D
<1> QED BY <1>2, <1>3

\* The verifier of what the generator made and the database exported.
LEMMA HonestVerdict ==
    ASSUME NEW h, NEW o, NEW p, NEW from, NEW to, Honest(h, o, p, from, to)
    PROVE  /\ Verdict(p, o) # "invalid"
           /\ /\ h.receipts = "early" /\ o.pinned /\ o.roots
              /\ \A n \in DOMAIN p.ticks : p.ticks[n].day < h.revealed
              => Verdict(p, o) = "fully_verified"
<1> DEFINE notes == AllNotes(p, o)
           levels == {SignatureLevel(p, o), WitnessLevel(p, o), CheckpointLevel(p, o)}
           complete == DOMAIN p.ticks # {} /\ Anchored(p, o)
           whole == /\ h.receipts = "early" /\ o.pinned /\ o.roots
                    /\ \A n \in DOMAIN p.ticks : p.ticks[n].day < h.revealed
<1>1. Verdict(p, o) = IF notes \intersect Invalid # {} \/ Wrong \in levels THEN "invalid"
                      ELSE IF notes = {} /\ levels = {Fine} /\ complete THEN "fully_verified"
                      ELSE "partial"
  BY Zenon DEF Verdict, summarize
<1>2. notes \subseteq {"missing_history", "not_yet_revealable"} /\ (whole => notes = {})
  BY NotesPass
<1>3. levels \subseteq {Fine, Incomplete} /\ (whole => levels = {Fine})
  <2>1. /\ SignatureLevel(p, o) \in {Fine, Incomplete} /\ (o.pinned => SignatureLevel(p, o) = Fine)
        /\ CheckpointLevel(p, o) \in {Fine, Incomplete} /\ (o.roots => CheckpointLevel(p, o) = Fine)
    BY LevelsPass
  <2>2. /\ WitnessLevel(p, o) \in {Fine, Incomplete}
        /\ o.roots /\ h.receipts = "early" => WitnessLevel(p, o) = Fine
    BY WitnessesPass
  <2> QED BY <2>1, <2>2
<1>4. whole => complete
  BY AnchoredPass
<1> HIDE DEF notes, levels, complete, whole
<1>5. notes \intersect Invalid = {}
  BY <1>2 DEF Invalid
<1>6. Wrong \notin levels
  <2>1. Wrong # Fine /\ Wrong # Incomplete
    BY DEF Wrong, Fine, Incomplete
  <2> QED BY <1>3, <2>1
<1>7. Verdict(p, o) # "invalid" /\ (whole => Verdict(p, o) = "fully_verified")
  BY <1>1, <1>2, <1>3, <1>4, <1>5, <1>6
<1> QED BY <1>7, Zenon DEF whole

-----------------------------------------------------------------------------
(* The program: a history, its package, what becomes of it, and the verdict *)

Made ==
    /\ hist \in Histories /\ opts \in Readers(hist) /\ series = Series(hist) /\ alterations \in Nat
    /\ pkg # NoPackage /\ alterations = 0 => \E from, to : Exported(hist, pkg, from, to)
    /\ verdict # "none" => pkg # NoPackage /\ verdict = Verdict(pkg, opts)

LEMMA MadeFirst == Init => Made
BY DEF Init, Made

LEMMA MadeKept == Made /\ [Next]_vars => Made'
<1> SUFFICES ASSUME Made, [Next]_vars PROVE Made'
  OBVIOUS
<1>0. /\ hist \in Histories /\ opts \in Readers(hist) /\ series = Series(hist) /\ alterations \in Nat
      /\ pkg # NoPackage /\ alterations = 0 => \E from, to : Exported(hist, pkg, from, to)
      /\ verdict # "none" => pkg # NoPackage /\ verdict = Verdict(pkg, opts)
  BY DEF Made
<1>1. CASE UNCHANGED vars
  BY <1>0, <1>1 DEF Made, vars
<1>2. CASE getProofPackage
  <2>1. PICK from \in {1, 3}, to \in {LastTick - 1, LastTick} :
            /\ from # 1 => from - 1 \in DOMAIN series
            /\ \E n \in DOMAIN series : from <= n /\ n <= to
            /\ pkg' = Export(Ledger(hist), from, to)
    BY <1>2 DEF getProofPackage
  <2>2. to \in Int
    BY Extent
  <2>3. Exported(hist, pkg', from, to)
    BY <1>0, <2>1, <2>2, ExportIs
  <2>4. UNCHANGED <<hist, series, opts, verdict, alterations>> /\ pkg = NoPackage
    BY <1>2 DEF getProofPackage
  <2> QED BY <1>0, <2>3, <2>4 DEF Made
<1>3. CASE verifyPackage
  <2>1. /\ pkg # NoPackage /\ verdict' = Verdict(pkg, opts)
        /\ hist' = hist /\ series' = series /\ opts' = opts /\ pkg' = pkg /\ alterations' = alterations
    BY <1>3 DEF verifyPackage
  <2> QED BY <1>0, <2>1 DEF Made
<1>4. CASE AlterTick \/ OmitTick \/ OmitDay \/ OmitEvidence \/ AlterResult \/ Rewrite
  <2>1. verdict = "none" /\ \E p : Becomes(p)
    <3>1. Open
      BY <1>4, Zenon DEF AlterTick, OmitTick, OmitDay, OmitEvidence, AlterResult, Rewrite
    <3>2. AlterTick => \E p : Becomes(p)
      BY Zenon DEF AlterTick
    <3>3. OmitTick => \E p : Becomes(p)
      BY Zenon DEF OmitTick
    <3>4. OmitDay => \E p : Becomes(p)
      BY Zenon DEF OmitDay
    <3>5. OmitEvidence => \E p : Becomes(p)
      BY Zenon DEF OmitEvidence
    <3>6. AlterResult => \E p : Becomes(p)
      BY Zenon DEF AlterResult
    <3>7. Rewrite => \E p : Becomes(p)
      BY Zenon DEF Rewrite, RewrittenFrom, Replaced
    <3> QED BY <1>4, <3>1, <3>2, <3>3, <3>4, <3>5, <3>6, <3>7 DEF Open
  <2>2. alterations' = alterations + 1 /\ hist' = hist /\ series' = series /\ opts' = opts /\ verdict' = "none"
    BY <2>1 DEF Becomes
  <2>3. alterations' \in Nat /\ alterations' # 0
    BY <1>0, <2>2
  <2> QED BY <1>0, <2>2, <2>3 DEF Made
<1> QED BY <1>1, <1>2, <1>3, <1>4 DEF Next

\* Nothing is generated beyond the limit of a move, and what was generated is never called
\* invalid, and is fully verified with all its evidence.
LEMMA MadeVerifies == Made => NeverBeyondLimit /\ HonestVerifies
<1> SUFFICES ASSUME Made PROVE NeverBeyondLimit /\ HonestVerifies
  OBVIOUS
<1>1. /\ hist \in Histories /\ opts \in Readers(hist)
      /\ pkg # NoPackage /\ alterations = 0 => \E from, to : Exported(hist, pkg, from, to)
      /\ verdict # "none" => pkg # NoPackage /\ verdict = Verdict(pkg, opts)
  BY DEF Made
<1>2. IsHistory(hist)
  BY <1>1, HistoriesAre
<1>3. NeverBeyondLimit
  <2>1. \A n \in 0 .. LastTick : Walked(hist, n)
    BY <1>2, PricesWalk
  <2> QED BY <2>1 DEF Walked, NeverBeyondLimit
<1>4. HonestVerifies
  <2> SUFFICES ASSUME verdict # "none", alterations = 0, hist.receipts # "replaced", hist.k # 2
               PROVE  /\ verdict # "invalid"
                      /\ HonestEvidence /\ (\A n \in DOMAIN pkg.ticks : pkg.ticks[n].day < hist.revealed)
                             => verdict = "fully_verified"
    BY DEF HonestVerifies
  <2>1. PICK from, to : Exported(hist, pkg, from, to)
    BY <1>1
  <2>2. hist.receipts \in {"early", "late", "missing"}
    BY <1>1 DEF Histories
  <2>3. opts.pinned \in BOOLEAN /\ opts.roots \in BOOLEAN /\ opts.required = Providers
    BY <1>1 DEF Readers
  <2>4. Honest(hist, opts, pkg, from, to)
    BY <1>2, <2>1, <2>2, <2>3 DEF Honest
  <2>5. /\ Verdict(pkg, opts) # "invalid"
        /\ /\ hist.receipts = "early" /\ opts.pinned /\ opts.roots
           /\ \A n \in DOMAIN pkg.ticks : pkg.ticks[n].day < hist.revealed
           => Verdict(pkg, opts) = "fully_verified"
    BY <2>4, HonestVerdict
  <2> QED BY <1>1, <2>5 DEF HonestEvidence
<1> QED BY <1>3, <1>4
=============================================================================
