------------------------------ MODULE DigitProof ------------------------------
(***************************************************************************)
(* The tick check of the fairness page (fairness.js) for versions 1 and 2: *)
(* the engine publishes ticks from committed seeds, reveals the seeds of   *)
(* past days and purges old ticks; the page meanwhile reads a range page   *)
(* by page, then the epochs, and computes the ticks again with arithmetic  *)
(* of its own.  What the server shows may differ from what it published.   *)
(*                                                                         *)
(* A seed stands for what HMAC yields under it; a price is a whole number  *)
(* of the index's smallest units; a commitment is the seed it hashes.      *)
(***************************************************************************)
EXTENDS Integers, FiniteSets, FiniteSetsExt

CONSTANTS
    Seedings,      \* the seeds the days may have, in their order
    Block(_, _),   \* a seed and a tick: [digit, tens, sum, residue, even]
    Base, Sigma, Kappa,  \* numeric columns of engine_indices: [n, places] is n / 10^places
    Decimals,      \* of the index's prices
    TicksPerDay,
    Ranges,        \* <<from, to>> the form may hold
    Alterations,   \* what the server may show instead: [kind, at]
    OtherSeed,     \* what it shows for an altered epoch
    PageSize,      \* PAGE_SIZE, 500
    LastTick, FirstTick,  \* bounds: ticks, those there are when the page opens
    MaxFaults      \* bound: failed calls

Power10(k) == <<1, 10, 100, 1000, 10000, 100000, 1000000>>[k + 1]
Decimal == [n : Nat, places : 0..3]

ProofBounds ==
    /\ {Base, Sigma, Kappa} \subseteq Decimal /\ Base.n > 0 /\ Sigma.n > 0
    /\ Kappa.n < Power10(Kappa.places) /\ Decimals \in 0..3
    /\ {TicksPerDay, PageSize} \subseteq Nat \ {0} /\ {LastTick, MaxFaults} \subseteq Nat
    /\ FirstTick \in 0..LastTick
    /\ \A r \in Ranges : r[1] \in Nat \ {0} /\ r[2] \in Nat /\ r[1] <= r[2]

VARIABLES
    seeds,     \* seed of each day, committed before it begins
    v2start,   \* v2_start_tick_no
    shown,     \* by number, the ticks these seeds yield, as the server will show them
    stored,    \* tick numbers in index_ticks
    last,      \* index_state.last_tick_no
    revealed,  \* days whose seed is public
    altered,   \* what the server shows differently
    step,      \* of the page: "idle", "ticks", "proofs" or "done"
    range, after, got,   \* from and to, the last number read, the ticks read
    result,
    throughout, \* ghost: ticks in the table ever since the verification began
    faults

proofVars == <<seeds, v2start, shown, stored, last, revealed, altered, step, range, after,
               got, result, throughout, faults>>
engine == <<seeds, v2start, shown, altered, faults>>
page == <<step, range, after, got, result, throughout>>

DayOf(n) == n \div TicksPerDay
Days == 0..DayOf(LastTick)
NotAltered == [kind |-> "none", at |-> 0]
NoResult == [missing |-> {}, unassigned |-> {}, pending |-> {}, verified |-> {},
             mismatched |-> {}, uncommitted |-> {}]

-----------------------------------------------------------------------------
(* The engine's arithmetic, in SQL *)

\* round() and trunc() of numeric.
Rounded(a, b) == (2 * a + b) \div (2 * b)
Truncated(a, b) == IF a < 0 THEN -((-a) \div b) ELSE a \div b

BaseUnits == Rounded(Base.n * Power10(Decimals), Power10(Base.places))
SigmaUnits == Rounded(Base.n * Sigma.n * Power10(Decimals), Power10(Base.places + Sigma.places))

\* The price of tick n of version 2 after the one before it.
engine_price_units_v2(seed, n, previous) ==
    LET b == Block(seed, n) IN
    previous + Truncated(Kappa.n * (BaseUnits - previous), Power10(Kappa.places))
    + 10 * Truncated((b.sum - 1530) * SigmaUnits, 2560)
    + b.residue - (IF b.even THEN 4 ELSE 5)

\* engine_tick_price: the digit of version 1 takes the last place of a price drawn apart.
engine_tick_price(b) == 10 * b.tens + b.digit

Tick(version, price, digit, previous) ==
    [version |-> version, price |-> price, digit |-> digit, previous |-> previous]
TickFrom(seed, n, previous) ==
    LET units == engine_price_units_v2(seed, n, previous) IN Tick(2, units, units % 10, previous)

\* Every tick the engine publishes under these seeds; version 2 goes on from the last price.
Series(days) ==
    LET tick[n \in 1..LastTick] ==
            IF n < v2start
            THEN LET b == Block(days[DayOf(n)], n) IN Tick(1, engine_tick_price(b), b.digit, 0)
            ELSE TickFrom(days[DayOf(n)], n, IF n = 1 THEN BaseUnits ELSE tick[n - 1].price)
    IN  tick

-----------------------------------------------------------------------------
(* What the server shows *)

\* A tick with another digit, or computed from another previous price; or a whole day, and
\* what follows from it, from another seed.
ShownSeeds == IF altered.kind = "seed" THEN [seeds EXCEPT ![altered.at] = OtherSeed] ELSE seeds
ShownTicks ==
    LET ticks == Series(ShownSeeds) IN
    CASE altered.kind = "digit" -> [ticks EXCEPT ![altered.at].digit = (@ + 1) % 10]
      [] altered.kind = "previous" /\ altered.at >= v2start
           -> [ticks EXCEPT ![altered.at] =
                  TickFrom(ShownSeeds[DayOf(altered.at)], altered.at, @.previous + 10)]
      [] OTHER -> ticks

\* get_epoch_proofs: the epochs committed so far, with the seeds of those revealed.
Committed == {d \in Days : d <= DayOf(last) + 1}
Proofs ==
    [d \in Committed |-> [commitment |-> seeds[d], revealed |-> d \in revealed, seed |-> ShownSeeds[d]]]

-----------------------------------------------------------------------------
(* The page's arithmetic, in BigInts, whose division drops the fraction *)

roundedUnits(x) ==
    LET denominator == Power10(x.places)
    IN  (x.n * Power10(Decimals) + denominator \div 2) \div denominator

Quotient(a, b) == Truncated(a, b)

priceV2(seed, n, prior) ==
    LET b == Block(seed, n)
        places == Power10(Base.places) * Power10(Sigma.places)
        sigmaUnits == (Base.n * Sigma.n * Power10(Decimals) * 2 + places) \div (2 * places)
        coarse == Quotient((b.sum - 1530) * sigmaUnits, 2560)
        pull == Quotient(Kappa.n * (roundedUnits(Base) - prior), Power10(Kappa.places))
    IN  prior + pull + 10 * coarse + b.residue - (IF b.even THEN 4 ELSE 5)

\* Does the revealed seed yield the tick?  The price of version 1 is not computed again.
Continues(ticks, n) == n - 1 \in DOMAIN ticks => ticks[n - 1].price = ticks[n].previous
Matches(seed, ticks, n) ==
    LET t == ticks[n] IN
    CASE t.version = 2 -> LET units == priceV2(seed, n, t.previous) IN
                          units > 0 /\ units = t.price /\ units % 10 = t.digit /\ Continues(ticks, n)
      [] t.version = 1 -> Block(seed, n).digit = t.digit

\* What the page calls not kept: revealed seeds that do not hash to their commitment.
Broken(proofs, days) == {d \in days : proofs[d].seed # proofs[d].commitment}

verify(proofs, ticks, from, to) ==
    LET present == {n \in DOMAIN ticks : n \in from..to}
        assigned == {n \in present : DayOf(n) \in DOMAIN proofs}
        checked == {n \in assigned : proofs[DayOf(n)].revealed}
        good == {n \in checked : Matches(proofs[DayOf(n)].seed, ticks, n)}
    IN  [missing |-> (from..to) \ present, unassigned |-> present \ assigned,
         pending |-> assigned \ checked, verified |-> good, mismatched |-> checked \ good,
         uncommitted |-> Broken(proofs, {DayOf(n) : n \in checked})]

-----------------------------------------------------------------------------
(* The engine goes on *)

Init ==
    /\ seeds \in {[d \in Days |-> s[d + 1]] : s \in Seedings}
    /\ v2start \in {n \in 1..LastTick + 1 : n % TicksPerDay = 0 \/ n > LastTick}
    /\ altered \in Alterations \cup {NotAltered} /\ shown = ShownTicks
    /\ last = FirstTick /\ stored = 1..FirstTick /\ revealed = {}
    /\ \A n \in 1..FirstTick : shown[n].price > 0
    /\ step = "idle" /\ range = <<0, 0>> /\ after = 0 /\ got = <<>>
    /\ result = NoResult /\ throughout = {} /\ faults = 0

\* A price that is not positive stops it (engine_price_out_of_range).
engine_advance ==
    /\ last < LastTick /\ shown[last + 1].price > 0
    /\ last' = last + 1 /\ stored' = stored \cup {last + 1}
    /\ UNCHANGED <<engine, page, revealed>>

engine_reveal_due_epochs ==
    /\ \E d \in Committed \ revealed : DayOf(last) > d /\ revealed' = revealed \cup {d}
    /\ UNCHANGED <<engine, page, stored, last>>

\* Ticks of a revealed day once a whole day lies between, but for those a contract names.
Retained(d) == d + 1 >= DayOf(last)
engine_purge_ticks ==
    /\ \E d \in {e \in revealed : ~Retained(e)} :
          LET day == {n \in 1..last : DayOf(n) = d} IN
          /\ day \subseteq stored
          /\ \E named \in (SUBSET day) \ {day} : stored' = stored \ (day \ named)
    /\ throughout' = throughout \cap stored'
    /\ UNCHANGED <<engine, last, revealed, step, range, after, got, result>>

-----------------------------------------------------------------------------
(* A verification: the ticks page by page, with the one before the range, then the epochs *)

submit ==
    /\ step = "idle" /\ step' = "ticks"
    /\ range' \in Ranges
    /\ after' = Max({0, range'[1] - 2})
    /\ throughout' = stored
    /\ UNCHANGED <<engine, stored, last, revealed, got, result>>

\* get_tick_verification_data: the next ticks stored, in their order.
NextPage ==
    {n \in stored : n > after /\ Cardinality({m \in stored : after < m /\ m < n}) < PageSize}
readTicks ==
    /\ step = "ticks"
    /\ got' = [n \in NextPage \cup DOMAIN got |-> IF n \in NextPage THEN shown[n] ELSE got[n]]
    /\ IF Cardinality(NextPage) < PageSize \/ Max(NextPage) >= range[2]
       THEN step' = "proofs" /\ UNCHANGED after
       ELSE after' = Max(NextPage) /\ UNCHANGED step
    /\ UNCHANGED <<engine, stored, last, revealed, range, result, throughout>>

readProofs ==
    /\ step = "proofs" /\ step' = "done"
    /\ result' = verify(Proofs, [n \in DOMAIN got \cap (range[1] - 1 .. range[2]) |-> got[n]],
                        range[1], range[2])
    /\ UNCHANGED <<engine, stored, last, revealed, range, after, got, throughout>>

\* A call fails: the page says so and may be asked again.
callFails ==
    /\ step \in {"ticks", "proofs"} /\ faults < MaxFaults /\ faults' = faults + 1
    /\ step' = "idle" /\ got' = <<>> /\ after' = 0 /\ range' = <<0, 0>> /\ throughout' = {}
    /\ UNCHANGED <<seeds, v2start, shown, altered, stored, last, revealed, result>>

Next ==
    \/ engine_advance \/ engine_reveal_due_epochs \/ engine_purge_ticks
    \/ submit \/ readTicks \/ readProofs \/ callFails
Spec == Init /\ [][Next]_proofVars

-----------------------------------------------------------------------------
TypeOK ==
    /\ stored \subseteq 1..last /\ last \in 0..LastTick /\ revealed \subseteq Days
    /\ step \in {"idle", "ticks", "proofs", "done"} /\ after \in 0..LastTick
    /\ DOMAIN got \subseteq 1..LastTick /\ throughout \subseteq stored
    /\ \A k \in DOMAIN result : result[k] \subseteq Nat

\* What the engine published and the server shows is never called a mismatch, a broken
\* commitment or a tick of no epoch, however the reading falls between ticks, reveals,
\* purges and the change of version.
HonestTicksVerify ==
    altered = NotAltered =>
        result.mismatched = {} /\ result.uncommitted = {} /\ result.unassigned = {}

\* With no mismatch and every commitment kept, a tick called verified is the one the
\* engine publishes under the committed seed after the tick shown before it: its digit,
\* and from version 2 on its price.
VerifiedFollows ==
    step = "done" /\ result.mismatched = {} /\ result.uncommitted = {} =>
        \A n \in result.verified :
            IF n < v2start THEN got[n].digit = Block(seeds[DayOf(n)], n).digit
            ELSE n - 1 \in DOMAIN got => got[n] = TickFrom(seeds[DayOf(n)], n, got[n - 1].price)

\* No tick of the range that was there all the time is called missing.
RangeIsWhole == step = "done" => result.missing \cap throughout = {}

\* What the proofs need: what the page has read is what the server shows, of ticks that
\* were published; and of those in the table all the time it has read every one between
\* the beginning of the range and where it stands.
ReadsAreShown ==
    /\ last \in 0..LastTick /\ stored \subseteq 1..last /\ throughout \subseteq stored
    /\ v2start \in 1..LastTick + 1 /\ \A n \in 1..last : shown[n].price > 0
    /\ DOMAIN got \subseteq 1..last /\ \A n \in DOMAIN got : got[n] = shown[n]
ReadsAreWhole ==
    /\ step # "done" => result = NoResult
    /\ step \in {"ticks", "proofs"} => range \in Ranges
    /\ step = "ticks" => after \in Nat /\ \A n \in throughout : n \in range[1] - 1..after => n \in DOMAIN got
    /\ step = "proofs" => \A n \in throughout : n \in range[1]..range[2] => n \in DOMAIN got
=============================================================================
