------------------------------ MODULE Verifier ------------------------------
(***************************************************************************)
(* verifyPackage of verifier/v3/verify.mjs: the verdict on a proof package *)
(* of one index, under the trust documents the reader has; and before it   *)
(* the arithmetic of engine version 3, twice: as engine/v3/generator.mjs   *)
(* and the database compute it, and as the verifier, written without       *)
(* looking at them, computes it again.  The scales of the program (10^12,  *)
(* 2^17) are parameters, and a draw is what the two keys of a day yield    *)
(* for a tick: the innovation z, its parity bit and a uniform residue.     *)
(*                                                                         *)
(* Hashes are injective: the hash of a record is the tuple of its fields.  *)
(* A signature names its key and what it signs; a receipt names the        *)
(* subject, the time stamping service and the time in the token, and       *)
(* whether the token verifies against the pinned roots.                    *)
(***************************************************************************)
EXTENDS Integers

CONSTANTS
    E12, ZScale,      \* fixed-point scales of sigma and of z
    ZMax,             \* bound of |z|
    Variance(_),      \* squared sigma of an annual volatility, as both sides get it
    Day, Interval     \* lengths in ms

ASSUME Scales == {E12, ZScale, ZMax, Day, Interval} \subseteq Nat \ {0}

Larger(a, b) == IF a > b THEN a ELSE b
Abs(a) == IF a < 0 THEN -a ELSE a

\* Division of BigInts drops the fraction.
Truncated(a, b) == IF (a < 0) = (b < 0) THEN Abs(a) \div Abs(b) ELSE -(Abs(a) \div Abs(b))

\* Mutant: the quotient of the language, without the step down for negative numbers.
PlainDiv(a, b) == Truncated(a, b)

floorDiv(a, b) ==
    LET q == Truncated(a, b) IN IF a # b * q /\ (a < 0) # (b < 0) THEN q - 1 ELSE q

floorPositive(a, b) == IF a >= 0 THEN Truncated(a, b) ELSE -Truncated(-a + b - 1, b)

\* Newton's iteration from above, until it stops falling.
isqrt(n) ==
    LET down[x \in 1..n] == LET y == (x + n \div x) \div 2 IN IF y < x THEN down[y] ELSE x
    IN IF n < 2 THEN n ELSE down[n]

sigmaE12(vol) == isqrt(Variance(vol))

\* Bisection between 1 and the target.
perTickSigma(vol) ==
    LET target == Variance(vol)
        find[i \in (1..target) \X (1..target)] ==
            LET lo == i[1]  hi == i[2]  mid == (lo + hi + 1) \div 2 IN
            IF lo >= hi THEN lo ELSE IF mid * mid <= target THEN find[<<mid, hi>>] ELSE find[<<lo, mid - 1>>]
    IN IF target < 2 THEN target ELSE find[<<1, target>>]

\* The price after a draw: a rounded move in tens, and a jitter that sets the digit.
transition(e, P, draw) ==
    LET num == P * e.sigma * draw.z + e.kappa * (e.anchor - P) * ZScale
        den == E12 * ZScale
    IN P + 10 * floorDiv(num + 5 * den, 10 * den) + draw.residue - 4 - draw.parity

expectedUnits(e, P, draw) ==
    LET den == E12 * ZScale
        num == P * e.sigma * draw.z + e.kappa * (e.anchor - P) * ZScale
    IN P + 10 * floorPositive(num + 5 * den, 10 * den) + draw.residue - 4 - draw.parity

\* The guard rail: more than the transition can move the price.
maxMoveUnits(e, P) ==
    LET den == E12 * ZScale
    IN 10 * floorDiv(P * e.sigma * ZMax + e.kappa * Abs(e.anchor - P) * ZScale + 5 * den, 10 * den) + 5

rescaleUnits(u, k) == CASE k = 1 -> 10 * u [] k = 0 -> u [] k = -1 -> floorDiv(u, 10)

InBand(e, u) == e.min <= u /\ u <= e.max

scheduledMs(e, n) == e.t0 + n * Interval
epochStartMs(ms) == (ms \div Day) * Day

\* The first tick of a day that is tradable under its configuration, for the database
\* and for the verifier.
v3_witness_deadline(e, start) ==
    Larger(e.t0 + (e.gen + 1) * Interval,
           e.t0 + Interval * (IF start - e.t0 <= 0 THEN -((e.t0 - start) \div Interval)
                              ELSE (start - e.t0 + Interval - 1) \div Interval))

witnessDeadline(e, start) ==
    LET offset == start - e.t0
        firstAtOrAfter == e.t0 + Interval * (IF offset <= 0 THEN -Truncated(-offset, Interval)
                                             ELSE Truncated(offset + Interval - 1, Interval))
    IN Larger(firstAtOrAfter, e.t0 + (e.gen + 1) * Interval)

-----------------------------------------------------------------------------
(* Hashes and levels *)

Zero == <<"zero">>
NoSeed == <<>>
Unsigned == [key |-> "none", of |-> Zero]

commitmentHash(d, seed, cfg, prev) == <<"epoch-commitment", d, seed, cfg, prev>>
genesisHash(cfg) == <<"genesis", cfg>>
tickHash(t) == <<"tick", t.no, t.at, t.day, t.prev, t.price, t.digit, t.cfg, t.commitment, t.prevHash>>
checkpointHash(c) == <<"checkpoint", c.no, c.tickHash>>

\* How bad a component is: nothing wrong, evidence missing, something wrong.
Fine == 0
Incomplete == 1
Wrong == 2
Worst(S) == CHOOSE x \in S \union {Fine} : \A y \in S : y <= x

Previous(D, n) == CHOOSE m \in D : m < n /\ \A k \in D : k < n => k <= m
Least(D) == CHOOSE n \in D : \A m \in D : n <= m

-----------------------------------------------------------------------------
(* Signatures and receipts.  Each answers with a level and the states it   *)
(* notes.                                                                  *)

\* checkSignature: the key must be in the package, and in the manifest if there is one.
checkSignature(p, o, subject, sig) ==
    IF sig.key = "none" THEN Incomplete
    ELSE IF sig.key \notin p.keys \/ (o.pinned /\ sig.key # "published") \/ sig.of # subject THEN Wrong
    ELSE IF o.pinned THEN Fine ELSE Incomplete

SignatureNotes(level) == IF level = Wrong THEN {"invalid_signature"} ELSE {}

Verifies(r, subject) == r.genuine /\ r.of = subject

\* Mutant: a receipt may be as late as the deadline itself.
LateReceipts(o, subject, receipts, deadline) ==
    Worst({ LET mine == {r \in receipts : r.provider = w}
                ok == {r \in mine : Verifies(r, subject)}
            IN IF ~o.roots \/ mine = {} THEN Incomplete
               ELSE IF ok = {} THEN Wrong
               ELSE IF \E r \in ok : deadline = {} \/ \A x \in deadline : r.at <= x THEN Fine ELSE Incomplete
          : w \in o.required })

\* checkReceipts: the strictest of the required services; deadline is empty or one time.
checkReceipts(o, subject, receipts, deadline) ==
    Worst({ LET mine == {r \in receipts : r.provider = w}
                ok == {r \in mine : Verifies(r, subject)}
            IN IF ~o.roots \/ mine = {} THEN Incomplete
               ELSE IF ok = {} THEN Wrong
               ELSE IF \E r \in ok : \A x \in deadline : r.at < x THEN Fine ELSE Incomplete
          : w \in o.required })

\* Any receipt that does not verify is noted, even if another one of its service does.
ReceiptNotes(o, subject, receipts) ==
    IF o.roots /\ \E r \in receipts : r.provider \in o.required /\ ~Verifies(r, subject)
    THEN {"invalid_witness"} ELSE {}

-----------------------------------------------------------------------------
(* Configurations, days and the anchor.                                    *)

Known(p, cfg) == cfg \in p.configs

ConfigNotes(p) ==
    IF \E c \in p.configs : c.sigma # perTickSigma(c.vol) THEN {"invalid_config"} ELSE {}

SignatureOf(p, o, d) == checkSignature(p, o, p.epochs[d].commitment, p.epochs[d].sig)

Recomputed(p, d) ==
    LET r == p.epochs[d] IN
    /\ r.commitment = commitmentHash(d, r.seedHash, r.cfg, r.prev)
    /\ r.seed # NoSeed => r.seed = r.seedHash

\* What ails a day, and with it its ticks: its record or else its signature.
EpochFault(p, o, d) ==
    IF ~Recomputed(p, d) THEN {"invalid_commitment"} ELSE SignatureNotes(SignatureOf(p, o, d))

\* Days form a chain from a first one that follows none.
EpochNotes(p, o, d) ==
    LET D == DOMAIN p.epochs IN
    EpochFault(p, o, d) \union SignatureNotes(SignatureOf(p, o, d)) \union
    IF d = Least(D) THEN IF p.epochs[d].prev = Zero THEN {} ELSE {"missing_history"}
    ELSE IF d - 1 \in D /\ p.epochs[d].prev = p.epochs[d - 1].commitment THEN {} ELSE {"broken_continuity"}

\* The record before the range, pinned by a signed and witnessed checkpoint.  An unsigned
\* one is not looked at.
AnchorSigned(p) == {a \in p.anchor : a.sig.key # "none"}

AnchorMatches(a) == a.tick.hash = tickHash(a.tick) /\ a.tickHash = a.tick.hash /\ a.no = a.tick.no

AnchorLevel(p, o, a) == checkSignature(p, o, checkpointHash(a), a.sig)
AnchorReceipts(o, a) == checkReceipts(o, checkpointHash(a), a.receipts, {})

Anchors(p, o) ==
    {a \in AnchorSigned(p) : AnchorMatches(a) /\ AnchorLevel(p, o, a) # Wrong /\ AnchorReceipts(o, a) = Fine}

AnchorNotes(p, o) ==
    (UNION { SignatureNotes(AnchorLevel(p, o, a)) \union ReceiptNotes(o, checkpointHash(a), a.receipts)
             \union IF AnchorMatches(a) THEN {} ELSE {"broken_continuity"} : a \in AnchorSigned(p) })
    \union IF \E a \in p.anchor : AnchorMatches(a) /\ a \notin Anchors(p, o) THEN {"missing_history"} ELSE {}

-----------------------------------------------------------------------------
(* Ticks, each under the configuration of its own day.                     *)

HasDay(p, t) == t.day \in DOMAIN p.epochs
Entry(p, t) == p.epochs[t.day].cfg
HasEntry(p, t) == HasDay(p, t) /\ Known(p, Entry(p, t))

\* The record a tick must continue: the one before it in the package, or the anchor.
Prior(p, o, n) ==
    IF \E m \in DOMAIN p.ticks : m < n THEN {p.ticks[Previous(DOMAIN p.ticks, n)]}
    ELSE {a.tick : a \in Anchors(p, o)}

FromGenesis(p, t) ==
    LET e == Entry(p, t) IN t.no = e.gen + 1 /\ t.prev = e.units /\ t.prevHash = genesisHash(e)

Scaled(e, prior) ==
    \/ e.units = prior.price * 10
    \/ e.units = prior.price
    \/ e.units = prior.price \div 10

\* A new start at or after the last tick: its price scaled, its hash the genesis.
ResumeNotes(p, t, prior) ==
    IF ~Scaled(Entry(p, t), prior) THEN {"price_mismatch"}
    ELSE IF FromGenesis(p, t) THEN {} ELSE {"broken_continuity"}

ContinuityNotes(p, o, t) ==
    LET before == Prior(p, o, t.no) e == Entry(p, t) IN
    IF before = {} THEN IF FromGenesis(p, t) THEN {} ELSE {"missing_history"}
    ELSE UNION { IF e.gen >= prior.no /\ t.no = e.gen + 1 THEN ResumeNotes(p, t, prior)
                 ELSE IF t.no = prior.no + 1 /\ t.prev = prior.price /\ t.prevHash = prior.hash THEN {}
                 ELSE {"broken_continuity"} : prior \in before }

RecordNotes(p, t) ==
    LET e == Entry(p, t) IN
    (IF t.hash = tickHash(t) THEN {} ELSE {"broken_continuity"})
    \union (IF /\ t.at = scheduledMs(e, t.no) /\ t.day * Day = epochStartMs(t.at) /\ t.cfg = e
               /\ t.at >= witnessDeadline(e, t.day * Day)
            THEN {} ELSE {"invalid_config"})
    \union (IF t.digit = t.price % 10 THEN {} ELSE {"digit_mismatch"})

\* The day's slot of a tick selects its draw from the seed.
DrawOf(seed, t) == seed[((t.at % Day) \div Interval) + 1]

\* The price is recomputed as soon as the seed of the day is public.
SeedNotes(p, o, t) ==
    LET r == p.epochs[t.day]
        expected == expectedUnits(Entry(p, t), t.prev, DrawOf(r.seed, t))
    IN IF r.commitment # t.commitment THEN {"invalid_commitment"}
       ELSE IF EpochFault(p, o, t.day) # {} THEN EpochFault(p, o, t.day)
       ELSE IF r.seed = NoSeed THEN {"not_yet_revealable"}
       ELSE IF InBand(Entry(p, t), expected) /\ expected = t.price THEN {} ELSE {"price_mismatch"}

TickNotes(p, o, n) ==
    LET t == p.ticks[n] IN
    IF ~HasDay(p, t) THEN {"missing_history"}
    ELSE IF ~HasEntry(p, t) THEN {"invalid_config"}
    ELSE ContinuityNotes(p, o, t) \union RecordNotes(p, t) \union SeedNotes(p, o, t)

Anchored(p, o) ==
    DOMAIN p.ticks # {} =>
        LET t == p.ticks[Least(DOMAIN p.ticks)]
        IN Anchors(p, o) # {} \/ (HasEntry(p, t) /\ FromGenesis(p, t))

-----------------------------------------------------------------------------
(* Receipts of the days, checkpoints in the range, contracts.              *)

WitnessedDays(p) ==
    {p.ticks[n].day : n \in DOMAIN p.ticks} \intersect {d \in DOMAIN p.epochs : Known(p, p.epochs[d].cfg)}

WitnessLevel(p, o) ==
    Worst({ checkReceipts(o, p.epochs[d].commitment, p.epochs[d].receipts, {witnessDeadline(p.epochs[d].cfg, d * Day)})
          : d \in WitnessedDays(p) })

\* The deadline a package exports is compared with the one of its configuration.
DeadlineNotes(p, d) ==
    IF p.epochs[d].deadline \subseteq {witnessDeadline(p.epochs[d].cfg, d * Day)} THEN {} ELSE {"invalid_config"}

WitnessNotes(p, o) ==
    UNION {DeadlineNotes(p, d) \union ReceiptNotes(o, p.epochs[d].commitment, p.epochs[d].receipts) : d \in WitnessedDays(p)}

CheckpointNotes(p, o, c) ==
    (IF c.no \in DOMAIN p.ticks /\ p.ticks[c.no].hash # c.tickHash THEN {"broken_continuity"} ELSE {})
    \union SignatureNotes(checkSignature(p, o, checkpointHash(c), c.sig))
    \union ReceiptNotes(o, checkpointHash(c), c.receipts)

CheckpointLevel(p, o) ==
    Worst({checkReceipts(o, checkpointHash(c), c.receipts, {}) : c \in p.checkpoints}
          \union {AnchorReceipts(o, a) : a \in AnchorSigned(p)})

\* Does the contract win on this final digit?  No answer for a barrier out of range.
contractWins(c, digit) ==
    CASE c.type = "EVEN" -> digit % 2 = 0
      [] c.type = "ODD" -> digit % 2 = 1
      [] c.type = "OVER" -> c.barrier \in 0..8 /\ digit > c.barrier
      [] c.type = "UNDER" -> c.barrier \in 1..9 /\ digit < c.barrier
      [] c.type = "MATCH" -> digit = c.barrier
      [] c.type = "DIFFER" -> digit # c.barrier

\* A voided contract is not judged.
Judged(p) == {c \in p.contracts : c.result # "VOID"}

ContractNotes(p, o, c) ==
    IF c.settle <= c.entry THEN {"contract_mismatch"}
    ELSE IF c.settle \notin DOMAIN p.ticks THEN {"missing_history"}
    ELSE IF c.exit # p.ticks[c.settle].digit \/ (c.result = "WON") # contractWins(c, c.exit) THEN {"contract_mismatch"}
    ELSE TickNotes(p, o, c.settle)

-----------------------------------------------------------------------------
AllNotes(p, o) ==
    ConfigNotes(p) \union AnchorNotes(p, o) \union WitnessNotes(p, o)
    \union (UNION {EpochNotes(p, o, d) : d \in DOMAIN p.epochs})
    \union (UNION {TickNotes(p, o, n) : n \in DOMAIN p.ticks})
    \union (UNION {CheckpointNotes(p, o, c) : c \in p.checkpoints})
    \union (UNION {ContractNotes(p, o, c) : c \in Judged(p)})

SignatureLevel(p, o) ==
    Worst({SignatureOf(p, o, d) : d \in DOMAIN p.epochs} \union {AnchorLevel(p, o, a) : a \in AnchorSigned(p)}
          \union {checkSignature(p, o, checkpointHash(c), c.sig) : c \in p.checkpoints})

Invalid ==
    {"invalid_config", "invalid_commitment", "broken_continuity", "price_mismatch", "digit_mismatch",
     "invalid_signature", "invalid_witness", "contract_mismatch"}

\* summarize: something is wrong, everything is there, or evidence is missing.
summarize(notes, levels, complete) ==
    IF notes \intersect Invalid # {} \/ Wrong \in levels THEN "invalid"
    ELSE IF notes = {} /\ levels = {Fine} /\ complete THEN "fully_verified"
    ELSE "partial"

Verdict(p, o) ==
    summarize(AllNotes(p, o), {SignatureLevel(p, o), WitnessLevel(p, o), CheckpointLevel(p, o)},
              DOMAIN p.ticks # {} /\ Anchored(p, o))
=============================================================================
