---------------------------- MODULE ProofPackage ----------------------------
(***************************************************************************)
(* A history of version 3 as the generator makes it, the proof package the *)
(* database exports of a range of it, what becomes of the package on its   *)
(* way (a tick altered, a day or a receipt left out, the whole series      *)
(* rewritten from other seeds), and the verdict of the verifier.           *)
(*                                                                         *)
(* A seed is what it yields: the draws of its day, slot by slot.           *)
(***************************************************************************)
EXTENDS Verifier, FiniteSets, TLC

CONSTANTS
    Seeds,            \* seeds a day may have
    Anchor, MinUnits, MaxUnits, Vol, Kappa,
    Providers,        \* required time stamping services
    Flawed,           \* the one whose receipt for day 1 may be late, missing or replaced
    LastTick, ResumeDay,
    MaxAlterations

ASSUME Bounds ==
    /\ {Anchor, MinUnits, MaxUnits, Vol, LastTick, ResumeDay} \subseteq Nat \ {0} /\ Kappa \in Nat
    /\ Flawed \in Providers /\ MaxAlterations \in Nat

\* A volatility has a variance; a seed yields a draw for every slot of a day; and the day
\* of the resume begins with some tick.
ASSUME Drawing ==
    /\ Variance(Vol) \in Nat
    /\ Seeds \subseteq [1..(Day - 1) \div Interval + 1 -> [z : -ZMax..ZMax, parity : 0..1, residue : 0..9]]
ASSUME ResumeIsThere ==
    \E n \in 0..LastTick : (n * Interval) \div Day < ResumeDay /\ ((n + 1) * Interval) \div Day = ResumeDay

VARIABLES
    hist,       \* what happened: offset, seeds, pause and exponent of a resume, receipts, reveals
    series,     \* the ticks published
    opts,       \* the trust documents of the reader
    pkg,        \* the package, or NoPackage before its export
    verdict,    \* "none" before verification
    alterations

vars == <<hist, series, opts, pkg, verdict, alterations>>

Days == 0..((1 + LastTick * Interval) \div Day)
NoPause == LastTick + 1
NoPackage == <<>>

DayOf(h, n) == (h.t0 + n * Interval) \div Day

-----------------------------------------------------------------------------
(* The generator: prices, then commitments, then the chain of ticks.       *)

FirstConfig(h) ==
    [vol |-> Vol, sigma |-> sigmaE12(Vol), kappa |-> Kappa, anchor |-> Anchor,
     min |-> MinUnits, max |-> MaxUnits, t0 |-> h.t0, gen |-> 0, units |-> Anchor]

\* The last tick before the day of the resume.
ResumeGenesis(h) == CHOOSE n \in 0..LastTick : DayOf(h, n) < ResumeDay /\ DayOf(h, n + 1) = ResumeDay

Skipped(h, n) == h.pause < n /\ n <= ResumeGenesis(h)
Resumes(h, n) == h.pause # NoPause /\ n = ResumeGenesis(h) + 1

\* Exponent 2 stands for a start that is no scaled price.
ResumeUnits(u, k) == IF k = 2 THEN u + 30 ELSE rescaleUnits(u, k)

SeedDraw(h, n) == h.seeds[DayOf(h, n) + 1][(((h.t0 + n * Interval) % Day) \div Interval) + 1]

\* generateTick over the series: it stops at a price out of the band, or beyond the limit.
Prices(h) ==
    LET walk[n \in 0..LastTick] ==
          IF n = 0 THEN [state |-> "on", prev |-> Anchor, price |-> Anchor]
          ELSE LET before == walk[n - 1]
                   P == IF Resumes(h, n) THEN ResumeUnits(before.price, h.k) ELSE before.price
                   next == transition(FirstConfig(h), P, SeedDraw(h, n))
               IN IF before.state # "on" \/ Skipped(h, n) THEN before
                  ELSE [state |-> IF Abs(next - P) > maxMoveUnits(FirstConfig(h), P) THEN "limit"
                                   ELSE IF InBand(FirstConfig(h), next) THEN "on" ELSE "band",
                        prev |-> P, price |-> next]
    IN walk

\* createEpochLedger: configurations rotate between days, commitments chain from zero.
Config(h, d) ==
    IF h.pause = NoPause \/ d < ResumeDay THEN FirstConfig(h)
    ELSE [FirstConfig(h) EXCEPT !.gen = ResumeGenesis(h), !.units = ResumeUnits(Prices(h)[ResumeGenesis(h)].price, h.k)]

Commitments(h, config) ==
    LET chain[d \in Days] ==
          LET prev == IF d = 0 THEN Zero ELSE chain[d - 1].commitment
          IN [seedHash |-> h.seeds[d + 1], cfg |-> config[d], prev |-> prev,
              commitment |-> commitmentHash(d, h.seeds[d + 1], config[d], prev)]
    IN chain
Ledger(h) == Commitments(h, [d \in Days |-> Config(h, d)])

\* createSeries: each tick carries the hash of the one before it.
Sealed(t) == [t EXCEPT !.hash = tickHash(t)]
Chained(h, prices, ledger) ==
    LET ticks[n \in 0..LastTick] ==
          IF n = 0 THEN [hash |-> genesisHash(ledger[0].cfg)]
          ELSE IF prices[n].state # "on" \/ Skipped(h, n) THEN ticks[n - 1]
          ELSE Sealed([hash |-> Zero, no |-> n, at |-> scheduledMs(ledger[DayOf(h, n)].cfg, n), day |-> DayOf(h, n),
                       prev |-> prices[n].prev, price |-> prices[n].price, digit |-> prices[n].price % 10,
                       cfg |-> ledger[DayOf(h, n)].cfg, commitment |-> ledger[DayOf(h, n)].commitment,
                       prevHash |-> IF Resumes(h, n) THEN genesisHash(ledger[DayOf(h, n)].cfg)
                                    ELSE ticks[n - 1].hash])
    IN [n \in {m \in 1..LastTick : prices[m].state = "on" /\ ~Skipped(h, m)} |-> ticks[n]]
Series(h) == Chained(h, Prices(h), Ledger(h))

-----------------------------------------------------------------------------
(* The export (get_v3_proof_package): a range of ticks from the genesis or *)
(* from a checkpoint, the days up to its end, and the reader's contracts.  *)

Receipt(subject, w, at) == [provider |-> w, of |-> subject, at |-> at, genuine |-> TRUE]

ReceiptsOf(h, subject, d) ==
    LET early == Receipt(subject, Flawed, d * Day - 1)
        others == {Receipt(subject, w, d * Day - 1) : w \in Providers \ {Flawed}}
    IN others \union
       IF d # 1 THEN {early}
       ELSE CASE h.receipts = "early" -> {early}
              [] h.receipts = "late" -> {Receipt(subject, Flawed, v3_witness_deadline(Config(h, d), d * Day))}
              [] h.receipts = "missing" -> {}
              [] h.receipts = "replaced" -> {early, [early EXCEPT !.genuine = FALSE]}

Checkpoint(t) ==
    [no |-> t.no, tickHash |-> t.hash, tick |-> t,
     sig |-> [key |-> "published", of |-> checkpointHash([no |-> t.no, tickHash |-> t.hash])],
     receipts |-> {Receipt(checkpointHash([no |-> t.no, tickHash |-> t.hash]), w, t.at + 1) : w \in Providers}]

DC == INSTANCE DigitContract WITH Margin <- 100, MaxDelay <- 1

\* The contract that settled on the last tick of the range, as the database settled it.
Contract(t, type, barrier) ==
    [entry |-> t.no - 1, settle |-> t.no, type |-> type, barrier |-> barrier, exit |-> t.digit,
     result |-> DC!Verdict(type, barrier, t.no, t.digit, 0)]

Bets == {<<"EVEN", 0>>, <<"OVER", 4>>, <<"DIFFER", 7>>}

Export(ledger, from, to) ==
    LET near == {d \in Days : \E n \in DOMAIN series : from - 1 <= n /\ n <= to /\ series[n].day = d}
        upTo == {d \in Days : \E e \in near : d <= e}
    IN [configs |-> {ledger[d].cfg : d \in near},
        keys |-> {"published", "retired"},
        epochs |-> [d \in upTo |->
            [seedHash |-> ledger[d].seedHash, cfg |-> ledger[d].cfg, prev |-> ledger[d].prev,
             commitment |-> ledger[d].commitment, sig |-> [key |-> "published", of |-> ledger[d].commitment],
             seed |-> IF d \in near /\ d < hist.revealed THEN ledger[d].seedHash ELSE NoSeed,
             deadline |-> IF d \in near THEN {v3_witness_deadline(ledger[d].cfg, d * Day)} ELSE {},
             receipts |-> IF d \in near THEN ReceiptsOf(hist, ledger[d].commitment, d) ELSE {}]],
        anchor |-> IF from = 1 THEN {} ELSE {Checkpoint(series[from - 1])},
        ticks |-> [n \in {m \in DOMAIN series : from <= m /\ m <= to} |-> series[n]],
        checkpoints |-> {Checkpoint(series[n]) : n \in {to} \intersect DOMAIN series},
        contracts |-> {Contract(series[n], bet[1], bet[2]) : n \in {to} \intersect DOMAIN series, bet \in Bets}]

getProofPackage ==
    /\ pkg = NoPackage
    /\ \E from \in {1, 3}, to \in {LastTick - 1, LastTick} :
        /\ from # 1 => from - 1 \in DOMAIN series
        /\ \E n \in DOMAIN series : from <= n /\ n <= to
        /\ pkg' = Export(Ledger(hist), from, to)
    /\ UNCHANGED <<hist, series, opts, verdict, alterations>>

-----------------------------------------------------------------------------
(* What may become of a package.                                           *)

Open == pkg # NoPackage /\ verdict = "none" /\ alterations < MaxAlterations

Becomes(p) ==
    /\ p # pkg
    /\ pkg' = p
    /\ alterations' = alterations + 1
    /\ UNCHANGED <<hist, series, opts, verdict>>

\* Hashes made good again from the first tick on.
Rehashed(ticks) ==
    LET sealed[n \in DOMAIN ticks] ==
          LET t == IF \E m \in DOMAIN ticks : m = n - 1
                   THEN [ticks[n] EXCEPT !.prevHash = sealed[n - 1].hash, !.prev = sealed[n - 1].price] ELSE ticks[n]
          IN Sealed(t)
    IN sealed

AlterTick ==
    Open /\ \E n \in DOMAIN pkg.ticks, delta \in {1, 10}, sealed \in BOOLEAN :
        LET price == pkg.ticks[n].price + delta
            ticks == [pkg.ticks EXCEPT ![n].price = price, ![n].digit = price % 10]
        IN Becomes([pkg EXCEPT !.ticks = IF sealed THEN Rehashed(ticks) ELSE ticks, !.checkpoints = {}])

OmitTick ==
    Open /\ \E n \in DOMAIN pkg.ticks : Becomes([pkg EXCEPT !.ticks = [m \in DOMAIN @ \ {n} |-> @[m]]])

OmitDay ==
    Open /\ \E d \in DOMAIN pkg.epochs : Becomes([pkg EXCEPT !.epochs = [e \in DOMAIN @ \ {d} |-> @[e]]])

OmitEvidence ==
    Open /\ \E d \in DOMAIN pkg.epochs :
        \/ Becomes([pkg EXCEPT !.epochs[d].receipts = {}])
        \/ Becomes([pkg EXCEPT !.epochs[d].sig = Unsigned])
        \/ Becomes([pkg EXCEPT !.epochs[d].seed = NoSeed])
        \/ \E x \in pkg.epochs[d].deadline : Becomes([pkg EXCEPT !.epochs[d].deadline = {x + Interval}])

AlterResult ==
    Open /\ \E c \in pkg.contracts :
        LET result == IF c.result = "WON" THEN "LOST" ELSE "WON"
        IN Becomes([pkg EXCEPT !.contracts = (@ \ {c}) \union {[c EXCEPT !.result = result]}])

\* The same range of another history, signed by some key, with the receipts there are
\* (of the first commitment of each day) or with receipts fetched afterwards.
Rewritten(all, ledger, key, fetched) ==
    LET sign(subject) == IF key = "none" THEN Unsigned ELSE [key |-> key, of |-> subject]
        day(d) == LET c == ledger[d].commitment IN
            [seedHash |-> ledger[d].seedHash, cfg |-> ledger[d].cfg, prev |-> ledger[d].prev, commitment |-> c,
             sig |-> sign(c), seed |-> ledger[d].seedHash,
             deadline |-> {v3_witness_deadline(ledger[d].cfg, d * Day)},
             receipts |-> IF fetched THEN {Receipt(c, w, (d + 2) * Day) : w \in Providers} ELSE pkg.epochs[d].receipts]
    IN [pkg EXCEPT !.configs = {ledger[d].cfg : d \in DOMAIN pkg.epochs},
                   !.epochs = [d \in DOMAIN pkg.epochs |-> day(d)],
                   !.ticks = [n \in DOMAIN pkg.ticks |-> all[n]],
                   !.checkpoints = {}]

Replaced(all, ledger) ==
    /\ DOMAIN pkg.ticks \subseteq DOMAIN all
    /\ \E key \in {"published", "retired", "none"}, fetched \in BOOLEAN :
        Becomes(Rewritten(all, ledger, key, fetched))
RewrittenFrom(other) == Replaced(Series(other), Ledger(other))
Rewrite ==
    Open /\ \E s \in Seeds, d \in DOMAIN pkg.epochs :
        s # hist.seeds[d + 1] /\ RewrittenFrom([hist EXCEPT !.seeds[d + 1] = s])

\* verifyPackage, once, by the reader.
verifyPackage ==
    /\ pkg # NoPackage /\ verdict = "none"
    /\ verdict' = Verdict(pkg, opts)
    /\ UNCHANGED <<hist, series, opts, pkg, alterations>>

-----------------------------------------------------------------------------
Chosen == [1..Cardinality(Days) -> Seeds]

\* Whole histories, histories with a receipt amiss, and histories with a pause.
Histories ==
    [t0 : {0, 1}, seeds : Chosen, pause : {NoPause}, k : {0}, receipts : {"early"}, revealed : {1, 3}]
    \union
    [t0 : {0}, seeds : Chosen, pause : {NoPause}, k : {0}, receipts : {"late", "missing", "replaced"}, revealed : {3}]
    \union
    [t0 : {0}, seeds : Chosen, pause : {2, 3}, k : {-1, 0, 1, 2}, receipts : {"early"}, revealed : {3}]

\* A reader without the key manifest or the roots checks a history with nothing else amiss.
Readers(h) ==
    {o \in [pinned : BOOLEAN, roots : BOOLEAN, required : {Providers}] :
        (o.pinned /\ o.roots) \/ (h.receipts = "early" /\ h.pause = NoPause)}

Init ==
    /\ hist \in Histories
    /\ series = Series(hist)
    /\ opts \in Readers(hist)
    /\ pkg = NoPackage /\ verdict = "none" /\ alterations = 0

Next ==
    \/ getProofPackage \/ verifyPackage
    \/ AlterTick \/ OmitTick \/ OmitDay \/ OmitEvidence \/ AlterResult \/ Rewrite

Spec == Init /\ [][Next]_vars

-----------------------------------------------------------------------------
\* Published prices stay in the band, digits are digits, and the package holds at most
\* what the verifier can date.
TypeOK ==
    /\ verdict \in {"none", "fully_verified", "partial", "invalid"}
    /\ alterations \in 0..MaxAlterations
    /\ \A n \in DOMAIN series :
        series[n].price \in MinUnits..MaxUnits /\ series[n].digit \in 0..9

\* generator.mjs:131: "the generator can never reach" the move limit of the database,
\* from any price, after a rescale and with every draw.
NeverBeyondLimit == alterations = 0 => \A n \in 0..LastTick : Prices(hist)[n].state # "limit"

HonestEvidence == hist.receipts = "early" /\ hist.k # 2 /\ opts.pinned /\ opts.roots

\* What the generator made and the database exported is never called invalid, and is
\* fully verified once all evidence is there: the two computations of sigma, prices,
\* schedules and deadlines agree, across a pause, a rescale and a checkpoint anchor.
HonestVerifies ==
    verdict # "none" /\ alterations = 0 /\ hist.receipts # "replaced" /\ hist.k # 2 =>
        /\ verdict # "invalid"
        /\ HonestEvidence /\ (\A n \in DOMAIN pkg.ticks : pkg.ticks[n].day < hist.revealed)
               => verdict = "fully_verified"

\* A fully verified package shows what was published, whatever became of it: prices and
\* digits are those of the seeds committed first.  It leaves no tick of its range out,
\* but for ticks next to a pause: a configuration does not tell when the pause began.
VerifiedTicks ==
    verdict = "fully_verified" =>
        /\ \A n \in DOMAIN pkg.ticks : n \in DOMAIN series /\ pkg.ticks[n] = series[n]
        /\ \A n \in DOMAIN series :
            /\ \E m \in DOMAIN pkg.ticks : m < n
            /\ \E k \in DOMAIN pkg.ticks : n < k
            => n \in DOMAIN pkg.ticks \/ Resumes(hist, Least({k \in DOMAIN pkg.ticks : n < k}))
        /\ (\E n \in DOMAIN pkg.ticks : Resumes(hist, n) /\ Prior(pkg, opts, n) # {}) => hist.k # 2

\* It also means that every required service saw the commitment of each of its days
\* before the first tick of that day, and that a deadline it shows is the time of that
\* tick, the first one on the schedule after the start of its configuration.
VerifiedIsTimely ==
    verdict = "fully_verified" => \A n \in DOMAIN pkg.ticks :
        LET d == DayOf(hist, n)
            c == Config(hist, d)
            first == Least({m \in c.gen + 1..n : DayOf(hist, m) = d})
        IN (d = 1 => hist.receipts = "early") /\ pkg.epochs[d].deadline \subseteq {scheduledMs(c, first)}

\* And that each result in it is what engine_settle_contract makes of the exit digit.
VerifiedResults ==
    verdict = "fully_verified" => \A c \in pkg.contracts :
        c.result = DC!Verdict(c.type, c.barrier, c.settle, series[c.settle].digit, 0)
=============================================================================
