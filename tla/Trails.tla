------------------------------- MODULE Trails --------------------------------
(***************************************************************************)
(* app/data_sources/dark_signals.py: a signal kept only for its entry, and   *)
(* three trailing stops replayed over the candles that followed.  A long is  *)
(* followed; a short is its mirror.  Prices are integers fine enough that    *)
(* the divisions below lose nothing that matters.                            *)
(***************************************************************************)
EXTENDS Integers, Sequences, FiniteSets, FiniteSetsExt

CONSTANTS
    Period,          \* dark_atr_period
    Mult,            \* dark_atr_mult
    Step, MaxStep,   \* dark_sar_step and dark_sar_max, in quarters
    TfMin,           \* minutes of one resampled bar
    FundingBps, FeeBps

ASSUME TrailsAssumption ==
    /\ Period \in Nat \ {0, 1} /\ {Mult, Step, MaxStep, TfMin} \subseteq Nat \ {0}
    /\ {FundingBps, FeeBps} \subseteq Nat

NoLevel == -1
Greatest(a, b) == IF a > b THEN a ELSE b
Least(a, b) == IF a < b THEN a ELSE b
Abs(x) == IF x < 0 THEN -x ELSE x

\* resample: candles whose minute falls in one bucket make one bar.
BucketOf(k) == k.minute \div TfMin
Resample(klines) ==
    LET buckets == {BucketOf(klines[i]) : i \in DOMAIN klines}
        in(b) == {i \in DOMAIN klines : BucketOf(klines[i]) = b}
        bar(b) == [bucket |-> b, open |-> klines[Min(in(b))].open,
                   close |-> klines[Max(in(b))].close,
                   high |-> Max({klines[i].high : i \in in(b)}),
                   low |-> Min({klines[i].low : i \in in(b)})]
    IN [n \in 1..Cardinality(buckets) |->
           bar(CHOOSE b \in buckets : Cardinality({c \in buckets : c < b}) = n - 1)]

\* The entry bar: the first whose bucket ends after the dispatch.
EntryBar(bars, dispatch) ==
    LET later == {i \in DOMAIN bars : (bars[i].bucket + 1) * TfMin > dispatch}
    IN IF later = {} THEN 0 ELSE Min(later)

------------------------------------------------------------------------------
\* wilder_atr: the mean of the first true ranges, then smoothed.
TrueRange(bars, i) ==
    Max({bars[i].high - bars[i].low, Abs(bars[i].high - bars[i - 1].close),
         Abs(bars[i].low - bars[i - 1].close)})

Atr(bars) ==
    LET seed == MapThenSumSet(LAMBDA i : TrueRange(bars, i), 2..(Period + 1))
        atr[i \in DOMAIN bars] ==
            CASE i <= Period -> NoLevel
              [] i = Period + 1 -> seed \div Period
              [] OTHER -> (atr[i - 1] * (Period - 1) + TrueRange(bars, i)) \div Period
    IN atr

\* supertrend: two bands, each carried forward while it protects more, and the
\* direction they imply.
SuperTrend(bars) ==
    LET mid(i) == (bars[i].high + bars[i].low) \div 2
        raw(i) == [upper |-> mid(i) + Mult * Atr(bars)[i], lower |-> mid(i) - Mult * Atr(bars)[i]]
        st[i \in DOMAIN bars] ==
            IF i <= Period THEN [dir |-> 0, upper |-> 0, lower |-> 0]
            ELSE IF i = Period + 1 THEN [dir |-> 1, upper |-> raw(i).upper, lower |-> raw(i).lower]
            ELSE LET prev == st[i - 1]
                     lower == IF raw(i).lower > prev.lower \/ bars[i - 1].close < prev.lower
                              THEN raw(i).lower ELSE prev.lower
                     upper == IF raw(i).upper < prev.upper \/ bars[i - 1].close > prev.upper
                              THEN raw(i).upper ELSE prev.upper
                     dir == IF prev.dir = 1 THEN (IF bars[i].close < lower THEN -1 ELSE 1)
                            ELSE (IF bars[i].close > upper THEN 1 ELSE -1)
                 IN [dir |-> dir, upper |-> upper, lower |-> lower]
    IN st

\* parabolic_sar_levels: the stop in force during a bar is projected from the bars
\* before it; a bar that breaches it publishes the other side.
NoSar == [up |-> TRUE, af |-> Step, ep |-> 0, force |-> NoLevel, published |-> NoLevel]

SarStart(bars) ==
    IF bars[2].high >= bars[1].high
    THEN [NoSar EXCEPT !.ep = bars[2].high, !.published = bars[1].low]
    ELSE [NoSar EXCEPT !.up = FALSE, !.ep = bars[2].low, !.published = bars[1].high]

\* The stop of bar i, after what the bar before it left.
ForceAt(bars, prev, i) ==
    LET projected == prev.published + (prev.af * (prev.ep - prev.published)) \div 4
    IN IF prev.up THEN Min({projected, bars[i - 1].low, bars[i - 2].low})
       ELSE Max({projected, bars[i - 1].high, bars[i - 2].high})

SarNext(bars, prev, i) ==
    LET force == ForceAt(bars, prev, i)
        breached == IF prev.up THEN bars[i].low < force ELSE bars[i].high > force
        further == IF prev.up THEN bars[i].high > prev.ep ELSE bars[i].low < prev.ep
    IN CASE breached ->
               [up |-> ~prev.up, af |-> Step, force |-> force, published |-> prev.ep,
                ep |-> IF prev.up THEN bars[i].low ELSE bars[i].high]
         [] ~breached /\ further ->
               [prev EXCEPT !.ep = IF prev.up THEN bars[i].high ELSE bars[i].low,
                            !.af = Least(prev.af + Step, MaxStep),
                            !.force = force, !.published = force]
         [] OTHER -> [prev EXCEPT !.force = force, !.published = force]

Sar(bars) ==
    LET s[i \in DOMAIN bars] ==
            IF i = 1 THEN NoSar ELSE IF i = 2 THEN SarStart(bars) ELSE SarNext(bars, s[i - 1], i)
    IN s

------------------------------------------------------------------------------
\* The ratcheted chandelier: each bar's own high and range move the trail before
\* its low is held against it.
AtrTrail(bars, entry) ==
    LET extreme(i) == Max({bars[j].high : j \in entry..i})
        t[i \in entry..Len(bars)] ==
            LET level == extreme(i) - Mult * Atr(bars)[i]
            IN IF i = entry THEN level ELSE Greatest(t[i - 1], level)
    IN t

\* A fill taken at the level the indicator publishes.
StopPublished(method, bars, entry, i) ==
    IF method = "sar" THEN Sar(bars)[i].published ELSE AtrTrail(bars, entry)[i]

\* The stop a bar is held against.
StopAt(method, bars, entry, i) ==
    IF method = "sar" THEN Sar(bars)[i].force ELSE AtrTrail(bars, entry)[i]

\* Is there an indicator at entry, so a stop from the first bar on?
Seeded(method, bars, entry) ==
    /\ entry \in DOMAIN bars
    /\ IF method = "sar" THEN entry > 2 ELSE entry > Period

\* SuperTrend leaves on the close of the bar that turned; the others inside the
\* first bar after entry that reaches the stop.
Leaves(method, bars, entry, i) ==
    IF method = "supertrend" THEN SuperTrend(bars)[i].dir = -1
    ELSE bars[i].low <= StopAt(method, bars, entry, i)

\* A bar that opens beyond the stop fills at its open.
Fill(method, bars, entry, i) ==
    IF method = "supertrend" THEN bars[i].close
    ELSE Least(bars[i].open, StopAt(method, bars, entry, i))

\* simulate_trailing_exit
TrailResult(method, bars, entry, price) ==
    LET leaving == {i \in (entry + 1)..Len(bars) : Leaves(method, bars, entry, i)}
        out == IF leaving = {} THEN Len(bars) ELSE Min(leaving)
        held == IF leaving = {} THEN entry..out ELSE entry..(out - 1)
        exit == IF leaving = {} THEN bars[out].close ELSE Fill(method, bars, entry, out)
        minutes == (out - entry) * TfMin
    IN IF ~Seeded(method, bars, entry) THEN [reason |-> "no-data"]
       ELSE [reason |-> IF leaving = {} THEN "open" ELSE "trail",
             gross |-> exit - price,
             mfe |-> Greatest(0, Max({bars[i].high : i \in held}) - price),
             funding |-> (FundingBps * minutes) \div 480,
             fee |-> IF leaving = {} THEN 0 ELSE FeeBps,
             minutes |-> minutes]
=============================================================================
