------------------------------- MODULE Measures ------------------------------
(***************************************************************************)
(* The measuring side of ops over data as it may come: the candles and their *)
(* breaker, one load of the health page, the engine's loop as its card sees  *)
(* it, and samples that grow by one element at a time - the bars of a trade, *)
(* the bars of a chart, the rows of a page.  The parts share nothing, so one *)
(* is at work in a behaviour and the states here are the sum of theirs.      *)
(***************************************************************************)
EXTENDS Candles, Structural, Trails, DarkLedger, SarArms, TrackRecord, Profit, Probing,
        LoopHealth

CONSTANTS
    Bars,         \* what a minute of the trade may look like, in percent of the entry
    ChartBars,    \* what a bar of the chart may look like
    RowChoices,   \* what a row of a page may look like
    Distances,    \* how far from the entry a stop or a target may be put
    MaxBars, MaxChart, MaxRows,    \* bounds: lengths of the samples
    Moments       \* when a page of the track record may be opened

\* A row's times are moments or missing, the calendar goes on after the last, and a
\* delivery state has a name.
ASSUME SampleAssumption ==
    /\ Moments \subseteq Nat
    /\ \A r \in RowChoices :
          /\ {r.opened, r.closed} \subseteq Nat \cup {Undated}
          /\ \E day \in Begins["day"] : r.closed < day
          /\ r.emitted \in Nat \cup {None} /\ r.delivery # All

\* A bar opens and closes within its range, and no price is the mark of a missing one.
ASSUME BarAssumption ==
    /\ \A b \in Bars \cup ChartBars :
          /\ {b.open, b.low, b.high, b.close} \subseteq Int
          /\ {b.open, b.close} \subseteq b.low..b.high
    /\ \A b \in Bars : b.close # None
    /\ Distances \subseteq Nat \ {0}

VARIABLES
    part,      \* the part at work, or none of them
    sample     \* what has been sampled so far

measuresVars == <<part, sample, candlesVars, probingVars, loopVars>>

Init ==
    /\ part \in {"candles", "box", "loop", "trade", "chart", "table", "none"} /\ sample = <<>>
    /\ CandlesInit /\ (part # "candles" => ~closed)
    /\ IF part = "box" THEN ProbingInit ELSE BoxAtRest
    /\ IF part = "loop" THEN LoopInit ELSE LoopAtRest

FetchCandles == part = "candles" /\ CandlesNext /\ UNCHANGED <<part, sample, probingVars, loopVars>>
ProbeBox == part = "box" /\ ProbingNext /\ UNCHANGED <<part, sample, candlesVars, loopVars>>
RunLoop == part = "loop" /\ LoopNext /\ UNCHANGED <<part, sample, candlesVars, probingVars>>
Grow ==
    /\ \/ part = "trade" /\ Len(sample) < MaxBars /\ \E b \in Bars : sample' = Append(sample, b)
       \/ part = "chart" /\ Len(sample) < MaxChart /\ \E b \in ChartBars : sample' = Append(sample, b)
       \/ part = "table" /\ Len(sample) < MaxRows /\ \E r \in RowChoices : sample' = Append(sample, r)
    /\ UNCHANGED <<part, candlesVars, probingVars, loopVars>>

Next == FetchCandles \/ ProbeBox \/ RunLoop \/ Grow
Spec == Init /\ [][Next]_measuresVars

------------------------------------------------------------------------------
\* The reference for a replayed trade: bar after bar, a leg fills at its target, and
\* what is left goes at the stop.  Within one bar the lenient reading takes the
\* target first, the strict one the stop.
LastBar == FirstOf({i \in DOMAIN sample : sample[i].low <= Stop}, Len(sample))
Touched(level, last) == \E i \in DOMAIN sample : i <= last /\ sample[i].high >= level
ReplayTail ==
    IF LastBar <= Len(sample) THEN Stop ELSE IF sample = <<>> THEN 0 ELSE sample[Len(sample)].close
Made(legs, filled) ==
    Over([i \in filled |-> legs[i].share * Aim(legs[i])]) + (Whole - Share(legs, filled)) * ReplayTail
Replay(legs, last) == Made(legs, {i \in DOMAIN legs : Touched(Aim(legs[i]), last)})
Lenient(key) == Replay(Catalog[key], LastBar)
Strict(key) == Replay(Catalog[key], LastBar - 1)

\* What the engine records of the trade: extremes and touches over all of its bars,
\* those after the stop too; the stamps and the flag may be missing.
FirstTouch(P(_)) ==
    LET at == {i \in DOMAIN sample : P(sample[i])} IN IF at = {} THEN None ELSE Min(at)
Highs == {sample[i].high : i \in DOMAIN sample}
Lows == {sample[i].low : i \in DOMAIN sample}
EngineRow(stamped, flagged) ==
    LET hit == LastBar <= Len(sample)
    IN [side |-> "LONG", entry |-> TRUE, levels |-> Level, sq_pnl |-> None,
        original_sl |-> Stop, stop_loss |-> 0, sl |-> None,
        hit_sl |-> IF flagged THEN IF hit THEN "yes" ELSE "no" ELSE "unknown",
        mae |-> Max({0} \cup {-low : low \in Lows}), mfe |-> Highest(Highs),
        hit_tp |-> Max({0} \cup {k \in Level : \E high \in Highs : high >= Tp(k)}),
        tp_touch |-> IF stamped THEN FirstTouch(LAMBDA b : b.high >= Tp(1)) ELSE None,
        sl_touch |-> IF stamped THEN FirstTouch(LAMBDA b : b.low <= Stop) ELSE None,
        pnl |-> IF sample = <<>> THEN 0 ELSE sample[Len(sample)].close,
        active |-> ~hit]

\* What a page shows of a record under a ladder.
Shown(row, key) == IF key = "be_tp1" THEN EvaluateBe(row) ELSE Evaluate(row, key)
Exact(result) == ~result.approx /\ result.value # None

\* The record orders only the first target and the stop.  Once the first was touched
\* no later than the stop, a leg that lies beyond it counts whenever it was touched.
Believed(legs) ==
    {i \in DOMAIN legs :
        \/ Touched(Aim(legs[i]), LastBar)
        \/ /\ Aim(legs[i]) > Tp(1) /\ Touched(Tp(1), LastBar)
           /\ Touched(Aim(legs[i]), Len(sample))}

\* A replay of what was recorded makes a trade no better than its bars, read in the
\* trade's favour, and no target at or inside the first counts that came after the
\* stop; what it adds to the bars is a farther leg touched at any time after the first
\* was, and a break-even exit of a trade that was ever up by the trigger
\* (exit_sim.py:190-228, 367-403).
NoInventedWin ==
    part = "trade" =>
        \A stamped, flagged \in BOOLEAN, key \in DOMAIN Catalog :
            LET result == Shown(EngineRow(stamped, flagged), key)
            IN Exact(result) =>
                  \/ result.value <= Made(Catalog[key], Believed(Catalog[key]))
                  \/ key = "be_tp1" /\ result.value = 0 /\ Touched(FixedPct, Len(sample))

\* "When nothing in the record can disambiguate a both-touched case we return False
\* (stop-first): pessimistic, never an invented win" (exit_sim.py:193-196).
WinsAreNeverInvented ==
    part = "trade" =>
        \A stamped, flagged \in BOOLEAN, key \in DOMAIN Catalog \ {"be_tp1"} :
            LET result == Evaluate(EngineRow(stamped, flagged), key)
            IN Exact(result) => result.value <= Lenient(key)

\* The held arm the engine walked over the same bars, to the stop or to the last.
HeldRow ==
    LET hit == LastBar <= Len(sample)
        before == {sample[i].high : i \in 1..(LastBar - 1)}
        upto == {sample[i].high : i \in 1..Min({LastBar, Len(sample)})}
    IN [side |-> "LONG", entry |-> TRUE, stop |-> TRUE, levels |-> Level,
        hold |-> IF hit THEN "HOLD_SL" ELSE "HOLD_EXPIRED", hold_result |-> ReplayTail,
        hold_hit_tp |-> Max({0} \cup {k \in Level : \E high \in before : high >= Tp(k)}),
        hold_mfe |-> Highest(before), hold_mfe_incl |-> Highest(upto)]

\* What the engine stamped is enough: every ladder priced from the stamps alone is
\* the strict replay of the bars, leg for leg (dark_exit_sim.py:203-265), and a
\* break-even stop never costs more than it.
LaddersAreExact ==
    sample # <<>> =>
        /\ \A key \in DOMAIN Catalog \ {"be_tp1"} : PriceHeld(HeldRow, key).value = Strict(key)
        /\ PriceHeld(HeldRow, "be_tp1").value >= Strict("be_tp1")
        /\ PriceHeld(HeldRow, "hold").value = Whole * SimulateToStop(sample).result

\* A trade over the closes of the bars, with its target and stop, that may also be
\* closed by something else at bar c.
Close(i) == sample[i].close
ExitBar(c, tp, sl) == Min({i \in DOMAIN sample : Close(i) <= -sl \/ Close(i) >= tp} \cup {c})
ExitValue(i, tp, sl) == IF Close(i) <= -sl THEN -sl ELSE IF Close(i) >= tp THEN tp ELSE Close(i)
ClosedRecord(c, tp, sl) ==
    LET out == ExitBar(c, tp, sl)
    IN [pnl |-> ExitValue(out, tp, sl), mfe |-> Max({0} \cup {Close(i) : i \in 1..out}),
        mae |-> Max({0} \cup {-Close(i) : i \in 1..out})]

\* The same trade under another geometry: closed at c only if that is how it ended.
Otherwise(c, tp, sl, newTp, newSl) ==
    LET other == IF ExitBar(c, tp, sl) = c /\ Close(c) > -sl /\ Close(c) < tp THEN c ELSE Len(sample)
    IN ExitValue(ExitBar(other, newTp, newSl), newTp, newSl)

\* Whatever the snap reports say is decided is what the trade would have made, seen
\* over all of its bars; what only the bars after the close could tell is refused
\* (structural_snap.py:257-402).
DecidedMeansKnowable ==
    \A c \in DOMAIN sample, tp, sl, new \in Distances :
        LET rec == ClosedRecord(c, tp, sl)
            nearer == Tp1Arm(rec, tp, new)  moved == SlArm(rec, sl, new)
        IN /\ new <= tp /\ nearer.verdict = "decided" => nearer.value = Otherwise(c, tp, sl, new, sl)
           /\ moved.verdict = "decided" => moved.value = Otherwise(c, tp, sl, tp, new)

\* What the held arm's ladders and the snap reports say of a trade is what its bars say.
PathsDecide == part = "trade" => LaddersAreExact /\ DecidedMeansKnowable

------------------------------------------------------------------------------
\* The SAR stop a bar is held against was known before that bar: whatever the bar
\* turns out to be, its stop is the same, and the fill is a price it traded at
\* (dark_signals.py:216-292, 329-350).
StopsAreKnowable ==
    part = "chart" /\ Len(sample) >= 2 =>
        LET next == Len(sample) + 1
            with(b) == Append(sample, b)
        IN /\ \A b, other \in ChartBars :
                 StopAt("sar", with(b), 1, next) = StopAt("sar", with(other), 1, next)
           /\ \A b \in ChartBars :
                 Leaves("sar", with(b), 1, next) =>
                    Fill("sar", with(b), 1, next) \in b.low..b.high

------------------------------------------------------------------------------
\* Every selection of the page's four selectors.
Filters == [Selector -> {All}] \cup
    UNION {{[NoFilter EXCEPT ![s] = o, ![t] = p] :
               o \in Options(sample, s), p \in Options(sample, t) \cup {All}} :
           s \in Selector, t \in Selector}

\* parts, a sequence of sets, divides whole.
Divides(parts, whole) ==
    /\ whole = UNION {parts[k] : k \in DOMAIN parts}
    /\ \A k, l \in DOMAIN parts : k # l => parts[k] \cap parts[l] = {}

\* A selector's count is what choosing the option shows, next to the other choices.
CountsAreShown ==
    \A filter \in Filters, s \in Selector : \A o \in Options(sample, s) :
        OptionCount(sample, filter, s, o) = FilterRows(sample, [filter EXCEPT ![s] = o])

\* Every panel accounts for each row of the selection once.
PanelsDivide ==
    LET all == DOMAIN sample
        sum == Summarize(sample)  open == SummarizeOpen(sample)
        lanes == DeliverySplit(sample)  arms == AnchorCounts(sample)
        compared == CompareStrategies(sample)
        count(states) == Cardinality(InState(sample, states))
    IN /\ Divides(<<ReduceRows(sample), ReduceLaneRows(sample)>>, all)
       /\ all = UNION {sum[p].rows : p \in DOMAIN sum}
       /\ \A p \in DOMAIN sum :
             Divides(<<sum[p].open, sum[p].partial_window, sum[p].no_walk, sum[p].resolved>>, sum[p].rows)
       /\ Divides(<<open.unmarked, open.all_marked>>, open.open)
       /\ Divides([b \in Buckets |-> HoldCoverage(sample).counts[b]], all)
       /\ Divides(SplitRows(sample), all)
       /\ all = compared.paired \cup UNION {compared.excluded[r] : r \in DOMAIN compared.excluded}
       /\ Divides(<<arms.clean, arms.replayed, arms.suspect, arms.unverified>>, all)
       /\ UNION Runs(sample) = all
       /\ \A run, other \in Runs(sample) : run = other \/ run \cap other = {}
       /\ \A run \in Runs(sample) : \E c \in Campaigns(sample) : run \subseteq c
       /\ lanes.promoted + count({"dark", "unstamped"})
             + Cardinality({i \in all : sample[i].delivery \notin Named /\ ~Promoted(sample[i].delivery)})
             = Len(sample)
       /\ lanes.awaiting = count({"promoted_enqueued"})

\* Every closed row is on one page, the running ones on the first.
PagesDivide ==
    /\ Divides([n \in 1..TotalPages(sample) |-> Paginate(sample, n) \cap ClosedTrades(sample)],
               ClosedTrades(sample))
    /\ Divides([n \in 1..ProfitPages(sample) |-> ProfitPaginate(sample, n)], DOMAIN sample)

\* No row of the file disappears between the panels that count it: a state nobody has
\* named yet, a filter combined with another, a page boundary (dark_promotion.py:100-116,
\* dark_signals_live.py:944-1078).
NoRowIsLost == part = "table" => CountsAreShown /\ PanelsDivide /\ PagesDivide

\* The periods of a page: whichever window is chosen and whenever it is opened, a day
\* it shows is the whole of that day, and is not marked as cut
\* (track_record.py:404-449, 644-700).
Windows(moment) == {PresetRange(days, moment) : days \in Presets} \cup {AllTime}
                \cup {CustomRange(from, to) : from, to \in Begins["day"] \cup {Undated}}
DaysAreWhole ==
    part = "table" =>
        \A moment \in Moments : \A range \in Windows(moment) :
            LET chosen == TradeRows(sample, LAMBDA r : r.closed <= moment)
                shown == {i \in chosen : InRange(sample[i].closed, range)}
                days == BucketRows(sample, shown, "day", range, moment)
            IN \A day \in DOMAIN days :
                  /\ days[day].complete.partial # "window_cut"
                  /\ days[day].summary.rows =
                        {i \in chosen : sample[i].closed # Undated
                                        /\ BucketKey(sample[i].closed, "day") = day}

\* The peak is how many positions were really open at one instant: one that closes as
\* another opens makes room for it (track_record.py:531-583).
PeakIsFunded ==
    part = "table" =>
        LET spans == Spanned(sample)
            open(t) == {i \in spans : sample[i].opened <= t /\ t < sample[i].closed}
        IN PeakConcurrency(sample).peak =
              Max({0} \cup {Cardinality(open(sample[i].opened)) : i \in spans})
=============================================================================
