----------------------------- MODULE TrackRecord -----------------------------
(***************************************************************************)
(* app/routes/track_record.py and data_sources/entry_fidelity.py: the book   *)
(* of closed trades, cut by a window, grouped by calendar periods and priced *)
(* in money.  Time is in ticks; a period is where it begins.  A row's price  *)
(* fields are signed in the trade's favour and counted from its entry.       *)
(***************************************************************************)
EXTENDS Integers, FiniteSets, Sequences, FiniteSetsExt, SequencesExt

CONSTANTS
    Begins,      \* per granularity, the instants at which a period begins
    DayTicks,    \* ticks in a day
    Presets,     \* days of the preset windows
    TradeFee,    \* DEFAULT_FEE_PCT
    PerTrade     \* PER_TRADE_LIMIT

Granularity == {"day", "week", "month"}

\* Every period begins at a midnight, the first of each is the first tick, and a day
\* begins where the one before it ends.
ASSUME CalendarAssumption ==
    /\ DayTicks \in Nat \ {0} /\ TradeFee \in Nat /\ PerTrade \in Nat /\ Presets \subseteq Nat
    /\ Begins["week"] \subseteq Begins["day"] /\ Begins["month"] \subseteq Begins["day"]
    /\ \A g \in Granularity : 0 \in Begins[g] /\ Begins[g] \subseteq Nat
    /\ \A day, later \in Begins["day"] :
          day < later => day + DayTicks \in Begins["day"] /\ day + DayTicks <= later

Undated == -1
Blank0 == -99    \* a figure the record does not carry

TradeRows(table, P(_)) == {i \in DOMAIN table : P(table[i])}

\* _parse_ts of several stamps: the first that can be read.
FirstDated(stamps) ==
    LET dated == {i \in DOMAIN stamps : stamps[i] # Undated}
    IN IF dated = {} THEN Undated ELSE stamps[Min(dated)]

\* _close_time, _open_time
CloseTime(rec) == FirstDated(<<rec.terminal, rec.stamp, rec.create>>)
OpenTime(rec) == FirstDated(<<rec.dispatch, rec.create>>)

\* geometry_stamp_reason
GeometryStamp(rec) ==
    IF rec.sl_distance > 0 THEN ""
    ELSE IF rec.sl_distance = Blank0 THEN "awaiting_engine_stamp" ELSE "no_geometry"

------------------------------------------------------------------------------
\* _bucket_key and bucket_span: the period an instant is in, and where it ends.
BucketKey(when, g) == Max({b \in Begins[g] : b <= when})
BucketEnd(key, g) == Min({b \in Begins[g] : b > key})

\* A window that starts a number of days before this moment.
FromThisMoment(days, now) == now - days * DayTicks

\* resolve_range: presets start at a midnight.
WindowStart(days, now) ==
    IF now < days * DayTicks THEN 0 ELSE BucketKey(now - days * DayTicks, "day")

\* A window: a preset, everything, or whole custom days with either end open.
PresetRange(days, now) == [start |-> WindowStart(days, now), end |-> Undated]
AllTime == [start |-> Undated, end |-> Undated]
CustomRange(from, to) ==
    [start |-> from, end |-> IF to = Undated THEN Undated ELSE to + DayTicks]

\* filter_rows: a row that closed at no known time is in no window.
InRange(when, range) ==
    /\ range.start = Undated \/ (when # Undated /\ when >= range.start)
    /\ range.end = Undated \/ (when # Undated /\ when < range.end)
FilterTrades(table, range, choice) ==
    TradeRows(table, LAMBDA r :
        /\ InRange(r.closed, range)
        /\ \A s \in DOMAIN choice : choice[s] = "" \/ r[s] = choice[s])

------------------------------------------------------------------------------
\* An open sorted before a close of the same instant.
OpensFirst(a, b) == a.at < b.at \/ (a.at = b.at /\ a.step > b.step)

\* peak_concurrency: the sweep's order; a close frees its place for an open of the
\* same instant.
ClosesFirst(a, b) == a.at < b.at \/ (a.at = b.at /\ a.step < b.step)

Spanned(table) ==
    TradeRows(table, LAMBDA r : r.opened # Undated /\ r.closed # Undated /\ r.opened <= r.closed)

PeakConcurrency(table) ==
    LET spans == Spanned(table)
        open(i) == [at |-> table[i].opened, step |-> 1, row |-> i]
        close(i) == [at |-> table[i].closed, step |-> -1, row |-> i]
        swept(f, e) == ClosesFirst(f, e) \/ (f.at = e.at /\ f.step = e.step /\ f.row <= e.row)
        live(e) == Cardinality({i \in spans : swept(open(i), e)})
                   - Cardinality({i \in spans : swept(close(i), e)})
        undated == TradeRows(table, LAMBDA r : r.opened = Undated \/ r.closed = Undated)
    IN [peak |-> Max({0} \cup {live(open(i)) : i \in spans} \cup {live(close(i)) : i \in spans}),
        undated |-> undated,
        bad_window |-> DOMAIN table \ (Spanned(table) \cup undated)]

------------------------------------------------------------------------------
\* summarize: every figure is over the rows that carry a result.
Result0(table, which) == {i \in which : table[i].pnl # Blank0}
NetPct(row) == row.pnl - TradeFee
SummarizeTrades(table, which) ==
    [rows |-> which, priced |-> Result0(table, which),
     wins |-> {i \in Result0(table, which) : NetPct(table[i]) > 0},
     losses |-> {i \in Result0(table, which) : NetPct(table[i]) <= 0},
     net |-> MapThenSumSet(LAMBDA i : NetPct(table[i]), Result0(table, which)),
     awaiting |-> {i \in which : GeometryStamp(table[i]) = "awaiting_engine_stamp"},
     no_geometry |-> {i \in which : GeometryStamp(table[i]) = "no_geometry"}]

\* bucket_completeness: less than its label claims, and why.
Completeness(key, g, range, now) ==
    LET end == BucketEnd(key, g)
        from == IF range.start = Undated \/ range.start < key THEN key ELSE range.start
        to == Min({end, now} \cup ({range.end} \ {Undated}))
    IN [partial |-> IF (range.start # Undated /\ range.start > key)
                        \/ (range.end # Undated /\ range.end < end) THEN "window_cut"
                    ELSE IF key <= now /\ now < end THEN "in_progress" ELSE "",
        from |-> from, covered |-> IF to < from THEN 0 ELSE to - from]

\* bucket_rows: a summary per period of the rows selected, with the running total.
BucketRows(table, which, g, range, now) ==
    LET dated == {i \in which : table[i].closed # Undated}
        key(i) == BucketKey(table[i].closed, g)
        of(k) == {i \in dated : key(i) = k}
        upto(k) == {i \in dated : key(i) <= k}
    IN [k \in {key(i) : i \in dated} |->
          [summary |-> SummarizeTrades(table, of(k)),
           complete |-> Completeness(k, g, range, now),
           cum_net |-> IF Result0(table, upto(k)) = {} THEN Blank0
                       ELSE SummarizeTrades(table, upto(k)).net]]

\* sort_rows: a row without the value comes last in either order; a text stands for
\* its rank.
SortTrades(table, field, ascending) ==
    LET missing(i) == table[i][field] \in {Blank0, Undated}
        first(i, j) ==
            IF missing(i) # missing(j) THEN missing(j)
            ELSE IF missing(i) \/ table[i][field] = table[j][field] THEN i < j
            ELSE IF ascending THEN table[i][field] < table[j][field]
            ELSE table[i][field] > table[j][field]
    IN SetToSortSeq(DOMAIN table, first)

\* The page: one selection, its summary, its periods and the rows shown.
TrackRecordPage(table, range, choice, g, now) ==
    LET rows == FilterTrades(table, range, choice)
        scoped == FilterTrades(table, range, [choice EXCEPT !["regime"] = ""])
    IN [summary |-> SummarizeTrades(table, rows),
        buckets |-> BucketRows(table, rows, g, range, now),
        concurrency |-> PeakConcurrency([i \in rows |-> table[i]]),
        shown |-> {i \in rows : Cardinality({j \in rows : j < i}) < PerTrade},
        regime_counts |-> [r \in {table[i].regime : i \in DOMAIN table} |->
            {i \in scoped : table[i].regime = r}]]

------------------------------------------------------------------------------
\* entry_fidelity.py.  rebase_record: what a copier who entered at the first price
\* seen made of it, or why that cannot be said.
RebaseRefusal(rec) ==
    IF ~rec.entry THEN "no_entry"
    ELSE IF rec.observed = Blank0 THEN "no_observation"
    ELSE IF rec.observed_stale THEN "stale_observation" ELSE ""

RebasedPnl(rec) ==
    IF RebaseRefusal(rec) # "" \/ rec.pnl = Blank0 THEN Blank0 ELSE rec.pnl - rec.observed

\* be_at_fill_pnl_pct: a breakeven exit is at the fill, wherever that was.
BreakevenAtFill(rec) ==
    IF rec.outcome = "" \/ RebasedPnl(rec) = Blank0 THEN Blank0
    ELSE IF rec.outcome = "BREAKEVEN_EXIT" THEN rec.pnl ELSE RebasedPnl(rec)

\* summarise and split_by
Fidelity(table, which) ==
    LET priced == {i \in which : RebaseRefusal(table[i]) = ""}
    IN [priced |-> priced,
        refusals |-> [why \in {RebaseRefusal(table[i]) : i \in which} \ {""} |->
                         {i \in which : RebaseRefusal(table[i]) = why}],
        adverse |-> {i \in priced : table[i].observed > 0},
        book |-> Result0(table, priced),
        real |-> {i \in priced : RebasedPnl(table[i]) # Blank0},
        at_fill |-> {i \in priced : BreakevenAtFill(table[i]) # Blank0}]
FidelityBy(table, field) ==
    [v \in {table[i][field] : i \in DOMAIN table} |->
        Fidelity(table, TradeRows(table, LAMBDA r : r[field] = v))]

\* mfe_floor: a peak of zero that was really below the entry.
MfeFloor(table) ==
    LET zero == TradeRows(table, LAMBDA r : r.mfe = 0)
        stamped == TradeRows(table, LAMBDA r : r.peak # Blank0)
    IN [zero |-> zero, with_peak |-> stamped,
        floor |-> {i \in zero \cap stamped : table[i].peak < 0}]
=============================================================================
