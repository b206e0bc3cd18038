----------------------------- MODULE DarkLedger ------------------------------
(***************************************************************************)
(* app/routes/dark_signals_live.py and app/routes/dark_signals.py: the pages *)
(* over the rows the engine's dark lane writes, and over the trailing-stop   *)
(* replays.  Every panel is a reduction of one selection of rows; a table is *)
(* a function from row numbers to rows, newest first.                        *)
(***************************************************************************)
EXTENDS HeldArm, DarkPromotion

CONSTANTS
    RowStale,      \* ROW_STALE_SEC, and the grace before a first resolve
    FileStale,     \* STALE_SEC
    RunGap,        \* RUN_GAP_S
    PageSize       \* _PAGE_SIZE

ASSUME DarkLedgerAssumption ==
    {RowStale, FileStale} \subseteq Nat /\ {RunGap, PageSize} \subseteq Nat \ {0}

Rows(table, P(_)) == {i \in DOMAIN table : P(table[i])}
Keep(table, which) == [i \in which |-> table[i]]

\* reduce_rows and reduce_lane_rows: one file, two populations.
LaneGate == "price_action_lane"
ReduceRows(file) == Rows(file, LAMBDA r : r.dark_gate # LaneGate)
ReduceLaneRows(file) == Rows(file, LAMBDA r : r.dark_gate = LaneGate)

\* flatten_entry_features: a column per name the engine wrote, and the reason where
\* a row carries none.
EntryFeatures(table, which) == UNION {table[i].features : i \in which}

------------------------------------------------------------------------------
\* filter_rows: an empty selector keeps everything; a gate is matched by its prefix.
All == ""
Selector == {"setup", "gate", "status", "delivery"}
NoFilter == [s \in Selector |-> All]

Starts(gate, prefix) == gate = prefix \/ (prefix = "floor" /\ gate = "floor_long")

Picks(row, selector, option) ==
    CASE selector = "setup" -> row.path = option
      [] selector = "gate" -> Starts(row.dark_gate, option)
      [] selector = "status" -> row.status = option
      [] OTHER -> row.delivery = option

FilterRows(table, filter) ==
    Rows(table, LAMBDA r : \A s \in Selector : filter[s] = All \/ Picks(r, s, filter[s]))

Value(row, selector) ==
    CASE selector = "setup" -> row.path [] selector = "gate" -> row.dark_gate
      [] selector = "status" -> row.status [] OTHER -> row.delivery

\* What a selector offers: the values the rows carry, none for a row without one.
Options(table, selector) ==
    {Value(table[i], selector) : i \in DOMAIN table}
        \ (IF selector = "delivery" THEN {} ELSE {All})

\* A count taken with the selector's own choice still applied.
ScopedByItself(table, filter, selector) == FilterRows(table, filter)

\* What a selector's options are counted over: every filter but its own.
Scoped(table, filter, selector) == FilterRows(table, [filter EXCEPT ![selector] = All])

OptionCount(table, filter, selector, option) ==
    {i \in Scoped(table, filter, selector) : Picks(table[i], selector, option)}

------------------------------------------------------------------------------
\* mark_freshness: is the engine still advancing the row?  Times are its stamps,
\* seen from now; None where it stamped nothing.
StillMeasured(row) == row.status = "OPEN" \/ row.hold = "HOLD_OPEN"

Freshness(row) ==
    IF ~StillMeasured(row) THEN ""
    ELSE IF row.resolved = None
    THEN IF row.misses \/ (row.stamped /\ row.age # None /\ row.age > RowStale)
         THEN "stalled" ELSE "unverified"
    ELSE IF row.misses \/ row.stalled \/ row.resolved > RowStale THEN "stalled"
    ELSE IF row.undated THEN "unverified" ELSE "current"

\* mark_live_pnl: an open row's price, what it is worth and which level it has
\* passed that the row does not know of; a row without a price is not marked.
Marked(row) == row.status = "OPEN" /\ row.price # None /\ row.entry
LevelCrossed(row) ==
    CASE ~Marked(row) -> ""
      [] Marked(row) /\ row.stop /\ row.price < Stop -> "SL"
      [] Marked(row) /\ ~(row.stop /\ row.price < Stop) /\ 1 \in row.levels /\ row.price > Tp(1) -> "TP1"
      [] OTHER -> ""

\* summarize_open: everything marked, and the part of it the engine still measures.
SummarizeOpen(table) ==
    LET open == Rows(table, LAMBDA r : r.status = "OPEN")
        graded(verdict) == {i \in open : Freshness(table[i]) = verdict}
        marked == {i \in open : Marked(table[i])}
    IN [open |-> open, unmarked |-> open \ marked,
        stalled |-> graded("stalled"), unverified |-> graded("unverified"),
        crossed |-> {i \in open : LevelCrossed(table[i]) # ""},
        all_marked |-> marked, still_measured |-> marked \cap graded("current"),
        up |-> {i \in marked : table[i].price > 0}]

\* summarize: per path; a row nobody scored is in no rate, and its two causes are
\* counted apart.
Summarize(table) ==
    [path \in {table[i].path : i \in DOMAIN table} |->
        LET of == Rows(table, LAMBDA r : r.path = path)
            with(status) == {i \in of : table[i].status = status}
            resolved == of \ (with("OPEN") \cup with("INSUFFICIENT"))
        IN [rows |-> of, open |-> with("OPEN"), tp1 |-> with("CLOSED_TP1"),
            sl |-> with("CLOSED_SL"), expired |-> with("EXPIRED"),
            partial_window |-> {i \in with("INSUFFICIENT") : table[i].partial},
            no_walk |-> {i \in with("INSUFFICIENT") : ~table[i].partial},
            resolved |-> resolved,
            scored |-> {i \in resolved : table[i].pnl # None},
            decided |-> with("CLOSED_TP1") \cup with("CLOSED_SL")]]

------------------------------------------------------------------------------
\* concentration: two groupings of the same rows, by symbol and side, and by
\* stamps that follow one another closely.
Key(row) == <<row.symbol, row.side>>
Campaign(table, i) == Rows(table, LAMBDA r : Key(r) = Key(table[i]))
Campaigns(table) == {Campaign(table, i) : i \in DOMAIN table}

\* No stamp on the way from one to another is the last for as long as RunGap.
Follows(stamps, from, to) ==
    \A s \in stamps : from <= s /\ s < to => \E t \in stamps : s < t /\ t - s < RunGap

\* A row without a stamp is a run of its own.
RunOf(table, i) ==
    LET dated == {j \in Campaign(table, i) : table[j].emitted # None}
        stamps == {table[j].emitted : j \in dated}
        at(j) == table[j].emitted
    IN {i} \cup {j \in dated : i \in dated /\ Follows(stamps, at(i), at(j))
                                          /\ Follows(stamps, at(j), at(i))}
Runs(table) == {RunOf(table, i) : i \in DOMAIN table}

NetOf(table, which) ==
    LET scored == {i \in which : table[i].pnl # None}
    IN IF scored = {} THEN None
       ELSE MapThenSumSet(LAMBDA i : Whole * table[i].pnl - Fee, scored)

\* _group_stats: the worst group, and how few of the worst ones turn a losing book.
GroupStats(table, groups) ==
    LET book == NetOf(table, DOMAIN table)
        scored == {g \in groups : NetOf(table, g) # None}
        without(some) == book - MapThenSumSet(LAMBDA g : NetOf(table, g), some)
        flipping == {some \in SUBSET scored : without(some) >= 0}
    IN [book |-> book,
        worst |-> IF scored = {} THEN {}
                  ELSE CHOOSE g \in scored : \A h \in scored : NetOf(table, g) <= NetOf(table, h),
        multi |-> UNION {g \in groups : Cardinality(g) > 1},
        to_flip |-> IF book = None \/ book >= 0 \/ flipping = {} THEN None
                    ELSE Min({Cardinality(some) : some \in flipping})]

Concentration(table) ==
    [runs |-> GroupStats(table, Runs(table)), campaigns |-> GroupStats(table, Campaigns(table))]

------------------------------------------------------------------------------
\* reduce_arms and attach_arms: a row's SAR arms, and the one that saw most bars.
NoArm == [status |-> "", bars |-> 0, r |-> None]
BestArm(arms) ==
    IF arms = {} THEN NoArm ELSE CHOOSE a \in arms : \A b \in arms : b.bars <= a.bars

\* summarize_sar: compared only where both outcomes are decided.
SummarizeSar(table) ==
    LET arm(i) == BestArm(table[i].arms)
        row_scored(i) == table[i].status \notin {"", "OPEN", "INSUFFICIENT"}
        arm_scored(i) == arm(i).status \notin {"", "RUNNING", "INSUFFICIENT"}
        paired == {i \in DOMAIN table : row_scored(i) /\ arm_scored(i)}
    IN [paired |-> paired,
        row_only |-> {i \in DOMAIN table : row_scored(i) /\ ~arm_scored(i) /\ arm(i) # NoArm},
        arm_only |-> {i \in DOMAIN table : ~row_scored(i) /\ arm_scored(i)},
        wins |-> {i \in paired : table[i].status = "CLOSED_TP1"},
        arm_wins |-> {i \in paired : arm(i).r # None /\ arm(i).r > 0}]

\* reduce_state: is this page live?
LedgerState(exists, age, table) ==
    CASE ~exists -> "unavailable"
      [] exists /\ age # None /\ age > FileStale -> "stale"
      [] exists /\ ~(age # None /\ age > FileStale) /\ DOMAIN table = {} -> "empty"
      [] OTHER -> "live"

\* attach_strategy: the chosen exit, in a column of its own, or the reason.
StrategyCell(row, key) ==
    IF ~HasGeometry(row) THEN Skipped("no_geometry") ELSE PriceHeld(row, DarkStrategy(key))

\* The page: every panel over the one selection; the table is cut last.
DarkSignalsLive(file, filter) ==
    LET rows == Keep(file, ReduceRows(file))
        selected == Keep(rows, FilterRows(rows, filter))
    IN [summary |-> Summarize(selected), live |-> SummarizeOpen(selected),
        sar |-> SummarizeSar(selected), exits |-> CompareStrategies(selected),
        max_profit |-> MaxProfit(selected), coverage |-> HoldCoverage(selected),
        concentration |-> Concentration(selected), lanes |-> PromotedVsDark(selected),
        evidence |-> [dim \in {"gate", "regime", "session", "side"} |-> Evidence(selected, dim)],
        counts |-> [s \in Selector |->
            [o \in Options(rows, s) |-> OptionCount(rows, filter, s, o)]]]

------------------------------------------------------------------------------
\* dark_signals.py: _fetch_signals.  A record's time is its end's, or its start's;
\* one without a time is in every window.
InWindow(record, window) == record.age = None \/ record.age <= window

\* A signal counts as running while its status says so, or says nothing.
IsRunning(row) == row.state \in {"ACTIVE", ""}

\* _method_stat and _real_stat: the rows a method could replay; the rows that closed.
MethodStat(table, which, method) ==
    LET scored == {i \in which : table[i].trail[method] # None}
    IN [scored |-> scored, wins |-> {i \in scored : table[i].trail[method] > 0},
        losses |-> {i \in scored : table[i].trail[method] < 0}]
RealStat(table, which) == {i \in which : table[i].pnl # None}

\* _bake_off over the closed rows, and _grouped.
Methods == {"atr", "supertrend", "sar"}
ClosedTrades(table) == Rows(table, LAMBDA r : ~IsRunning(r))
BakeOff(table) == [m \in Methods |-> MethodStat(table, ClosedTrades(table), m)]
Grouped(table) ==
    [g \in {table[i].regime : i \in ClosedTrades(table)} |->
        [m \in Methods |->
            MethodStat(table, {i \in ClosedTrades(table) : table[i].regime = g}, m)]]

\* _paginate: the running ones lead the first page; a page past the end is the last.
TotalPages(table) ==
    LET n == Cardinality(ClosedTrades(table))
    IN IF n = 0 THEN 1 ELSE (n + PageSize - 1) \div PageSize
Paginate(table, asked) ==
    LET page == Min({asked, TotalPages(table)})
        before(i) == Cardinality({j \in ClosedTrades(table) : j < i})
        here == {i \in ClosedTrades(table) : before(i) \div PageSize = page - 1}
    IN IF page = 1 THEN here \cup (DOMAIN table \ ClosedTrades(table)) ELSE here
=============================================================================
