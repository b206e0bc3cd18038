------------------------------- MODULE Profit --------------------------------
(***************************************************************************)
(* app/routes/profit.py: every signal priced under one exit strategy beside  *)
(* what it really made and what it made held to its stop.  Ages are in days; *)
(* prices are signed in the trade's favour.                                  *)
(***************************************************************************)
EXTENDS ExitSim, Naturals

CONSTANTS
    ProfitFee,     \* the round trip, charged to closed rows, in sixths of a percent
    ProfitPage,    \* _PAGE_SIZE
    Runner         \* _MFE_RUNNER_THRESHOLD

ASSUME ProfitAssumption == ProfitPage \in Nat \ {0} /\ ProfitFee \in Nat

ProfitRows(rows, P(_)) == {i \in DOMAIN rows : P(rows[i])}

\* _tp_reach: the highest target the peak reached, else what the engine recorded.
TpReach(peak, hit_tp) ==
    LET reached == {k \in 1..3 : peak # None /\ peak >= Tp(k)}
    IN IF reached # {} THEN Max(reached) ELSE IF hit_tp > 3 THEN 3 ELSE hit_tp

\* _row: giveback only for a trade that really ended.
RealIsActive(entry) == entry.status \in {"", "ACTIVE"}
Giveback(entry, free) ==
    IF RealIsActive(entry) \/ free.mfe = None \/ entry.pnl = None THEN None
    ELSE free.mfe - entry.pnl

\* _from_perf_record: a row of the performance file carries no targets, so no
\* strategy that takes profit at one can be read off it.
FromPerfRecord(rec) == [rec EXCEPT !.levels = {}]

\* _build_rows: live rows from the engine, or the performance file cut by age; a
\* record without a time is in every window.
InWindowOf(rec, window) ==
    \/ window.days = None /\ window.from = None
    \/ rec.age = None
    \/ /\ window.days = None \/ rec.age <= window.days
       /\ window.from = None \/ (window.to <= rec.age /\ rec.age <= window.from)
BuildRows(items, view, window, direction) ==
    {i \in DOMAIN items :
        /\ items[i].free # None     \* compute_many answered for it
        /\ window.live \/ InWindowOf(items[i], window)
        /\ view # "active" \/ items[i].active
        /\ view # "closed" \/ ~items[i].active
        /\ direction = "all" \/ items[i].side = direction}

\* What a row made under the strategy, after the fee once it is closed.
StrategyNet(row) ==
    IF row.strategy = None THEN None
    ELSE IF row.strategy_active THEN row.strategy ELSE row.strategy - ProfitFee

\* _summary
ProfitSummary(rows) ==
    [active |-> ProfitRows(rows, LAMBDA r : r.active),
     closed |-> ProfitRows(rows, LAMBDA r : ~r.active),
     degraded |-> ProfitRows(rows, LAMBDA r : r.degraded),
     givebacks |-> ProfitRows(rows, LAMBDA r : r.giveback # None),
     tp1_miss |-> ProfitRows(rows, LAMBDA r :
        r.status = "SL_HIT" /\ TpReach(r.peak, r.hit_tp) > 0)]

\* _group_giveback and _aggregates
GroupGiveback(rows, field) ==
    LET which == ProfitRows(rows, LAMBDA r : ~RealIsActive(r) /\ r.giveback # None)
    IN [v \in {rows[i][field] : i \in which} |->
          [rows |-> {i \in which : rows[i][field] = v},
           total |-> MapThenSumSet(LAMBDA i : rows[i].giveback, {i \in which : rows[i][field] = v})]]
ProfitAggregates(rows) ==
    [by_exit |-> GroupGiveback(rows, "status"), by_setup |-> GroupGiveback(rows, "setup"),
     by_regime |-> GroupGiveback(rows, "regime")]

\* _stat_block over the rows value is a function of: a hair above zero is no win.
StatBlock(value) ==
    LET scored == {i \in DOMAIN value : value[i] # None}
    IN [scored |-> scored, wins |-> {i \in scored : value[i] > 0},
        total |-> IF scored = {} THEN None ELSE MapThenSumSet(LAMBDA i : value[i], scored)]
Edge(strat, real) ==
    IF strat.total = None \/ real.total = None THEN None ELSE strat.total - real.total

\* _strategy_summary, over the closed rows: each side over the rows it can price.
StrategyOver(rows, which) ==
    LET closed == {i \in which : ~rows[i].active}
        strat == StatBlock([i \in closed |-> StrategyNet(rows[i])])
        real == StatBlock([i \in closed |-> IF rows[i].pnl = None THEN None
                                            ELSE Whole * rows[i].pnl - ProfitFee])
    IN [strategy |-> strat, real |-> real, edge |-> Edge(strat, real)]
StrategySummary(rows) == StrategyOver(rows, DOMAIN rows)

\* _conf_band: a fraction is a percentage.
ConfBand(confidence) ==
    LET c == IF confidence <= 1 THEN confidence * 100 ELSE confidence
    IN IF confidence = None \/ c < 0 THEN "unknown"
       ELSE IF c < 65 THEN "< 65" ELSE IF c < 70 THEN "65-70" ELSE IF c < 75 THEN "70-75"
       ELSE IF c < 80 THEN "75-80" ELSE "80+"

\* _group_by, key[i] the group of row i, and the three breakdowns.
GroupBy(rows, key) ==
    LET closed == ProfitRows(rows, LAMBDA r : ~r.active)
    IN [v \in {key[i] : i \in closed} |-> StrategyOver(rows, {i \in closed : key[i] = v})]
BreakdownScoreband(rows) == GroupBy(rows, [i \in DOMAIN rows |-> ConfBand(rows[i].confidence)])
BreakdownPath(rows) == GroupBy(rows, [i \in DOMAIN rows |-> rows[i].setup])
BreakdownRegime(rows) == GroupBy(rows, [i \in DOMAIN rows |-> rows[i].regime])

\* _combos: the three together, with enough really closed.
Combos(rows, pick, least) ==
    LET cell(r) == <<ConfBand(r.confidence), r.setup, r.regime>>
        kept == ProfitRows(rows, LAMBDA r :
                   ~r.active /\ \A k \in 1..3 : pick[k] = "" \/ pick[k] = cell(r)[k])
        groups == [c \in {cell(rows[i]) : i \in kept} |->
                      StrategyOver(rows, {i \in kept : cell(rows[i]) = c})]
    IN [c \in {d \in DOMAIN groups :
                  Cardinality(groups[d].real.scored) >= Max({1, least})} |-> groups[c]]

\* _raw_edge_agg: peak against what was realised, where both are known.
RawEdgeAgg(rows, key) ==
    LET both == ProfitRows(rows, LAMBDA r : ~r.active /\ r.mfe # None /\ r.pnl # None)
        peak(i) == Max({0, rows[i].mfe})
    IN [v \in {key[i] : i \in both} \ {"unknown"} |->
          LET of == {i \in both : key[i] = v}
          IN [rows |-> of, runners |-> {i \in of : peak(i) >= Runner},
              giveback |-> MapThenSumSet(LAMBDA i : Max({0, peak(i) - rows[i].pnl}), of)]]

\* _paginate: active rows lead the first page only.
ProfitPages(rows) ==
    LET n == Cardinality(ProfitRows(rows, LAMBDA r : ~r.active))
    IN Max({1, (n + ProfitPage - 1) \div ProfitPage})
ProfitPaginate(rows, asked) ==
    LET closed == ProfitRows(rows, LAMBDA r : ~r.active)
        page == Max({1, Min({asked, ProfitPages(rows)})})
        here == {i \in closed : Cardinality({j \in closed : j < i}) \div ProfitPage = page - 1}
    IN IF page = 1 THEN here \cup (DOMAIN rows \ closed) ELSE here
=============================================================================
