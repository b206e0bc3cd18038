------------------------------- MODULE HeldArm -------------------------------
(***************************************************************************)
(* app/data_sources/dark_exit_sim.py and sar_hold.py: the second arm the     *)
(* engine walks beside a row, held to the original stop or a horizon, and    *)
(* the exits priced from what it stamped.  A row is a function's value; a    *)
(* table is a function from row numbers to rows.  A mean, a median and a     *)
(* best of one column are all taken over the same rows, so a statistic is    *)
(* modelled by the set of rows it is taken over.                             *)
(***************************************************************************)
EXTENDS ExitSim

CONSTANT Fee    \* the round trip charged to every exit, in sixths of a percent

ASSUME HeldArmAssumption == Fee \in Nat

Decided == {"HOLD_SL", "HOLD_EXPIRED"}

\* from_row: geometry, or nothing.
HasGeometry(row) == row.side \in {"LONG", "SHORT"} /\ row.entry /\ row.stop

\* skip_reason
SkipReason(row) ==
    CASE row.hold = "" -> "no_hold_arm"
      [] row.hold = "HOLD_INSUFFICIENT" -> "hold_unmeasured"
      [] row.hold \in Decided /\ row.hold_result = None -> "hold_unmeasured"
      [] row.hold \in Decided /\ row.hold_result # None -> ""
      [] OTHER -> "hold_running"

DarkCatalog ==
    [key \in DOMAIN Catalog \cup {"hold"} |-> IF key = "hold" THEN <<>> ELSE Catalog[key]]
DarkStrategy(key) == IF key \in DOMAIN DarkCatalog THEN key ELSE "hold"

\* The fixed leg read off the peak that counts the stop bar's own wick.
HitByWick(row, leg) ==
    IF leg.kind = "fixed" THEN row.hold_mfe_incl # None /\ row.hold_mfe_incl >= leg.value
    ELSE row.hold_hit_tp >= leg.value

\* A leg filled if the engine saw its target strictly before the stop bar.
HoldHit(row, leg) ==
    IF leg.kind = "fixed" THEN row.hold_mfe # None /\ row.hold_mfe >= leg.value
    ELSE row.hold_hit_tp >= leg.value

\* One level without a price refuses the row: its share must not fall to the stop.
Unstamped(row, legs) ==
    \E i \in DOMAIN legs : legs[i].kind = "level" /\ legs[i].value \notin row.levels

\* _evaluate_be
HoldScratched(row) ==
    /\ row.hold_mfe # None /\ row.hold_mfe >= FixedPct
    /\ row.hold = "HOLD_SL" /\ row.hold_hit_tp < 1

Skipped(reason) == [value |-> None, skipped |-> reason]
Result(value) == [value |-> value, skipped |-> ""]

\* evaluate
PriceHeld(row, key) ==
    LET legs == DarkCatalog[key]
        filled == {i \in DOMAIN legs : HoldHit(row, legs[i])}
        tail == IF row.hold = "HOLD_SL" THEN Stop ELSE row.hold_result
    IN CASE SkipReason(row) # "" -> Skipped(SkipReason(row))
         [] SkipReason(row) = "" /\ key = "hold" -> Result(Whole * row.hold_result)
         [] SkipReason(row) = "" /\ key = "be_tp1" /\ HoldScratched(row) -> Result(0)
         [] SkipReason(row) = "" /\ key # "hold" /\ ~(key = "be_tp1" /\ HoldScratched(row)) ->
               IF Unstamped(row, legs) THEN Skipped("level_not_stamped")
               ELSE Result(Over([i \in filled |-> legs[i].share * Aim(legs[i])])
                           + (Whole - Share(legs, filled)) * tail)

\* summarize: wins and losses after the fee; what was not scored, by its reason.
Verdicts(rows, which, key) == [i \in which |-> PriceHeld(rows[i], key)]
ScoredIn(verdicts) == {i \in DOMAIN verdicts : verdicts[i].value # None}
HeldSummary(verdicts) ==
    LET net(i) == verdicts[i].value - Fee
    IN [scored |-> ScoredIn(verdicts),
        skips |-> [reason \in {verdicts[i].skipped : i \in DOMAIN verdicts} \ {""} |->
                      {i \in DOMAIN verdicts : verdicts[i].skipped = reason}],
        wins |-> {i \in ScoredIn(verdicts) : net(i) > 0},
        losses |-> {i \in ScoredIn(verdicts) : net(i) < 0},
        total |-> MapThenSumSet(net, ScoredIn(verdicts))]

\* compare_strategies: who is compared is settled before anything is priced.
Excluded(row) ==
    IF ~HasGeometry(row) THEN "no_geometry"
    ELSE IF SkipReason(row) # "" THEN SkipReason(row)
    ELSE IF row.pnl = None THEN "row_undecided" ELSE ""

Paired(rows) == {i \in DOMAIN rows : Excluded(rows[i]) = ""}

CompareStrategies(rows) ==
    LET own == [i \in Paired(rows) |-> Result(Whole * rows[i].pnl)]
        base == HeldSummary(own)
    IN [paired |-> Paired(rows),
        excluded |-> [reason \in {Excluded(rows[i]) : i \in DOMAIN rows} \ {""} |->
                         {i \in DOMAIN rows : Excluded(rows[i]) = reason}],
        own |-> base,
        strategies |-> [key \in DOMAIN DarkCatalog |->
            LET stat == HeldSummary(Verdicts(rows, Paired(rows), key))
            IN [stat |-> stat,
                edge |-> IF stat.scored = {} \/ base.scored = {} THEN None
                         ELSE stat.total - base.total]]]

\* summarize_max_profit, per path.
MaxProfit(rows) ==
    LET decided(path) == {i \in DOMAIN rows : rows[i].path = path /\ rows[i].hold \in Decided}
        carrying(path, field) == {i \in decided(path) : rows[i][field] # None}
    IN [path \in {rows[i].path : i \in {j \in DOMAIN rows : rows[j].hold \in Decided}} |->
           [rows |-> decided(path),
            stopped |-> {i \in decided(path) : rows[i].hold = "HOLD_SL"},
            horizon |-> {i \in decided(path) : rows[i].hold = "HOLD_EXPIRED"},
            peaks |-> carrying(path, "hold_mfe"),
            peaks_incl |-> carrying(path, "hold_mfe_incl"),
            give_back |-> carrying(path, "hold_mfe") \cap carrying(path, "pnl")]]

\* _bucket; a bucket per thing the reader would do next.
Bucket(row) ==
    CASE row.hold = "" -> "no_hold_arm"
      [] row.hold \in Decided -> "decided"
      [] row.hold = "HOLD_INSUFFICIENT" -> "hold_unmeasured"
      [] OTHER -> "hold_running"
Buckets == {"decided", "hold_running", "hold_unmeasured", "no_hold_arm"}

\* _own_exit: the column every row has; a flat row is not in the rate.
OwnExit(rows, which) ==
    LET scored == {i \in which : rows[i].pnl # None}
    IN [rows |-> which, scored |-> scored,
        wins |-> {i \in scored : rows[i].pnl > 0},
        losses |-> {i \in scored : rows[i].pnl < 0},
        flat |-> {i \in scored : rows[i].pnl = 0}]

\* hold_coverage
HoldCoverage(rows) ==
    LET in(bucket, which) == {i \in which : Bucket(rows[i]) = bucket}
        of(path) == {i \in DOMAIN rows : rows[i].path = path}
    IN [counts |-> [b \in Buckets |-> in(b, DOMAIN rows)],
        by_path |-> [path \in {rows[i].path : i \in DOMAIN rows} |->
                        [b \in Buckets |-> in(b, of(path))]],
        own_exit |-> [b \in Buckets |-> OwnExit(rows, in(b, DOMAIN rows))]]

------------------------------------------------------------------------------
\* sar_hold: split_rows.  The SAR lane's rows say how their held arm ended.
SplitOf(row) ==
    CASE row.hold = "" -> "pre_arm"
      [] row.hold = "HOLD_SL" -> "resolved"
      [] row.hold = "HOLD_EXPIRED" -> "horizon"
      [] row.hold = "HOLD_INSUFFICIENT" -> "insufficient"
      [] OTHER -> "open"
Splits == {"resolved", "horizon", "insufficient", "open", "pre_arm"}
SplitRows(rows) == [s \in Splits |-> {i \in DOMAIN rows : SplitOf(rows[i]) = s}]

\* reduce_peak, with _coverage: the rows left out are graded on the column every
\* row has.
ReducePeak(rows) ==
    LET split == SplitRows(rows)
        peaks(which) == {i \in which : rows[i].hold_mfe # None}
        graded(which) == {i \in which : rows[i].pnl # None}
        scored == split["resolved"] \cup split["horizon"]
    IN [resolved |-> peaks(split["resolved"]), horizon |-> peaks(split["horizon"]),
        scored |-> scored, excluded |-> DOMAIN rows \ scored,
        scored_pnl |-> graded(scored), excluded_pnl |-> graded(DOMAIN rows \ scored)]

\* reduce_strategies: the rules the engine stamped, each against the row's own exit
\* on the rows that have both.
ReduceRules(rows) ==
    [rule \in UNION {DOMAIN rows[i].rules : i \in DOMAIN rows} |->
        LET stamped == {i \in DOMAIN rows : rule \in DOMAIN rows[i].rules}
            st(i) == rows[i].rules[rule]
            priced == {i \in stamped : st(i).status # "OPEN" /\ st(i).pnl # None}
            paired == {i \in priced : rows[i].pnl # None}
        IN [stamped |-> stamped,
            still_open |-> {i \in stamped : st(i).status = "OPEN"},
            priced |-> priced, paired |-> paired,
            armed |-> {i \in priced : st(i).armed},
            wins |-> {i \in priced : Whole * st(i).pnl - Fee > 0},
            edge |-> MapThenSumSet(LAMBDA i : Whole * (st(i).pnl - rows[i].pnl), paired)]]
=============================================================================
