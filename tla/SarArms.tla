------------------------------- MODULE SarArms -------------------------------
(***************************************************************************)
(* app/routes/sar_live.py and app/routes/sar_exit.py: the trailing-stop arms *)
(* the engine steps beside open signals, and the ledger in which it stamps   *)
(* every candidate twice, once per exit.  Prices, stops and returns are      *)
(* signed in the trade's favour and counted from its entry.                  *)
(***************************************************************************)
EXTENDS HeldArm, Sequences, SequencesExt

CONSTANTS
    StallBars,     \* STALL_BARS
    AnchorSlack,   \* ANCHOR_BAR_SLACK
    StallAge,      \* _STALL_SEC
    SarWindow,     \* SAR_WINDOW_SEC
    SarMinSample,  \* EDGE_MIN_SAMPLES
    PairLimit      \* reduce_sar_pairs' limit

ASSUME SarAssumption ==
    {StallBars, AnchorSlack, StallAge, SarWindow, SarMinSample, PairLimit} \subseteq Nat

SarRows(arms, P(_)) == {i \in DOMAIN arms : P(arms[i])}

------------------------------------------------------------------------------
\* reduce_arms: an arm filed as open that is no longer running is finished all the
\* same; nothing is dropped.
RunningArms(open) == SarRows(open, LAMBDA a : a.status = "RUNNING")
ReduceArms(open, resolved) ==
    [live |-> RunningArms(open),
     done |-> <<DOMAIN resolved, DOMAIN open \ RunningArms(open)>>]

\* reduce_coverage: a file without the block says nothing; it does not say zero.
ReduceCoverage(reported, block) ==
    IF ~reported THEN [state |-> "unreported"]
    ELSE [state |-> "reported", covered |-> IF block.seen = 0 THEN None ELSE block.full,
          uncovered |-> block.part + block.none]

\* filter_arms: an empty selector keeps everything; an alignment the engine never
\* settled is its own choice.
FilterArms(arms, filter) ==
    SarRows(arms, LAMBDA a :
        \A s \in DOMAIN filter : filter[s] = "" \/ a[s] = filter[s])

\* is_stalled and mark_freshness
IsStalled(arm) == arm.stalled \/ (arm.behind # None /\ arm.behind > StallBars)

\* count_live_freshness
LiveFreshness(arms) ==
    LET running == SarRows(arms, LAMBDA a : a.status = "RUNNING")
        stalled == {i \in running : IsStalled(arms[i])}
    IN [running |-> running, stalled |-> stalled, stepping |-> running \ stalled,
        no_bars_yet |-> {i \in running : arms[i].bars = 0}]

\* mark_distance_to_stop: the stop that would close the trade.  A lane that does
\* not govern keeps the signal's own; one that does has parked a stop only where
\* the mechanism has taken over.
ParkedStop(arm, governs) ==
    IF governs = "no" THEN IF arm.stop THEN Stop ELSE None
    ELSE IF arm.governor = "SAR" THEN arm.sar_stop ELSE None

DistanceToStop(arm, governs) ==
    LET stop == ParkedStop(arm, governs)
        known == arm.status = "RUNNING" /\ arm.price # None /\ arm.entry /\ stop # None
    IN [gap |-> IF known THEN arm.price - stop ELSE None, crossed |-> known /\ arm.price < stop]

\* anchor_verdict: did the arm start on its signal's own bar?  The engine's stamps
\* decide where there are any; otherwise its bars are held against its lifetime.
AnchorVerdict(arm) ==
    CASE arm.first_step # None /\ arm.first_step > 1 -> "replayed"
      [] ~(arm.first_step # None /\ arm.first_step > 1)
            /\ arm.anchor_behind # None /\ arm.anchor_behind > StallBars -> "replayed"
      [] OTHER ->
            IF arm.stamped THEN "clean"
            ELSE IF arm.lifetime = None THEN "unverified"
            ELSE IF arm.bars > arm.lifetime + AnchorSlack THEN "suspect" ELSE "clean"

ExcludedAnchors == {"replayed", "suspect"}

\* count_anchor_verdicts
AnchorCounts(arms) ==
    LET of(verdict) == SarRows(arms, LAMBDA a : AnchorVerdict(a) = verdict)
    IN [clean |-> of("clean"), replayed |-> of("replayed"), suspect |-> of("suspect"),
        unverified |-> of("unverified"), excluded |-> of("replayed") \cup of("suspect"),
        stamped |-> SarRows(arms, LAMBDA a : a.stamped)]

\* _risk_denominator and mark_risk_adjusted_r: after a handover the risk taken is
\* the mechanism's first stop, not the signal's.
RiskDenominator(arm) ==
    IF arm.handover /\ arm.handover_risk # None /\ arm.handover_risk > 0 THEN arm.handover_risk
    ELSE IF arm.sl_distance # None /\ arm.sl_distance > 0 THEN arm.sl_distance ELSE None
RiskAdjusted(arm) == RiskDenominator(arm) # None /\ arm.pnl # None

\* summarize_resolved: a replayed arm is in no statistic.
SummarizeResolved(arms, which) ==
    LET closed == {i \in which : arms[i].status \notin {"", "RUNNING"}}
        scored == {i \in closed : arms[i].status # "INSUFFICIENT"}
        replayed == {i \in scored : AnchorVerdict(arms[i]) \in ExcludedAnchors}
        measurable == scored \ replayed
        priced == {i \in measurable : arms[i].pnl # None}
    IN [closed |-> closed, measurable |-> measurable, replayed |-> replayed,
        insufficient |-> closed \ scored,
        unverified |-> {i \in measurable : AnchorVerdict(arms[i]) = "unverified"},
        no_r |-> {i \in measurable : arms[i].r = None}, priced |-> priced,
        r_risk |-> {i \in measurable : RiskAdjusted(arms[i])},
        wins |-> {i \in priced : arms[i].pnl > 0},
        handovers |-> {i \in measurable : arms[i].handover}]

\* summarize_by_risk and summarize_by_timeframe: the same summary of a part.
ByRisk(arms) ==
    [b \in {"wider", "inside", "unknown"} |->
        SummarizeResolved(arms, SarRows(arms, LAMBDA a : a.wider = b))]
ByTimeframe(arms) ==
    [tf \in {arms[i].timeframe : i \in DOMAIN arms} \ {""} |->
        SummarizeResolved(arms, SarRows(arms, LAMBDA a : a.timeframe = tf))]

\* reduce_mechanism: a flag the engine does not send stays unreported.
ReduceMechanism(reported, block, fallback) ==
    IF reported THEN [governs |-> block.governs, source |-> "engine"]
    ELSE [governs |-> fallback.governs, source |-> "fallback"]

\* reduce_live_state: from what cannot be true of any row to what is true of some.
LiveArmState(file, arms) ==
    LET fresh == LiveFreshness(arms)
    IN IF ~file.mapped THEN "no_such_lane"
       ELSE IF ~file.exists THEN "unavailable"
       ELSE IF file.newer THEN "orphan"
       ELSE IF file.age # None /\ file.age > file.stale_after THEN "frozen"
       ELSE IF DOMAIN arms = {} THEN "idle"
       ELSE IF fresh.stalled # {} /\ fresh.stalled = fresh.running THEN "stalled"
       ELSE IF fresh.stalled # {} THEN "partial" ELSE "live"

\* executing_arm: does what this page measures also move the real stop?
MatchesPage(governor, mechanism, lane) ==
    /\ governor.reported /\ governor.enabled /\ lane # "dark"
    /\ Cardinality(governor.mechanisms) = 1 => governor.mechanisms = {mechanism}

\* _render: every panel over the selection; the rows shown are cut after it, and
\* each selector's counts leave its own choice out.
SarPage(arms, filter, cap) ==
    LET selected == FilterArms(arms, filter)
        before(i) == Cardinality({j \in selected : j < i})
        without(s) == FilterArms(arms, [filter EXCEPT ![s] = ""])
    IN [selected |-> selected, shown |-> {i \in selected : before(i) < cap},
        summary |-> SummarizeResolved(arms, selected),
        counts |-> [s \in DOMAIN filter |->
            [o \in {arms[i][s] : i \in DOMAIN arms} |-> {i \in without(s) : arms[i][s] = o}]]]

------------------------------------------------------------------------------
\* sar_exit.py.  reduce_sar_exit: cells pooled by strategy and arm; a delta only
\* where both arms have enough.
ReduceSarExit(cells) ==
    LET of(base, arm) == {c \in cells : c.strategy = base /\ c.arm = arm /\ c.n > 0}
        size(base, arm) == MapThenSumSet(LAMBDA c : c.n, of(base, arm))
        sum(base, arm) == MapThenSumSet(LAMBDA c : c.avg * c.n, of(base, arm))
    IN [base \in {c.strategy : c \in {d \in cells : d.n > 0 /\ d.arm # "other"}} |->
        LET delta == sum(base, "sar") * size(base, "base") - sum(base, "base") * size(base, "sar")
        IN IF size(base, "sar") < SarMinSample \/ size(base, "base") < SarMinSample
              THEN "MEASURING"
              ELSE IF delta > 0 THEN "SAR" ELSE IF delta < 0 THEN "LIVE" ELSE "TIE"]

\* _record_r: what one stamped record made, in units of its stop's distance.
RecordR(rec) ==
    CASE rec.class \in {"", "INSUFFICIENT_DATA"} \/ ~rec.entry \/ ~rec.stop -> None
      [] rec.class \notin {"", "INSUFFICIENT_DATA"} /\ rec.entry /\ rec.stop ->
            IF rec.trailing THEN rec.exit
            ELSE IF rec.class = "WOULD_WIN" THEN IF rec.tp1 THEN Tp(1) ELSE None
            ELSE IF rec.class = "WOULD_LOSE" THEN Stop
            ELSE IF rec.final = None THEN 0 ELSE rec.final

\* _group_arms: the position of a record among its own arm's, by stamp and then by
\* place in the file.
Before(ledger, i, j) ==
    ledger[i].at < ledger[j].at \/ (ledger[i].at = ledger[j].at /\ i < j)
Ordinal(ledger, i) ==
    Cardinality({j \in DOMAIN ledger :
        /\ ledger[j].key = ledger[i].key /\ ledger[j].arm = ledger[i].arm
        /\ Before(ledger, j, i)})
Partner(ledger, i, j) ==
    /\ ledger[i].key = ledger[j].key /\ ledger[i].arm = "base" /\ ledger[j].arm = "sar"
    /\ Ordinal(ledger, i) = Ordinal(ledger, j)

\* reduce_sar_pairs: both arms classified and priced, newest first; pairs stamped
\* together stay as their groups, and then they, came up in the file.
WholePairs(ledger) ==
    {pair \in (DOMAIN ledger) \X (DOMAIN ledger) :
        /\ Partner(ledger, pair[1], pair[2])
        /\ RecordR(ledger[pair[1]]) # None /\ RecordR(ledger[pair[2]]) # None}
FirstSeen(ledger, key) ==
    Min({i \in DOMAIN ledger : ledger[i].key = key /\ ledger[i].arm \in {"base", "sar"}})
ShownAbove(ledger, p, q) ==
    LET one == ledger[p[1]]
        other == ledger[q[1]]
    IN \/ one.at > other.at
       \/ one.at = other.at /\ FirstSeen(ledger, one.key) < FirstSeen(ledger, other.key)
       \/ one.at = other.at /\ one.key = other.key /\ p[1] < q[1]
SarPairs(ledger) ==
    LET above(p) == {q \in WholePairs(ledger) : ShownAbove(ledger, q, p)}
    IN {p \in WholePairs(ledger) : Cardinality(above(p)) < PairLimit}

\* _sar_status
SarStatus(rec) ==
    CASE rec.class = "" -> "RUNNING"
      [] rec.class = "INSUFFICIENT_DATA" -> "NO_DATA"
      [] OTHER -> IF rec.reason \in {"trail", "static_sl", "static_tp1", "window"}
                     THEN rec.reason ELSE "NO_DATA"

\* distinct_moves: rows of one kind, oldest first, whose entries stay close to the
\* first of them are one move.
SameMove(entry, anchor) == 200 * (IF entry > anchor THEN entry - anchor ELSE anchor - entry) < anchor
DistinctMoves(rows) ==
    LET of(key) == SelectSeq(rows, LAMBDA r : r.key = key /\ r.level > 0)
        step(r, acc) ==
            IF acc.anchor # None /\ SameMove(r.level, acc.anchor) THEN acc
            ELSE [anchor |-> r.level, moves |-> acc.moves + 1]
        moves(key) == FoldRight(step, Reverse(of(key)), [anchor |-> None, moves |-> 0]).moves
    IN MapThenSumSet(moves, {rows[i].key : i \in DOMAIN rows})

\* reduce_sar_signals: a row per trailing record, with the base at its position.
SarSignals(ledger) ==
    LET trailing == SarRows(ledger, LAMBDA r : r.arm = "sar")
        base(j) == {i \in DOMAIN ledger : Partner(ledger, i, j) /\ RecordR(ledger[i]) # None}
        r(j) == IF SarStatus(ledger[j]) = "RUNNING" THEN None ELSE RecordR(ledger[j])
    IN [j \in trailing |->
        [status |-> SarStatus(ledger[j]), r |-> r(j),
         delta |-> IF r(j) = None \/ base(j) = {} THEN None
                   ELSE r(j) - RecordR(ledger[CHOOSE i \in base(j) : TRUE]),
         stale |-> SarStatus(ledger[j]) = "RUNNING" /\ ledger[j].at # 0
                   /\ ledger[j].at > SarWindow]]

\* filter_sar_signals takes its rows as filter_arms does.  summarize_alignment: a
\* closed row whose alignment was never settled is not pending.
SummarizeAlignment(rows) ==
    LET of(a) == SarRows(rows, LAMBDA r : r.aligned = a)
        closed(a) == {i \in of(a) : rows[i].r # None}
        pending == {i \in of("") : rows[i].status = "RUNNING"}
    IN [aligned |-> of("aligned"), opposed |-> of("opposed"), pending |-> pending,
        unresolved |-> of("") \ pending, known_closed |-> closed("aligned") \cup closed("opposed"),
        wins |-> [a \in {"aligned", "opposed"} |-> {i \in closed(a) : rows[i].r > 0}],
        exits |-> [a \in {"aligned", "opposed"} |->
                      {<<rows[i].key, rows[i].exit>> : i \in closed(a)}]]

\* summarize_rows
SummarizeSarRows(rows) ==
    LET closed == SarRows(rows, LAMBDA r : r.r # None)
    IN [running |-> SarRows(rows, LAMBDA r : r.status = "RUNNING"), closed |-> closed,
        compared |-> SarRows(rows, LAMBDA r : r.delta # None),
        wins |-> {i \in closed : rows[i].r > 0}]

\* reduce_ledger_freshness: ages of the newest stamp and of the newest resolution.
LedgerFreshness(rows) ==
    LET running == SarRows(rows, LAMBDA r : r.status = "RUNNING")
        stamps == {rows[i].age : i \in {j \in DOMAIN rows : rows[j].age # None}}
        ends == {rows[i].resolved : i \in {j \in DOMAIN rows \ running : rows[j].resolved # None}}
    IN IF DOMAIN rows = {} THEN "empty"
       ELSE IF stamps # {} /\ Min(stamps) > StallAge THEN "stalled"
       ELSE IF ends # {} /\ Min(ends) > StallAge /\ running # {} THEN "stalled"
       ELSE IF \E i \in running : rows[i].stale THEN "stalling" ELSE "live"

\* reduce_ledger_status: arms may resolve without one pair being whole.
LedgerStatus(readable, ledger) ==
    LET classified == SarRows(ledger, LAMBDA r : r.class # "")
    IN IF ~readable THEN "unavailable"
       ELSE IF DOMAIN ledger = {} THEN "dark"
       ELSE IF classified = {} THEN "measuring"
       ELSE IF SarPairs(ledger) = {} THEN "one_armed" ELSE "live"

\* reduce_totals, over the pairs shown.
SarTotals(ledger) ==
    LET pairs == SarPairs(ledger)
        total(k) == MapThenSumSet(LAMBDA p : RecordR(ledger[p[k]]), pairs)
    IN [n |-> Cardinality(pairs), base |-> total(1), sar |-> total(2), delta |-> total(2) - total(1),
        wins |-> [k \in {1, 2} |-> {p \in pairs : RecordR(ledger[p[k]]) > 0}]]
=============================================================================
