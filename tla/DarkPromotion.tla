---------------------------- MODULE DarkPromotion ----------------------------
(***************************************************************************)
(* app/data_sources/dark_promotion.py: what a promotion rule selects from    *)
(* the dark ledger, what it refuses and why, and how the rows it promoted    *)
(* landed.  Operators over rows and rules, no state.  A row is what the      *)
(* ledger's reducer keeps; a result is worth -1, 0 or 1 percent.             *)
(***************************************************************************)
EXTENDS Integers, FiniteSets

\* Tokens of an allow-list: gates are triples, a retirement's names its pair.
AnyToken == <<"*", "*", "*">>
Gate(kind) == <<kind, "-", "-">>
RetiredGate(path, side) == <<"retired", path, side>>

Side == {"LONG", "SHORT"}
NoPnl == 9
NoFloor == -1
NoRule == [enabled |-> FALSE, none |-> TRUE]

Closed(row) == row.status \in {"CLOSED_TP1", "CLOSED_SL", "EXPIRED"}
Dimension == {"gate", "regime", "session", "direction", "confidence"}

\* _trend_of: the trend a regime's name carries; a range names none.
TrendOf(regime) ==
    CASE regime = <<"TRENDING_UP", "-", "-">> -> "UP"
      [] regime = <<"TRENDING_DOWN", "-", "-">> -> "DOWN"
      [] OTHER -> "none"

\* _matches: an empty allow-list matches nothing.
Matches(allowed, token) == AnyToken \in allowed \/ token \in allowed

\* The entry regime's trend, or the 15 minute one where it names none.
Trend(row) ==
    IF TrendOf(row.regime) # "none" THEN TrendOf(row.regime) ELSE TrendOf(row.regime15)

WithTrend(row) ==
    (Trend(row) = "UP" /\ row.side = "LONG") \/ (Trend(row) = "DOWN" /\ row.side = "SHORT")

\* A direction this build does not know refuses no row.
DirectionMet(row, direction) ==
    CASE direction = "any" -> TRUE
      [] direction = "long" -> row.side = "LONG"
      [] direction = "short" -> row.side = "SHORT"
      [] direction \in {"with_trend", "counter_trend"} ->
            Trend(row) # "none" /\ (WithTrend(row) <=> direction = "with_trend")
      [] OTHER -> TRUE

Met(dim, row, rule) ==
    CASE dim = "gate" -> Matches(rule.gates, row.gate)
      [] dim = "regime" -> Matches(rule.regimes, row.regime)
      [] dim = "session" -> Matches(rule.sessions, row.session)
      [] dim = "direction" -> DirectionMet(row, rule.direction)
      [] OTHER -> rule.floor = NoFloor \/ row.confidence >= rule.floor

\* rule_unmet
Unmet(row, rule) == {dim \in Dimension : ~Met(dim, row, rule)}

\* rule_state; inert is the engine's own verdict: an allow-list is empty.
Inert(rule) == {} \in {rule.gates, rule.regimes, rule.sessions}

RuleState(rule, masterOn, laneOn) ==
    CASE rule = NoRule -> "none"
      [] rule # NoRule /\ ~rule.enabled -> "off"
      [] rule # NoRule /\ rule.enabled /\ Inert(rule) -> "inert"
      [] rule # NoRule /\ rule.enabled /\ ~Inert(rule) /\ ~masterOn -> "master_off"
      [] rule # NoRule /\ rule.enabled /\ ~Inert(rule) /\ masterOn /\ ~laneOn -> "lane_off"
      [] OTHER -> "live"

------------------------------------------------------------------------------
\* rule_selection over rows, a function from row numbers to rows.
ClosedRows(rows) == {i \in DOMAIN rows : Closed(rows[i])}
Selected(rows, rule) == {i \in ClosedRows(rows) : Unmet(rows[i], rule) = {}}
RefusedBy(rows, rule, dim) == {i \in ClosedRows(rows) : dim \in Unmet(rows[i], rule)}

SoleBlocker(rows, rule, dim) == {i \in ClosedRows(rows) : Unmet(rows[i], rule) = {dim}}

\* The rule with one condition relaxed, as the page invites the owner to do.
Relaxed(rule, dim) ==
    CASE dim = "gate" -> [rule EXCEPT !.gates = {AnyToken}]
      [] dim = "regime" -> [rule EXCEPT !.regimes = {AnyToken}]
      [] dim = "session" -> [rule EXCEPT !.sessions = {AnyToken}]
      [] dim = "direction" -> [rule EXCEPT !.direction = "any"]
      [] OTHER -> [rule EXCEPT !.floor = NoFloor]

\* summarize: three outcome buckets over the scored rows.
Scored(rows) == {i \in ClosedRows(rows) : rows[i].pnl # NoPnl}
Summary(rows) ==
    [closed |-> Cardinality(ClosedRows(rows)),
     scored |-> Cardinality(Scored(rows)),
     wins |-> Cardinality({i \in Scored(rows) : rows[i].pnl > 0}),
     losses |-> Cardinality({i \in Scored(rows) : rows[i].pnl < 0}),
     flats |-> Cardinality({i \in Scored(rows) : rows[i].pnl = 0}),
     campaigns |-> Cardinality({<<rows[i].symbol, rows[i].side>> : i \in ClosedRows(rows)})]

------------------------------------------------------------------------------
\* delivery_split: every state with the engine's prefix counts as promoted, the
\* ones this build has no name for apart from those it has.
Named == {"unstamped", "dark", "promoted_enqueued", "promoted_delivered", "promoted_dropped"}
NamedPromoted == Named \ {"unstamped", "dark"}
Promoted(delivery) == delivery \in NamedPromoted \cup {"promoted_other"}

InState(rows, states) == {i \in DOMAIN rows : rows[i].delivery \in states}

\* A split that enumerates the states it knows.
KnownPromotedRows(rows) == {i \in DOMAIN rows : rows[i].delivery \in NamedPromoted}
PromotedRows(rows) == {i \in DOMAIN rows : Promoted(rows[i].delivery)}

DeliverySplit(rows) ==
    LET count(states) == Cardinality(InState(rows, states))
        promoted == Cardinality(PromotedRows(rows))
        unnamed == Cardinality({i \in PromotedRows(rows) : rows[i].delivery \notin Named})
    IN  [counts |-> [state \in {rows[i].delivery : i \in DOMAIN rows} |-> count({state})],
         promoted |-> promoted,
         delivered |-> count({"promoted_delivered"}),
         dropped |-> count({"promoted_dropped"}),
         unclassified |-> unnamed,
         awaiting |-> promoted - count({"promoted_delivered"})
                               - count({"promoted_dropped"}) - unnamed]

\* promoted_vs_dark: the populations a live rule is judged by.
PartOf(rows, which) == [i \in which |-> rows[i]]
PromotedVsDark(rows) ==
    [promoted |-> Summary(PartOf(rows, PromotedRows(rows))),
     delivered |-> Summary(PartOf(rows, InState(rows, {"promoted_delivered"}))),
     dark |-> Summary(PartOf(rows, InState(rows, {"dark"}))),
     unstamped |-> Summary(PartOf(rows, InState(rows, {"unstamped"}))),
     split |-> DeliverySplit(rows)]

\* condition_evidence: one cell per value of a dimension, over closed rows.
Blank == <<"", "-", "-">>
Evidence(rows, dim) ==
    LET value(i) == CASE dim = "gate" -> rows[i].gate
                      [] dim = "regime" -> rows[i].regime
                      [] dim = "session" -> rows[i].session
                      [] OTHER -> Gate(rows[i].side)
        values == {value(i) : i \in ClosedRows(rows)} \ {Blank}
    IN  [token \in values |->
            Summary([i \in {j \in ClosedRows(rows) : value(j) = token} |-> rows[i]])]

\* engine_refusals: a census that was not reported is not a census of zero.
EngineRefusals(reported, total) ==
    CASE ~reported -> "not_reported" [] total > 0 -> "refusing" [] OTHER -> "idle"
=============================================================================
