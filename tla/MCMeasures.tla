----------------------------- MODULE MCMeasures ------------------------------
\* A trade stopped at -2 with targets at 2, 3 and 4, a chart around 10, and rows of
\* every state the pages tell apart, for TLC.
EXTENDS Measures

CONSTANTS f1, f2

MCStop == -2
MCTarget == <<2, 3, 4>>

MCBars ==
    {Bar(0, 0, 0), Bar(0, 1, 1), Bar(-1, 0, -1), Bar(-2, 0, -1), Bar(-2, 2, -2), Bar(0, 2, 2),
     Bar(-3, -1, -3), Bar(-1, 4, 3)}

MCChartBars ==
    {[bucket |-> 0, open |-> o, low |-> l, high |-> h, close |-> c] :
        <<o, l, h, c>> \in {<<10, 9, 11, 10>>, <<10, 10, 13, 12>>, <<11, 7, 11, 8>>,
                            <<8, 8, 9, 9>>, <<12, 6, 14, 13>>}}

\* A dark row, open and unmarked, and what others differ in.
Plain ==
    [side |-> "LONG", symbol |-> "a", path |-> "p", dark_gate |-> "floor", status |-> "OPEN",
     delivery |-> "dark", entry |-> TRUE, stop |-> TRUE, levels |-> {1}, pnl |-> None,
     hold |-> "HOLD_OPEN", hold_result |-> None, hold_mfe |-> None, hold_mfe_incl |-> None,
     hold_hit_tp |-> 0, resolved |-> None, misses |-> FALSE, stamped |-> TRUE, age |-> 1,
     stalled |-> FALSE, undated |-> FALSE, price |-> None, emitted |-> 0, arms |-> {},
     partial |-> FALSE, state |-> "ACTIVE", active |-> TRUE, regime |-> "r", features |-> {},
     first_step |-> None, anchor_behind |-> None, lifetime |-> None, bars |-> 0,
     opened |-> 0, closed |-> Undated, sl_distance |-> 1]

EndedRow(row, status, result) ==
    [row EXCEPT !.status = status, !.state = status, !.active = FALSE, !.pnl = result,
                !.hold = "HOLD_SL", !.hold_result = Stop, !.lifetime = 1, !.bars = 1]

MCRows ==
    {Plain,
     [Plain EXCEPT !.price = 2, !.hold = "", !.delivery = "unstamped", !.stamped = FALSE,
                   !.lifetime = 1, !.bars = 9],
     [EndedRow(Plain, "CLOSED_SL", Stop) EXCEPT !.opened = 1, !.closed = 3, !.delivery = "promoted_dropped"],
     [EndedRow(Plain, "CLOSED_TP1", 1) EXCEPT !.opened = 3, !.closed = 4, !.path = "q", !.symbol = "b",
                   !.dark_gate = "floor_long", !.delivery = "promoted_enqueued"],
     [EndedRow(Plain, "EXPIRED", 0) EXCEPT !.opened = 2, !.closed = 5, !.delivery = "promoted_other",
                   !.emitted = 3, !.hold = "HOLD_EXPIRED", !.first_step = 2],
     [EndedRow(Plain, "INSUFFICIENT", None) EXCEPT !.partial = TRUE, !.dark_gate = LaneGate,
                   !.emitted = None, !.path = "", !.hold = "HOLD_INSUFFICIENT", !.opened = Undated,
                   !.closed = 3, !.stamped = FALSE, !.lifetime = None],
     [EndedRow(Plain, "SUPERSEDED", 1) EXCEPT !.opened = 3, !.closed = 3, !.delivery = "shelved",
                   !.emitted = 1, !.entry = FALSE]}

\* Days of two ticks, weeks of four, months of six.
MCBegins == [day |-> {0, 2, 4, 6, 8}, week |-> {0, 4, 8}, month |-> {0, 6}]

MCBuilds == {b \in BuildKinds : b.beats => b.ages}

MCRoster == [engine |-> "engine", redis |-> "engine"]
MCBoxStates ==
    {[status |-> "running", health |-> "healthy", uptime |-> NotRead],
     [status |-> "running", health |-> "unhealthy", uptime |-> NotRead],
     [status |-> "exited", health |-> "healthy", uptime |-> NotRead]}
=============================================================================
