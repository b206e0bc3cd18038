------------------------------- MODULE ExitSim -------------------------------
(***************************************************************************)
(* app/data_sources/exit_sim.py, and simulate_to_stop of free_run.py: what a *)
(* signal would have made under another exit.  Prices are percent of the     *)
(* entry, counted in the trade's favour, so a short is the mirror of a long  *)
(* and is not told apart; the stop lies at Stop, target n at Tp(n). exit_sim *)
(* has only what the engine recorded of a trade: which levels were touched,  *)
(* how far it went, and sometimes when.                                      *)
(***************************************************************************)
EXTENDS Integers, FiniteSets, Sequences, FiniteSetsExt, Folds

CONSTANTS
    Stop,       \* the original stop, a loss
    Target,     \* where the targets lie, the nearest first
    FixedPct    \* target_pct: the fixed target, and the break-even trigger

None == -99    \* a field the record does not carry

Level == 1..3
Tp(level) == Target[level]
Whole == 6     \* a position, in sixths

ASSUME ExitSimAssumption ==
    /\ Stop \in Int /\ Stop < 0 /\ Stop # None
    /\ Target \in [Level -> Nat \ {0}] /\ Tp(1) <= Tp(2) /\ Tp(2) <= Tp(3)
    /\ FixedPct \in Nat \ {0}

Bar(low, high, close) == [open |-> close, low |-> low, high |-> high, close |-> close]

Highest(values) == IF values = {} THEN 0 ELSE Max(values \cup {0})
FirstOf(indices, n) == IF indices = {} THEN n + 1 ELSE Min(indices)

------------------------------------------------------------------------------
\* simulate_to_stop: held to the stop and nothing else.  The bar that touches the
\* stop counts for nothing else.
StopBar(bars) == FirstOf({i \in DOMAIN bars : bars[i].low <= Stop}, Len(bars))
Stopped(bars) == StopBar(bars) <= Len(bars)
Peak(bars) == Highest({bars[i].high : i \in 1..(StopBar(bars) - 1)})

SimulateToStop(bars) ==
    [hit |-> Stopped(bars),
     mfe |-> Peak(bars),
     result |-> IF Stopped(bars) THEN Stop
                ELSE IF bars = <<>> THEN None ELSE bars[Len(bars)].close]

------------------------------------------------------------------------------
\* build_catalog: what share of the position is for which target.
ForLevel(level, share) == [kind |-> "level", value |-> level, share |-> share]
ForFixed(share) == [kind |-> "fixed", value |-> FixedPct, share |-> share]

Catalog ==
    [tp1 |-> <<ForLevel(1, 6)>>,
     be_tp1 |-> <<ForLevel(1, 6)>>,
     flat |-> <<ForFixed(6)>>,
     tp1_tp2 |-> <<ForLevel(1, 3), ForLevel(2, 3)>>,
     flat_tp1 |-> <<ForFixed(3), ForLevel(1, 3)>>,
     tp1_tp2_tp3 |-> <<ForLevel(1, 2), ForLevel(2, 2), ForLevel(3, 2)>>]

\* Where a leg is filled.
Aim(leg) == IF leg.kind = "fixed" THEN leg.value ELSE Tp(leg.value)

GetStrategy(key) == IF key \in DOMAIN Catalog THEN key ELSE "tp1"

\* from_dict: the stop the signal was issued with where the row still has it, else
\* the one the engine may have moved since; without geometry there is no row.
OriginalStop(row) ==
    LET stops == <<row.original_sl, row.stop_loss, row.sl>>
        known == {i \in 1..3 : stops[i] # None}
    IN IF known = {} THEN None ELSE stops[Min(known)]

Usable(row) == row.side \in {"LONG", "SHORT"} /\ row.entry /\ OriginalStop(row) # None

SlReturn(row) == OriginalStop(row)

\* tp_return_pct: the level's own price, or the engine's recorded result in its place.
TpReturn(row, level) == IF level \in row.levels THEN Tp(level) ELSE row.sq_pnl

StopHit(row) ==
    IF row.hit_sl # "unknown" THEN row.hit_sl = "yes"
    ELSE row.mae # None /\ row.mae >= -SlReturn(row)

\* Both touched and no order on record read as a win.
BeforeStopHopefully(row, reached, near) == reached

\* _target_before_stop: stop first, unless the record proves the contrary.
TargetBeforeStop(row, reached, near) ==
    /\ reached
    /\ \/ ~StopHit(row)
       \/ /\ near /\ row.tp_touch # None /\ row.sl_touch # None
          /\ row.tp_touch <= row.sl_touch

Reached(row, leg) ==
    IF leg.kind = "fixed" THEN row.mfe # None /\ row.mfe >= leg.value
    ELSE \/ row.hit_tp >= leg.value
         \/ leg.value = 1 /\ row.mfe # None /\ 1 \in row.levels /\ row.mfe >= Tp(1)

Near(row, leg) == leg.kind = "fixed" => row.hit_tp >= 1

LegReturn(row, leg) == IF leg.kind = "fixed" THEN leg.value ELSE TpReturn(row, leg.value)

Filled(row, legs) ==
    {i \in DOMAIN legs : /\ LegReturn(row, legs[i]) # None
                         /\ TargetBeforeStop(row, Reached(row, legs[i]), Near(row, legs[i]))}

\* A ladder has three legs at most; over some of them, the sum of a leg's figure.
Over(figure) ==
    LET part == [i \in Level |-> IF i \in DOMAIN figure THEN figure[i] ELSE 0]
    IN part[1] + part[2] + part[3]

Share(legs, which) == Over([i \in which |-> legs[i].share])

\* evaluate: the legs that filled, and the rest at the stop or at the last mark.
Evaluate(row, key) ==
    LET legs == Catalog[key]
        filled == Filled(row, legs)
        rest == Whole - Share(legs, filled)
        tail == IF StopHit(row) THEN SlReturn(row) ELSE IF row.pnl = None THEN 0 ELSE row.pnl
        priced == \/ filled # {}
                  \/ rest > 0 /\ (StopHit(row) \/ row.active \/ row.pnl # None)
    IN [value |-> IF priced
                  THEN Over([i \in filled |-> legs[i].share * LegReturn(row, legs[i])])
                       + rest * tail
                  ELSE None,
        filled |-> filled,
        stopped |-> IF StopHit(row) THEN rest ELSE 0,
        open |-> IF ~StopHit(row) /\ row.active THEN rest ELSE 0,
        approx |-> \E i \in DOMAIN legs : legs[i].kind = "level" /\ legs[i].value \notin row.levels
                                          /\ (i \in filled \/ row.sq_pnl = None)]

\* evaluate_be: up by the trigger and stopped with no first target is a scratch.
Scratch == [value |-> 0, filled |-> {}, stopped |-> 0, open |-> 0, approx |-> FALSE]

Tp1First(row) ==
    \/ row.hit_tp >= 1
    \/ row.tp_touch # None /\ row.sl_touch # None /\ row.tp_touch <= row.sl_touch

EvaluateBe(row) ==
    IF row.mfe # None /\ row.mfe >= FixedPct /\ StopHit(row) /\ ~Tp1First(row)
    THEN Scratch ELSE Evaluate(row, "be_tp1")

\* passes_direction_filter; an unknown key keeps every row.
PassesDirection(row, key) ==
    CASE key = "shorts" -> row.side = "SHORT"
      [] key = "longs" -> row.side = "LONG"
      [] key = "ex_ct_longs" -> ~(row.side = "LONG" /\ row.counter_trend)
      [] OTHER -> TRUE

\* summarize, over results: a set of [row, value].
Priced(results) == {r \in results : r.value # None}
Wins(results) == {r \in Priced(results) : r.value > 0}
Losses(results) == {r \in Priced(results) : r.value < 0}
Total(results) == MapThenSumSet(LAMBDA r : r.value, Priced(results))
=============================================================================
