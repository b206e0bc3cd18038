----------------------------- MODULE Structural ------------------------------
(***************************************************************************)
(* app/data_sources/structural_snap.py and structural_veto.py: what stops    *)
(* and targets moved to a nearby level would have made of the closed         *)
(* signals, told from the record's extremes alone.  Distances are in steps   *)
(* from the entry, drawdown and stops as positive depths.                    *)
(***************************************************************************)
EXTENDS Integers, FiniteSets, FiniteSetsExt

CONSTANT VetoThresholds    \* ATR_THRESHOLDS, in tenths of an ATR

Untold == -99     \* a figure the record does not carry
Scored0 == {"unchanged", "decided"}

Arm(verdict, value) == [verdict |-> verdict, value |-> value]

\* _tp1_arm: everything the record saw came before the close, so a nearer target
\* was met exactly if the peak reached it.
Tp1Arm(rec, arith, snapped) ==
    IF rec.pnl = Untold THEN Arm("no_outcome", Untold)
    ELSE IF rec.mfe = Untold \/ arith = Untold \/ snapped = Untold THEN Arm("no_excursion", Untold)
    ELSE IF snapped = arith THEN Arm("unchanged", rec.pnl)
    ELSE Arm("decided", IF rec.mfe >= snapped THEN snapped ELSE rec.pnl)

\* A wider stop under a trade that ended at its own, taken for decided.
SlArmPastTheClose(rec, arith, snapped) ==
    IF rec.pnl = Untold THEN Arm("no_outcome", Untold)
    ELSE IF rec.mae = Untold \/ arith = Untold \/ snapped = Untold THEN Arm("no_excursion", Untold)
    ELSE IF snapped = arith THEN Arm("unchanged", rec.pnl)
    ELSE IF snapped >= arith \/ rec.mae < snapped THEN Arm("decided", rec.pnl)
    ELSE IF rec.pnl < 0 THEN Arm("decided", -snapped) ELSE Arm("undecidable_ordering", Untold)

\* _sl_arm: whether the walk ended at the designed stop is read from the drawdown;
\* the flag the record carries also marks a stop that had been moved.
SlArm(rec, arith, snapped) ==
    IF rec.pnl = Untold THEN Arm("no_outcome", Untold)
    ELSE IF rec.mae = Untold \/ arith = Untold \/ snapped = Untold THEN Arm("no_excursion", Untold)
    ELSE IF snapped = arith THEN Arm("unchanged", rec.pnl)
    ELSE IF snapped < arith
         THEN IF rec.mae < snapped THEN Arm("decided", rec.pnl)
              ELSE IF rec.pnl < 0 THEN Arm("decided", -snapped)
              ELSE Arm("undecidable_ordering", Untold)
    ELSE IF rec.mae < arith THEN Arm("decided", rec.pnl)
    ELSE Arm("undecidable_truncated", Untold)

\* ArmSummary: scored rows only, on both sides of the difference.
ArmSummary(arms, recs) ==
    LET scored == {i \in DOMAIN arms : arms[i].verdict \in Scored0}
    IN [scored |-> scored, changed |-> {i \in scored : arms[i].verdict = "decided"},
        counts |-> [v \in {arms[i].verdict : i \in DOMAIN arms} |->
                       {i \in DOMAIN arms : arms[i].verdict = v}],
        delta |-> MapThenSumSet(LAMBDA i : arms[i].value - recs[i].pnl, scored)]

\* _concentration: the setup most of the rows share.
SnapConcentration(rows) ==
    LET key(i) == <<rows[i].symbol, rows[i].side, rows[i].setup>>
        groups == {{j \in DOMAIN rows : key(j) = key(i)} : i \in DOMAIN rows}
    IN [setups |-> Cardinality(groups),
        top |-> IF groups = {} THEN 0 ELSE Max({Cardinality(g) : g \in groups})]

\* build_report: refused rows are counted by reason and reach no arm; a row that
\* never joined a record is no outcome.
NoCounterpart == [pnl |-> Untold, mfe |-> Untold, mae |-> Untold]
Joined(rows, recs, i) == IF rows[i].id \in DOMAIN recs THEN recs[rows[i].id] ELSE NoCounterpart
SnapReport(rows, recs, setup) ==
    LET chosen == {i \in DOMAIN rows : setup = "" \/ rows[i].setup = setup}
        measured == {i \in chosen : rows[i].refused = ""}
        joined == [i \in measured |-> Joined(rows, recs, i)]
        stamped == {i \in measured : rows[i].mismatch # "absent"}
    IN [rows |-> chosen, measured |-> measured,
        refusals |-> [why \in {rows[i].refused : i \in chosen} \ {""} |->
                         {i \in chosen : rows[i].refused = why}],
        tp1 |-> ArmSummary([i \in measured |->
                   Tp1Arm(joined[i], rows[i].tp1, rows[i].tp1_snapped)], joined),
        sl |-> ArmSummary([i \in measured |->
                   SlArm(joined[i], rows[i].sl, rows[i].sl_snapped)], joined),
        tf_unmapped |-> {i \in stamped : rows[i].mismatch = "unmapped"},
        tf_mismatched |-> {i \in stamped : rows[i].mismatch = "yes"},
        applied |-> \E i \in chosen : rows[i].apply]

\* _room_pct and the level an open row has crossed, stop first.
Crossed(price, stop, target) ==
    IF price = Untold THEN "" ELSE IF stop # Untold /\ price < -stop THEN "SL"
    ELSE IF target # Untold /\ price > target THEN "TP1" ELSE ""

\* build_live: the open rows; a row whose stop the engine has since moved makes no
\* claim about what the snap would have done.
GeometryMoved(row, live) == live.sl # Untold /\ row.sl # Untold /\ live.sl # row.sl
SnapLive(rows, open, price) ==
    LET stamped == {i \in DOMAIN rows : rows[i].refused = ""}
        live == {i \in stamped : rows[i].id \in DOMAIN open}
        moved == {i \in live : GeometryMoved(rows[i], open[rows[i].id])}
        shipped(i) == Crossed(price[i], open[rows[i].id].sl, open[rows[i].id].tp1)
        snapped(i) == Crossed(price[i], rows[i].sl_snapped, rows[i].tp1_snapped)
    IN [stamped |-> stamped, live |-> live, moved |-> moved,
        marked |-> {i \in live : price[i] # Untold},
        would_exit |-> {i \in live \ moved : snapped(i) # "" /\ shipped(i) = ""}]

------------------------------------------------------------------------------
\* structural_veto.py.  Split: what a rule keeps, what it drops, and what it cannot
\* say; never pooled.
Split(verdict) ==
    [said \in {"keep", "drop", "unknown"} |-> {i \in DOMAIN verdict : verdict[i] = said}]

\* build_report: the three rules over the rows with a known result.
VetoReport(rows, recs, setup) ==
    LET chosen == {i \in DOMAIN rows : setup = "" \/ rows[i].setup = setup}
        joined == {i \in chosen : Joined(rows, recs, i).pnl # Untold}
        behind == [i \in joined |->
            CASE rows[i].behind = "yes" -> "drop" [] rows[i].behind = "no" -> "keep"
              [] OTHER -> "unknown"]
        near(t) == [i \in joined |->
            IF rows[i].distance = Untold THEN "unknown"
            ELSE IF rows[i].distance < t THEN "drop" ELSE "keep"]
        area == [i \in joined |->
            CASE rows[i].area = "" -> "unknown" [] rows[i].area = "inside" -> "drop"
              [] OTHER -> "keep"]
    IN [baseline |-> joined, enforced |-> \E i \in chosen : rows[i].mode = "enforce",
        refusals |-> [why \in UNION {rows[i].refusals : i \in chosen} |->
                         {i \in chosen : why \in rows[i].refusals}],
        target_behind_level |-> Split(behind),
        opposing |-> [t \in VetoThresholds |-> Split(near(t))],
        value_area |-> Split(area)]
=============================================================================
