-------------------------------- MODULE Jobs --------------------------------
(***************************************************************************)
(* What the owner starts and leaves running: a mode change the engine holds  *)
(* for him, and an exit backtest.  The two share nothing, so one of them is  *)
(* at work in a behaviour and the states here are the sum of theirs.         *)
(***************************************************************************)
EXTENDS ModeControl, ExitBacktest

CONSTANTS w1, w2

VARIABLE part    \* the part at work

jobsVars == <<part, modeVars, backtestVars>>

Init ==
    /\ part \in {"mode", "backtest"}
    /\ ModeInit /\ BacktestInit
    /\ engine.mode = CHOOSE m \in Mode : TRUE    \* the modes are alike
    /\ part # "mode" => build = "queued"

Switching == part = "mode" /\ UNCHANGED <<part, backtestVars>>
Backtesting == part = "backtest" /\ UNCHANGED <<part, modeVars>>

Next ==
    \/ Switching /\ ModeNext
    \/ Backtesting /\ BacktestNext

\* The engine and the clock go on, a visit is served, a page that refreshes itself
\* does, a wait ends.
Fairness ==
    /\ WF_jobsVars(Switching /\ TimePasses)
    /\ \A w \in Window : WF_jobsVars(Switching /\ GoesOn(w))
    /\ WF_jobsVars(Backtesting /\ WaitsEnd)

Spec == Init /\ [][Next]_jobsVars /\ Fairness
=============================================================================
