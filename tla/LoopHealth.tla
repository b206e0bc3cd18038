------------------------------ MODULE LoopHealth ------------------------------
(***************************************************************************)
(* app/data_sources/system_health.py: the scan-cycle card of /system/        *)
(* liveness, drawn from what the engine publishes about its own loop.  The   *)
(* loop and the heartbeat file it writes are the engine's, outside src/:     *)
(* cycles are made of units, a cycle may run long or stop for ever, the      *)
(* counters move only when one completes, and the process may be restarted   *)
(* as another build.                                                         *)
(***************************************************************************)
EXTENDS Integers

CONSTANTS
    Builds,        \* what builds of the engine publish, a subset of BuildKinds
    Warn, Kill,    \* the engine's warn_sec and kill_sec
    WarmUp,        \* cycles counted as boot
    MinCycles,     \* the 10 cycles a verdict of pressure needs
    MaxCycles,     \* bound: cycles of one process
    MaxIdle        \* bound: how long nothing may happen

\* beats: the heartbeat is touched by every unit, and the build says so; ages: the
\* cycle in flight and the heartbeat are published; bounds: warn_sec and kill_sec
\* are; stamps: the stages of slow cycles are.
BuildKinds == [beats : BOOLEAN, ages : BOOLEAN, bounds : BOOLEAN, stamps : BOOLEAN]

ASSUME LoopAssumption ==
    /\ Builds \subseteq BuildKinds /\ \A b \in Builds : b.beats => b.ages
    /\ Warn \in Nat /\ Kill \in Nat /\ WarmUp \in Nat
    /\ MinCycles \in Nat /\ MaxCycles \in Nat /\ MaxIdle \in Nat

VARIABLES
    build,      \* the build that runs
    flight,     \* in_flight_sec: how long the cycle has run, NotSent between cycles
    beat,       \* heartbeat_age_sec, NotSent before the first beat of the process
    idle,       \* history: how long no unit has finished
    tally       \* cycles, and of them past warn and past kill, boot apart

loopVars == <<build, flight, beat, idle, tally>>

NotSent == -1
NoTally == [cycles |-> 0, over_warn |-> 0, over_kill |-> 0, boot_warn |-> 0, boot_kill |-> 0,
            worst_staged |-> FALSE]

LoopInit == build \in Builds /\ flight = NotSent /\ beat = NotSent /\ idle = 0 /\ tally = NoTally

\* One build, between processes.
LoopAtRest ==
    /\ build = [beats |-> TRUE, ages |-> TRUE, bounds |-> TRUE, stamps |-> TRUE]
    /\ flight = NotSent /\ beat = NotSent /\ idle = 0 /\ tally = NoTally

StartCycle ==
    /\ flight = NotSent /\ tally.cycles < MaxCycles /\ flight' = 0
    /\ UNCHANGED <<build, beat, idle, tally>>

FinishUnit ==
    /\ flight # NotSent /\ idle' = 0
    /\ beat' = IF build.beats THEN 0 ELSE beat
    /\ UNCHANGED <<build, flight, tally>>

\* A cycle completes: only now is it counted, and its breakdown kept if it was slow.
FinishCycle ==
    LET one(bound) == IF flight > bound THEN 1 ELSE 0
        booting == tally.cycles < WarmUp
    IN /\ flight # NotSent
       /\ tally' = [cycles |-> tally.cycles + 1,
                    over_warn |-> tally.over_warn + (IF booting THEN 0 ELSE one(Warn)),
                    over_kill |-> tally.over_kill + (IF booting THEN 0 ELSE one(Kill)),
                    boot_warn |-> tally.boot_warn + (IF booting THEN one(Warn) ELSE 0),
                    boot_kill |-> tally.boot_kill + (IF booting THEN one(Kill) ELSE 0),
                    worst_staged |-> tally.worst_staged \/ flight > Warn]
       /\ flight' = NotSent /\ beat' = 0 /\ idle' = 0 /\ UNCHANGED build

Older(age) == IF age = NotSent THEN NotSent ELSE age + 1
LoopTick ==
    /\ idle < MaxIdle /\ flight < MaxIdle
    /\ flight' = Older(flight) /\ beat' = Older(beat) /\ idle' = idle + 1
    /\ UNCHANGED <<build, tally>>

\* autoheal, or a deploy.
Restart ==
    /\ build' \in Builds /\ flight' = NotSent /\ beat' = NotSent /\ idle' = 0 /\ tally' = NoTally

LoopNext == StartCycle \/ FinishUnit \/ FinishCycle \/ LoopTick \/ Restart

LoopSpec == LoopInit /\ [][LoopNext]_loopVars

------------------------------------------------------------------------------
\* The scan_cycle block, with NotSent for a key the build does not send; a build that
\* sends no bound counts nothing against one.
Scan ==
    [cycles |-> tally.cycles,
     over_warn |-> IF build.bounds THEN tally.over_warn ELSE 0,
     over_kill |-> IF build.bounds THEN tally.over_kill ELSE 0,
     boot_kill |-> IF build.bounds THEN tally.boot_kill ELSE 0,
     warn |-> IF build.bounds THEN Warn ELSE NotSent, kill |-> IF build.bounds THEN Kill ELSE NotSent,
     in_flight |-> IF build.ages THEN flight ELSE NotSent,
     beat_age |-> IF build.ages THEN beat ELSE NotSent,
     beats |-> build.beats, stamps |-> build.stamps, worst_staged |-> tally.worst_staged]

\* _reduce_cycle_stages
CycleStages(scan) ==
    IF ~scan.stamps THEN "not_reported" ELSE IF scan.worst_staged THEN "reported" ELSE "none_yet"

\* A mistake: the two ages pooled for every build.
JudgedAgesPooled(scan) == {scan.in_flight, scan.beat_age} \ {NotSent}

\* The ages a hang is judged by: the heartbeat alone where the loop beats as it
\* works, the older of beat and cycle where it beats only at the end of one.
JudgedAges(scan) == (IF scan.beats THEN {scan.beat_age} ELSE {scan.in_flight, scan.beat_age}) \ {NotSent}

\* reduce_loop_health: the cycle that has not finished is looked at first, then the
\* counters of those that have; boot is counted apart.
Hanging(scan) == scan.kill # NotSent /\ \E age \in JudgedAges(scan) : age > scan.kill
Slow(scan) == scan.beats /\ scan.kill # NotSent /\ scan.in_flight > scan.kill
LoopState(scan) ==
    IF scan.cycles = 0 THEN "not_reported"
    ELSE IF Hanging(scan) THEN "hanging"
    ELSE IF Slow(scan) THEN "slow"
    ELSE IF scan.over_kill > 0 THEN "past_deadline"
    ELSE IF scan.cycles >= MinCycles /\ 2 * scan.over_warn > scan.cycles THEN "pressure" ELSE "ok"

\* The card; before a first cycle it carries no scan, and so none of the rest.
NoCard == [state |-> "not_reported", stages |-> "not_reported", bounds_reported |-> FALSE,
           boot_over_kill |-> 0]
LoopCard ==
    IF Scan.cycles = 0 THEN NoCard
    ELSE [state |-> LoopState(Scan), stages |-> CycleStages(Scan),
          bounds_reported |-> Scan.warn # NotSent /\ Scan.kill # NotSent,
          boot_over_kill |-> Scan.boot_kill]

------------------------------------------------------------------------------
Reported == build.ages /\ build.bounds

\* The verdict follows the work.  A loop in which nothing has finished for longer
\* than the healthcheck allows reads as hanging, whatever its completed cycles looked
\* like; one that still finishes units is not called wedged by a build that beats on
\* progress, however long its cycle has run: that is "slow", never "ok"
\* (system_health.py:1231-1322).
VerdictFollowsWork ==
    (Reported /\ tally.cycles > 0) =>
        /\ idle > Kill => LoopCard.state = "hanging"
        /\ (build.beats /\ idle <= Kill) =>
              /\ LoopCard.state # "hanging"
              /\ flight > Kill => LoopCard.state = "slow"
=============================================================================
