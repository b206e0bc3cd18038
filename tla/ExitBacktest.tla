---------------------------- MODULE ExitBacktest ----------------------------
(***************************************************************************)
(* app/data_sources/exit_backtest.py: the single-slot background runner.    *)
(* start() stamps a slot file and launches an asyncio task; the task runs   *)
(* docker exec under a timeout, then copies two artifacts out of the engine *)
(* container, each under the same timeout, then settles the slot. The slot  *)
(* outlives the process, the task does not: a slot left "running" is read   *)
(* as an error past a deadline, which a task that is still copying can meet.*)
(* One worker process, as the Dockerfile runs it; start() has no await, so  *)
(* it is one step, and so is everything a task does between two awaits.     *)
(***************************************************************************)
EXTENDS Naturals, FiniteSets

CONSTANTS
    MaxJobs,      \* bound: jobs a behaviour may start
    Timeout,      \* exit_backtest_timeout_sec, in ticks
    StaleSlack,   \* _STALE_SLACK_SEC, in ticks
    WritesFail    \* may a write or an unlink on the shared volume fail?

ASSUME BacktestAssumption ==
    MaxJobs \in Nat /\ Timeout \in Nat /\ StaleSlack \in Nat /\ WritesFail \in BOOLEAN

Job == 1..MaxJobs
NoJob == 0
Deadline == Timeout + StaleSlack

VARIABLES
    slot,     \* state.json: status, the job it is about, its age, whose tail
    csv,      \* signals.csv: the job that wrote it, NoJob when absent
    md,       \* summary.md, likewise
    run,      \* the task of each job: where it waits, for how long, its csv;
              \* history: how long it has lived, while it lives
    phantom,  \* history: jobs reported started whose slot never landed
    beside,   \* history: the tasks in flight when each job was started
    left      \* history: whose files its start failed to unlink

backtestVars == <<slot, csv, md, run, phantom, beside, left>>

InFlight(j) == run[j].at \in {"exec", "csv", "md"}

BacktestTypeOK ==
    /\ slot \in [status : {"idle", "running", "done", "error"},
                 job : Job \cup {NoJob}, age : 0..(Deadline + 1),
                 tail : Job \cup {NoJob}]
    /\ csv \in Job \cup {NoJob} /\ md \in Job \cup {NoJob}
    /\ run \in [Job -> [at : {"unused", "exec", "csv", "md", "ended"},
                        waited : 0..Timeout, csv : BOOLEAN, life : 0..(Deadline + 1)]]
    /\ phantom \subseteq Job
    /\ beside \in [Job -> SUBSET Job] /\ left \in [Job -> SUBSET Job]

BacktestInit ==
    /\ slot = [status |-> "idle", job |-> NoJob, age |-> 0, tail |-> NoJob]
    /\ csv = NoJob /\ md = NoJob
    /\ run = [j \in Job |-> [at |-> "unused", waited |-> 0, csv |-> FALSE, life |-> 0]]
    /\ phantom = {}
    /\ beside = [j \in Job |-> {}] /\ left = [j \in Job |-> {}]

StaleAtTimeout == slot.age > Timeout
StaleNever == FALSE

\* What snapshot() shows: past the deadline a running slot is an error.
Stale == slot.age > Deadline
Running == slot.status = "running" /\ ~Stale

\* _write_raw logs a failed write and goes on; so does start() an unlink.
WriteSlot(new) == slot' \in {new} \cup (IF WritesFail THEN {slot} ELSE {})
WriteArtifact(old, j, got) ==
    IF got THEN {j} \cup (IF WritesFail THEN {old} ELSE {}) ELSE {old}
Unlink(old) == {NoJob} \cup (IF WritesFail THEN {old} ELSE {})

Goto(j, at, got) ==
    run' = [run EXCEPT ![j] = [@ EXCEPT !.at = at, !.waited = 0, !.csv = got]]

Finished == [at |-> "ended", waited |-> 0, csv |-> FALSE, life |-> 0]
End(j) == run' = [run EXCEPT ![j] = Finished]

\* start() once the slot is free: stamp it, then believe whatever says "running".
Stamp(j) ==
    /\ run[j].at = "unused" /\ \A i \in 1..(j - 1) : run[i].at # "unused"
    /\ ~Running
    /\ WriteSlot([status |-> "running", job |-> j, age |-> 0, tail |-> NoJob])
    /\ IF slot'.status = "running"
          THEN Goto(j, "exec", FALSE)
          ELSE UNCHANGED run
    /\ phantom' = IF slot'.status = "running" /\ slot'.job # j
                     THEN phantom \cup {j} ELSE phantom
    /\ beside' = [beside EXCEPT ![j] = {i \in Job : InFlight(i)}]

\* A start that does not unlink the artifacts.
StartKeepingArtifacts(j) == Stamp(j) /\ UNCHANGED <<csv, md, left>>

Start(j) ==
    /\ Stamp(j)
    /\ csv' \in Unlink(csv) /\ md' \in Unlink(md)
    /\ left' = [left EXCEPT ![j] = {csv', md'} \ {NoJob}]

\* _write_progress, from the stderr pump of the running script.
ProgressUnchecked(j) ==
    /\ run[j].at = "exec"
    /\ WriteSlot([slot EXCEPT !.tail = j])
    /\ UNCHANGED <<csv, md, run, phantom, beside, left>>

Progress(j) ==
    /\ run[j].at = "exec"
    /\ slot.status = "running"
    /\ WriteSlot([slot EXCEPT !.tail = j])
    /\ UNCHANGED <<csv, md, run, phantom, beside, left>>

Settle(j, status) ==
    WriteSlot([slot EXCEPT !.status = status, !.job = j, !.tail = NoJob])

ExecSucceeds(j) ==
    /\ run[j].at = "exec"
    /\ Goto(j, "csv", FALSE)
    /\ UNCHANGED <<slot, csv, md, phantom, beside, left>>

\* An error path without its return.
ExecFailsOn(j) ==
    /\ run[j].at = "exec"
    /\ Settle(j, "error")
    /\ Goto(j, "csv", FALSE)
    /\ UNCHANGED <<csv, md, phantom, beside, left>>

\* Killed on timeout, no docker binary, or a non-zero exit.
ExecFails(j) ==
    /\ run[j].at = "exec"
    /\ Settle(j, "error")
    /\ End(j)
    /\ UNCHANGED <<csv, md, phantom, beside, left>>

\* _cat answers None when docker fails or times out.
CatCsv(j) ==
    /\ run[j].at = "csv"
    /\ \E got \in BOOLEAN : Goto(j, "md", got)
    /\ UNCHANGED <<slot, csv, md, phantom, beside, left>>

CatMd(j) ==
    /\ run[j].at = "md"
    /\ csv' \in WriteArtifact(csv, j, run[j].csv)
    /\ \E got \in BOOLEAN : md' \in WriteArtifact(md, j, got)
    /\ Settle(j, "done")
    /\ End(j)
    /\ UNCHANGED <<phantom, beside, left>>

\* The worker dies and comes back: its tasks are gone, the volume is not.
WorkerRestart ==
    /\ run' = [j \in Job |-> IF InFlight(j) THEN Finished ELSE run[j]]
    /\ UNCHANGED <<slot, csv, md, phantom, beside, left>>

\* One tick of the clock. Ages and lives stop once past the deadline (a bound).
Older(age) == IF age > Deadline THEN age ELSE age + 1

Elapse ==
    /\ slot' = IF slot.status = "running" THEN [slot EXCEPT !.age = Older(@)] ELSE slot
    /\ run' = [j \in Job |->
                 IF InFlight(j)
                 THEN [run[j] EXCEPT !.waited = @ + 1, !.life = Older(@)]
                 ELSE run[j]]
    /\ UNCHANGED <<csv, md, phantom, beside, left>>

\* Time does not run past a wait's timeout: wait_for ends it. All three waits,
\* the copies' too, have the whole of it.
BacktestTick == (\A j \in Job : InFlight(j) => run[j].waited < Timeout) /\ Elapse

TaskStep(j) == ExecSucceeds(j) \/ ExecFails(j) \/ CatCsv(j) \/ CatMd(j)

BacktestNext ==
    \/ \E j \in Job : Start(j) \/ Progress(j) \/ TaskStep(j)
    \/ WorkerRestart
    \/ BacktestTick

BacktestSpec == BacktestInit /\ [][BacktestNext]_backtestVars
WaitsEnd == BacktestTick \/ \E j \in Job : TaskStep(j)
FairBacktest == BacktestSpec /\ WF_backtestVars(WaitsEnd)

-----------------------------------------------------------------------------
\* The tasks whose slot may not be theirs: still in flight past the deadline, or
\* started on the word of another job's record.
Disowned(j) == j \in phantom \/ run[j].life > Deadline

\* Two jobs whose tasks were in flight together.
Overlapped(i, j) == i \in beside[j] \/ j \in beside[i]

\* start "refuses if ... one is already in flight" (exit_backtest.py:330). What the
\* code does: a task is joined by a newer one only if it has outlasted the deadline
\* or was launched on another job's record, or if it was itself started beside an
\* older task. However long the copies take, whatever dies or fails to be written.
OneInFlight ==
    \A i, j \in Job : i < j /\ InFlight(i) /\ InFlight(j) => Disowned(i) \/ beside[i] # {}

\* The downloads a finished run offers are that run's own, or those of a task that
\* was in flight beside it, or a file its start could not unlink: never those of an
\* earlier run that merely came before (:341-345, the writes at :469-475).
DoneIsOwn ==
    slot.status = "done" =>
        \A k \in {csv, md} \ {NoJob} :
            k = slot.job \/ Overlapped(k, slot.job) \/ k \in left[slot.job]

\* A settled slot is only ever replaced by a newer job's start, or by the verdict
\* of a task that was in flight beside the job it was about: no pump, error path or
\* late task of any other job rewrites the verdict that was read (:422-428,
\* 437-507).
VerdictStands ==
    [][slot.status \in {"done", "error"} /\ slot' # slot
         => \/ slot'.status = "running" /\ slot'.job > slot.job
            \/ slot'.status # "running" /\ Overlapped(slot'.job, slot.job)]_backtestVars

\* The page never spins forever, whatever died or failed to be written
\* (:308-316).
NeverStuck == []<>~Running

\* Start's docstring taken at its word (:330): one task in flight at most.
RefusesWhileInFlight == \A i, j \in Job : InFlight(i) /\ InFlight(j) => i = j
=============================================================================
