------------------------- MODULE ExitBacktestProofs -------------------------
(***************************************************************************)
(* For any number of jobs and any timeouts, whatever dies, hangs or fails   *)
(* to be written: a task owns the slot until it outlasts the deadline, so   *)
(* only such a task is ever joined by another, and only tasks that were in  *)
(* flight together can touch each other's verdict and downloads.            *)
(***************************************************************************)
EXTENDS ExitBacktest, TLAPS

Waits == {"exec", "csv", "md"}
Settled == slot.status \in {"done", "error"}

\* A task in flight that neither outlasted the deadline nor was launched on another
\* job's record, and that was alone when it started: still alone, and the slot's.
Clean(j) == InFlight(j) /\ ~Disowned(j) /\ beside[j] = {}

Owned ==
    \A i \in Job : Clean(i) =>
        /\ slot.status = "running" /\ slot.job = i /\ slot.age <= run[i].life
        /\ \A j \in Job : InFlight(j) => j = i

\* Jobs are started in order; the slot and the files name jobs that were started.
Begun(k) == k \in Job /\ run[k].at # "unused"

InOrder ==
    /\ \A i, j \in Job : i < j /\ Begun(j) => Begun(i)
    /\ slot.status # "idle" => slot.job # NoJob
    /\ \A k \in {slot.job, csv, md} \ {NoJob} : Begun(k)

\* Tasks in flight together have met, also when one has just settled the slot.
Meetings ==
    /\ \A i, j \in Job : i # j /\ InFlight(i) /\ InFlight(j) => Overlapped(i, j)
    /\ Settled => \A j \in Job : InFlight(j) => Overlapped(j, slot.job)

\* Whose files a task may find beside its own.
Beside(j) == \A k \in {csv, md} \ {NoJob} : k = j \/ Overlapped(k, j) \/ k \in left[j]

Files == \A j \in Job : InFlight(j) => Beside(j)

Inv == BacktestTypeOK /\ Owned /\ InOrder /\ Meetings /\ Files /\ DoneIsOwn

TaskType == [at : {"unused", "exec", "csv", "md", "ended"},
             waited : 0..Timeout, csv : BOOLEAN, life : 0..(Deadline + 1)]
SlotType == [status : {"idle", "running", "done", "error"},
             job : Job \cup {NoJob}, age : 0..(Deadline + 1), tail : Job \cup {NoJob}]

LEMMA Sizes ==
    /\ Deadline \in Nat /\ Timeout \in Nat /\ NoJob \notin Job /\ Job \subseteq Nat
    /\ 0 \in 0..(Deadline + 1) /\ 0 \in 0..Timeout
BY BacktestAssumption DEF Deadline, Job, NoJob

LEMMA InitInv == BacktestInit => Inv
<1> SUFFICES ASSUME BacktestInit PROVE Inv OBVIOUS
<1>1. BacktestTypeOK BY Sizes DEF BacktestInit, BacktestTypeOK
<1>2. \A j \in Job : ~InFlight(j) BY DEF BacktestInit, InFlight
<1>3. InOrder BY DEF BacktestInit, InOrder, Begun
<1>4. DoneIsOwn BY DEF BacktestInit, DoneIsOwn
<1> QED BY <1>1, <1>2, <1>3, <1>4 DEF Inv, Owned, Clean, Meetings, Files, Settled, BacktestInit

-----------------------------------------------------------------------------
(* What each kind of step does to the tasks.                               *)

LEMMA GotoIs ==
    ASSUME BacktestTypeOK, NEW j \in Job, InFlight(j) \/ run[j].at = "unused",
           NEW at \in Waits, NEW got \in BOOLEAN, Goto(j, at, got)
    PROVE  /\ run' \in [Job -> TaskType]
           /\ \A k \in Job \ {j} : run'[k] = run[k]
           /\ run'[j].at = at /\ run'[j].life = run[j].life
<1> DEFINE task == [run[j] EXCEPT !.at = at, !.waited = 0, !.csv = got]
<1>1. run' = [run EXCEPT ![j] = task] BY DEF Goto
<1>2. run \in [Job -> TaskType] BY DEF BacktestTypeOK, TaskType
<1>3. run[j] \in TaskType BY <1>2
<1>4. task \in TaskType /\ task.at = at /\ task.life = run[j].life
  BY <1>3, Sizes DEF TaskType, Waits
<1> QED BY <1>1, <1>2, <1>4

LEMMA EndIs ==
    ASSUME BacktestTypeOK, NEW j \in Job, End(j)
    PROVE  /\ run' \in [Job -> TaskType]
           /\ \A k \in Job \ {j} : run'[k] = run[k]
           /\ run'[j] = Finished
<1>1. run \in [Job -> TaskType] BY DEF BacktestTypeOK, TaskType
<1>2. Finished \in TaskType BY Sizes DEF Finished, TaskType
<1> QED BY <1>1, <1>2 DEF End

LEMMA TypeIs ==
    BacktestTypeOK <=>
        /\ slot \in SlotType /\ csv \in Job \cup {NoJob} /\ md \in Job \cup {NoJob}
        /\ run \in [Job -> TaskType] /\ phantom \subseteq Job
        /\ beside \in [Job -> SUBSET Job] /\ left \in [Job -> SUBSET Job]
BY DEF BacktestTypeOK, SlotType, TaskType

\* A clean task's slot is not stale, so start() refuses.
LEMMA CleanIsRunning == ASSUME Inv, NEW i \in Job, Clean(i) PROVE Running
<1>1. run[i].life \in 0..(Deadline + 1) /\ slot.age \in 0..(Deadline + 1)
  BY DEF Inv, BacktestTypeOK
<1> QED BY <1>1, Sizes DEF Inv, Owned, Clean, Disowned, Running, Stale

-----------------------------------------------------------------------------
\* start() keeps the invariant: past its test no clean task is in flight.
LEMMA StartKeeps ==
    ASSUME Inv, NEW j \in Job, Start(j)
    PROVE  Inv'
<1> USE DEF Inv
<1> DEFINE new == [status |-> "running", job |-> j, age |-> 0, tail |-> NoJob]
<1>0. Stamp(j) /\ run[j].at = "unused" /\ ~Running BY DEF Start, Stamp
<1>1. slot' \in {new, slot} BY DEF Start, Stamp, WriteSlot
<1>2. csv' \in {csv, NoJob} /\ md' \in {md, NoJob} BY DEF Start, Unlink
<1>3. \/ slot'.status = "running" /\ Goto(j, "exec", FALSE)
      \/ slot'.status # "running" /\ run' = run
  BY <1>0 DEF Stamp
<1>4. phantom \subseteq phantom' /\ phantom' \subseteq phantom \cup {j} BY <1>0 DEF Stamp
<1>5. /\ beside' = [beside EXCEPT ![j] = {i \in Job : InFlight(i)}]
      /\ left' = [left EXCEPT ![j] = {csv', md'} \ {NoJob}]
  BY DEF Start, Stamp
<1>6. /\ run' \in [Job -> TaskType]
      /\ \A k \in Job \ {j} : run'[k] = run[k]
      /\ run' # run => run'[j].at = "exec"
  <2>1. run \in [Job -> TaskType] BY DEF BacktestTypeOK, TaskType
  <2>2. CASE run' = run BY <2>1, <2>2
  <2>3. CASE Goto(j, "exec", FALSE) BY <2>3, <1>0, GotoIs DEF Waits
  <2> QED BY <1>3, <2>2, <2>3
<1>7. ~InFlight(j) BY <1>0 DEF InFlight
<1>8. \A k \in Job \ {j} : /\ InFlight(k)' <=> InFlight(k)
                           /\ Begun(k)' <=> Begun(k)
                           /\ beside'[k] = beside[k] /\ left'[k] = left[k]
                           /\ run'[k] = run[k]
  BY <1>5, <1>6 DEF InFlight, Begun, BacktestTypeOK
<1>9. beside'[j] = {i \in Job : InFlight(i)} /\ left'[j] = {csv', md'} \ {NoJob}
  BY <1>5 DEF BacktestTypeOK
<1>10. InFlight(j)' => slot'.status = "running"
  BY <1>3, <1>7 DEF InFlight
<1>11. BacktestTypeOK'
  <2>1. new \in SlotType BY Sizes DEF SlotType
  <2>2. slot' \in SlotType BY <1>1, <2>1 DEF BacktestTypeOK, SlotType
  <2>3. csv' \in Job \cup {NoJob} /\ md' \in Job \cup {NoJob}
    BY <1>2 DEF BacktestTypeOK
  <2>4. phantom' \subseteq Job BY <1>4 DEF BacktestTypeOK
  <2>5. beside' \in [Job -> SUBSET Job] BY <1>5 DEF BacktestTypeOK
  <2>6. {csv', md'} \ {NoJob} \subseteq Job BY <2>3
  <2>7. left' \in [Job -> SUBSET Job] BY <1>5, <2>6 DEF BacktestTypeOK
  <2> QED BY <2>2, <2>3, <2>4, <2>5, <2>7, <1>6 DEF BacktestTypeOK, SlotType, TaskType
<1>12. Owned'
  <2> SUFFICES ASSUME NEW i \in Job, Clean(i)'
               PROVE  /\ slot'.status = "running" /\ slot'.job = i
                      /\ slot'.age <= run'[i].life
                      /\ \A k \in Job : InFlight(k)' => k = i
    BY DEF Owned
  <2>1. \A k \in Job : ~Clean(k) BY <1>0, CleanIsRunning
  <2>2. i = j
    <3>1. CASE i # j
      <4>1. Clean(i) BY <3>1, <1>4, <1>8 DEF Clean, Disowned
      <4> QED BY <4>1, <2>1
    <3> QED BY <3>1
  <2>3. \A k \in Job : ~InFlight(k) BY <2>2, <1>9 DEF Clean
  <2>4. slot'.status = "running" BY <2>2, <1>10 DEF Clean
  <2>5. slot'.job = j BY <2>2, <2>4, <1>0 DEF Clean, Disowned, Stamp
  <2>6. slot.job # j BY <1>0, Sizes DEF InOrder, Begun
  <2>7. slot' = new BY <1>1, <2>5, <2>6
  <2>8. run'[j].life \in 0..(Deadline + 1) BY <1>6 DEF TaskType
  <2> QED BY <2>2, <2>3, <2>7, <2>8, <1>8, Sizes
<1>13. Begun(j)' \/ run' = run BY <1>6 DEF Begun
<1>14. InOrder'
  <2>1. \A i \in Job : i < j => Begun(i)
    <3> SUFFICES ASSUME NEW i \in Job, i < j PROVE Begun(i) OBVIOUS
    <3>1. i \in 1..(j - 1) BY BacktestAssumption DEF Job
    <3> QED BY <3>1, <1>0 DEF Stamp, Begun
  <2>2. \A k \in Job : Begun(k) => k # j /\ Begun(k)' BY <1>0, <1>8 DEF Begun
  <2>3. \A i, k \in Job : i < k /\ Begun(k)' => Begun(i)'
    <3> SUFFICES ASSUME NEW i \in Job, NEW k \in Job, i < k, Begun(k)'
                 PROVE  Begun(i)'
      OBVIOUS
    <3>1. CASE k = j BY <3>1, <2>1, <2>2
    <3>2. CASE k # j
      <4>1. Begun(k) BY <3>2, <1>8
      <4> QED BY <4>1, <2>2 DEF InOrder
    <3> QED BY <3>1, <3>2
  <2>4. slot'.status # "idle" => slot'.job # NoJob BY <1>1, Sizes DEF InOrder
  <2>5. ASSUME NEW k \in {slot', new} , slot' = new PROVE Begun(j)'
    BY <2>5, <1>3, <1>6, GotoIs, <1>0 DEF Begun, Waits
  <2>6. \A k \in {slot'.job, csv', md'} \ {NoJob} : Begun(k)'
    <3>1. \A k \in {slot.job, csv, md} \ {NoJob} : k \in Job /\ Begun(k)'
      BY <2>2 DEF InOrder, Begun
    <3> QED BY <3>1, <2>5, <1>1, <1>2
  <2> QED BY <2>3, <2>4, <2>6 DEF InOrder
<1>15. \A i, k \in Job : Begun(i) /\ Begun(k) => (Overlapped(i, k)' <=> Overlapped(i, k))
  BY <1>0, <1>8 DEF Overlapped, Begun
<1>16. \A k \in Job : InFlight(k) => Begun(k) BY DEF InFlight, Begun
<1>17. Meetings'
  <2>1. \A i, k \in Job : i # k /\ InFlight(i)' /\ InFlight(k)' => Overlapped(i, k)'
    <3> SUFFICES ASSUME NEW i \in Job, NEW k \in Job, i # k, InFlight(i)', InFlight(k)'
                 PROVE  Overlapped(i, k)'
      OBVIOUS
    <3>1. CASE i # j /\ k # j
      BY <3>1, <1>8, <1>15, <1>16 DEF Meetings
    <3>2. CASE i = j BY <3>2, <1>8, <1>9 DEF Overlapped
    <3>3. CASE k = j BY <3>3, <1>8, <1>9 DEF Overlapped
    <3> QED BY <3>1, <3>2, <3>3
  <2>2. Settled' => \A k \in Job : InFlight(k)' => Overlapped(k, slot.job)' /\ slot' = slot
    <3> SUFFICES ASSUME Settled', NEW k \in Job, InFlight(k)'
                 PROVE  Overlapped(k, slot.job)' /\ slot' = slot
      OBVIOUS
    <3>1. slot' = slot /\ slot'.status # "running" BY <1>1 DEF Settled
    <3>2. k # j /\ InFlight(k) BY <3>1, <1>8, <1>10
    <3>3. Begun(slot.job) /\ slot.job \in Job BY <3>1 DEF InOrder, Settled, Begun
    <3>4. Overlapped(k, slot.job) BY <3>1, <3>2 DEF Meetings, Settled
    <3>5. Begun(k) BY <3>2, <1>16
    <3> QED BY <3>1, <3>3, <3>4, <3>5, <1>15
  <2> QED BY <2>1, <2>2 DEF Meetings
<1>18. \A k \in Job : Begun(k) /\ Beside(k) => Beside(k)'
  BY <1>2, <1>0, <1>8, <1>15 DEF Beside, InOrder, Begun
<1>19. Files'
  <2> SUFFICES ASSUME NEW k \in Job, InFlight(k)' PROVE Beside(k)' BY DEF Files
  <2>1. CASE k = j BY <2>1, <1>9 DEF Beside
  <2>2. CASE k # j BY <2>2, <1>8, <1>16, <1>18 DEF Files
  <2> QED BY <2>1, <2>2
<1>20. DoneIsOwn'
  <2> SUFFICES ASSUME slot.status = "done", slot' = slot PROVE DoneIsOwn'
    BY <1>1 DEF DoneIsOwn
  <2>1. PICK s \in Job : s = slot.job /\ Begun(s) BY DEF InOrder, Begun
  <2>2. Beside(s)' BY <2>1, <1>18 DEF DoneIsOwn, Beside
  <2> QED BY <2>1, <2>2 DEF DoneIsOwn, Beside
<1> QED BY <1>11, <1>12, <1>14, <1>17, <1>19, <1>20

\* A change of the slot that keeps its status "running", its job and its age.
LEMMA ProgressKeeps ==
    ASSUME Inv, NEW j \in Job, Progress(j)
    PROVE  Inv'
<1> USE DEF Inv
<1>1. slot' = slot \/ slot' = [slot EXCEPT !.tail = j]
  BY DEF Progress, WriteSlot
<1>2. UNCHANGED <<csv, md, run, phantom, beside, left>> /\ slot.status = "running"
  BY DEF Progress
<1>3. slot \in SlotType BY DEF BacktestTypeOK, SlotType
<1>4. /\ slot'.status = slot.status /\ slot'.job = slot.job /\ slot'.age = slot.age
      /\ slot' \in SlotType
  BY <1>1, <1>3 DEF SlotType
<1>5. BacktestTypeOK' BY <1>2, <1>4 DEF BacktestTypeOK, SlotType
<1>6. Owned' BY <1>2, <1>4 DEF Owned, Clean, InFlight, Disowned
<1>7. InOrder' BY <1>2, <1>4 DEF InOrder, Begun
<1>8. Meetings' BY <1>2, <1>4 DEF Meetings, InFlight, Overlapped, Settled
<1>9. Files' BY <1>2 DEF Files, InFlight, Beside, Overlapped
<1>10. DoneIsOwn' BY <1>2, <1>4 DEF DoneIsOwn
<1> QED BY <1>5, <1>6, <1>7, <1>8, <1>9, <1>10

\* Moving a task from one wait to the next, the slot untouched.
LEMMA WaitEndsKeeps ==
    ASSUME Inv, NEW j \in Job, InFlight(j), NEW at \in Waits, NEW got \in BOOLEAN,
           Goto(j, at, got), UNCHANGED <<slot, csv, md, phantom, beside, left>>
    PROVE  Inv'
<1> USE DEF Inv
<1>1. /\ run' \in [Job -> TaskType]
      /\ \A k \in Job \ {j} : run'[k] = run[k]
      /\ run'[j].at = at /\ run'[j].life = run[j].life
  BY GotoIs
<1>2. \A k \in Job : /\ InFlight(k)' <=> InFlight(k)
                     /\ Begun(k)' <=> Begun(k)
                     /\ run'[k].life = run[k].life
  BY <1>1 DEF InFlight, Begun, Waits
<1>3. BacktestTypeOK' BY <1>1 DEF BacktestTypeOK, TaskType
<1>4. Owned' BY <1>2 DEF Owned, Clean, Disowned
<1>5. InOrder'
  <2>1. \A k \in {slot.job, csv, md} \ {NoJob} : k \in Job BY DEF InOrder, Begun
  <2> QED BY <2>1, <1>2 DEF InOrder
<1>6. Meetings' BY <1>2 DEF Meetings, Overlapped, Settled
<1>7. Files' BY <1>2 DEF Files, Beside, Overlapped
<1>8. DoneIsOwn' BY DEF DoneIsOwn, Overlapped
<1> QED BY <1>3, <1>4, <1>5, <1>6, <1>7, <1>8

\* Settling the slot, perhaps writing the artifacts, as the task ends.
LEMMA SettleKeeps ==
    ASSUME Inv, NEW j \in Job, InFlight(j), NEW status \in {"error", "done"},
           Settle(j, status), End(j), UNCHANGED <<phantom, beside, left>>,
           csv' \in {csv, j}, md' \in {md, j}
    PROVE  Inv'
<1> USE DEF Inv
<1> DEFINE new == [slot EXCEPT !.status = status, !.job = j, !.tail = NoJob]
<1>1. slot' \in {new, slot} BY DEF Settle, WriteSlot
<1>2. slot \in SlotType BY DEF BacktestTypeOK, SlotType
<1>3. new \in SlotType /\ new.status = status /\ new.job = j BY <1>2 DEF SlotType
<1> HIDE DEF new
<1>4. /\ run' \in [Job -> TaskType]
      /\ \A k \in Job \ {j} : run'[k] = run[k]
      /\ run'[j].at = "ended"
  BY EndIs DEF Finished
<1>5. /\ \A k \in Job : InFlight(k)' => k # j /\ InFlight(k) /\ run'[k] = run[k]
      /\ \A k \in Job : Begun(k) <=> Begun(k)'
  BY <1>4 DEF InFlight, Begun
<1>6. Begun(j) BY DEF InFlight, Begun
<1>7. BacktestTypeOK' BY <1>1, <1>2, <1>3, <1>4 DEF BacktestTypeOK, SlotType, TaskType
<1>8. Owned'
  <2> SUFFICES ASSUME NEW i \in Job, Clean(i)' PROVE FALSE BY DEF Owned
  <2>1. i # j /\ Clean(i) BY <1>5 DEF Clean, Disowned
  <2> QED BY <2>1 DEF Owned
<1>9. InOrder'
  <2>1. \A k \in {slot'.job, csv', md'} \ {NoJob} : Begun(k)
    BY <1>1, <1>3, <1>6 DEF InOrder
  <2>2. \A k \in {slot'.job, csv', md'} \ {NoJob} : Begun(k)'
    BY <2>1, <1>5 DEF Begun
  <2>3. slot'.status # "idle" => slot'.job # NoJob
    BY <1>1, <1>3, Sizes DEF InOrder
  <2> QED BY <2>2, <2>3, <1>5 DEF InOrder
<1>10. \A k \in Job : InFlight(k)' => Overlapped(k, j) /\ Overlapped(j, k) BY <1>5 DEF Meetings
<1>11. Meetings'
  <2>1. \A i, k \in Job : i # k /\ InFlight(i)' /\ InFlight(k)' => Overlapped(i, k)'
    BY <1>5 DEF Meetings, Overlapped
  <2>2. Settled' => \A k \in Job : InFlight(k)' => Overlapped(k, slot'.job)
    BY <1>1, <1>3, <1>5, <1>10 DEF Meetings, Settled
  <2> QED BY <2>1, <2>2 DEF Meetings, Overlapped
<1>12. Files'
  <2> SUFFICES ASSUME NEW k \in Job, InFlight(k)' PROVE Beside(k)' BY DEF Files
  <2> QED BY <1>5, <1>10 DEF Files, Beside, Overlapped
<1>13. DoneIsOwn'
  <2>1. CASE slot' = new
    <3>1. Beside(j) BY DEF Files
    <3> QED BY <2>1, <1>3, <3>1 DEF DoneIsOwn, Beside, Overlapped
  <2>2. CASE slot' = slot
    <3>1. slot.status = "done" => Overlapped(j, slot.job) BY DEF Meetings, Settled
    <3> QED BY <2>2, <3>1 DEF DoneIsOwn, Overlapped
  <2> QED BY <1>1, <2>1, <2>2
<1> QED BY <1>7, <1>8, <1>9, <1>11, <1>12, <1>13

LEMMA TickKeeps == ASSUME Inv, BacktestTick PROVE Inv'
<1> USE DEF Inv
<1>1. UNCHANGED <<csv, md, phantom, beside, left>> BY DEF BacktestTick, Elapse
<1>2. slot \in SlotType /\ run \in [Job -> TaskType]
  BY DEF BacktestTypeOK, SlotType, TaskType
<1>3. \A age \in 0..(Deadline + 1) : Older(age) \in 0..(Deadline + 1) /\ age <= Older(age)
  BY Sizes DEF Older
<1>4. \A a, b \in 0..(Deadline + 1) : a <= b => Older(a) <= Older(b)
  BY Sizes DEF Older
<1>5. /\ slot' \in SlotType /\ slot'.status = slot.status /\ slot'.job = slot.job
      /\ slot'.age = IF slot.status = "running" THEN Older(slot.age) ELSE slot.age
      /\ slot.status # "running" => slot' = slot
  BY <1>2, <1>3 DEF BacktestTick, Elapse, SlotType
<1>6. \A k \in Job : InFlight(k) => run[k].waited + 1 \in 0..Timeout
  BY <1>2, Sizes DEF BacktestTick, TaskType
<1>7. run' \in [Job -> TaskType]
  <2> SUFFICES ASSUME NEW k \in Job
               PROVE  (IF InFlight(k)
                       THEN [run[k] EXCEPT !.waited = @ + 1, !.life = Older(@)]
                       ELSE run[k]) \in TaskType
    BY DEF BacktestTick, Elapse
  <2> QED BY <1>2, <1>3, <1>6 DEF TaskType
<1>8. \A k \in Job : /\ run'[k].at = run[k].at
                     /\ InFlight(k) => run'[k].life = Older(run[k].life)
  BY <1>2 DEF BacktestTick, Elapse, TaskType
<1>9. \A k \in Job : (InFlight(k)' <=> InFlight(k)) /\ (Begun(k)' <=> Begun(k))
  BY <1>8 DEF InFlight, Begun
<1>10. BacktestTypeOK' BY <1>1, <1>5, <1>7 DEF BacktestTypeOK, SlotType, TaskType
<1>11. Owned'
  <2> SUFFICES ASSUME NEW i \in Job, Clean(i)'
               PROVE  /\ slot'.status = "running" /\ slot'.job = i
                      /\ slot'.age <= run'[i].life
                      /\ \A k \in Job : InFlight(k)' => k = i
    BY DEF Owned
  <2>1. run[i].life \in 0..(Deadline + 1) /\ slot.age \in 0..(Deadline + 1)
    BY <1>2 DEF TaskType, SlotType
  <2>2. InFlight(i) /\ run'[i].life = Older(run[i].life) BY <1>8, <1>9 DEF Clean
  <2>3. run[i].life <= Deadline
    BY <2>1, <2>2, <1>3, Sizes DEF Clean, Disowned, Older
  <2>4. Clean(i)
    BY <2>1, <2>2, <2>3, <1>1, Sizes DEF Clean, Disowned
  <2> QED BY <2>1, <2>2, <2>4, <1>4, <1>5, <1>9 DEF Owned
<1>12. InOrder'
  <2>1. \A k \in {slot.job, csv, md} \ {NoJob} : k \in Job BY DEF InOrder, Begun
  <2> QED BY <2>1, <1>1, <1>5, <1>9 DEF InOrder
<1>13. Meetings' BY <1>1, <1>5, <1>9 DEF Meetings, Overlapped, Settled
<1>14. Files' BY <1>1, <1>9 DEF Files, Beside, Overlapped
<1>15. DoneIsOwn' BY <1>1, <1>5 DEF DoneIsOwn, Overlapped
<1> QED BY <1>10, <1>11, <1>12, <1>13, <1>14, <1>15

LEMMA RestartKeeps == ASSUME Inv, WorkerRestart PROVE Inv'
<1> USE DEF Inv
<1>1. UNCHANGED <<slot, csv, md, phantom, beside, left>> BY DEF WorkerRestart
<1>2. run \in [Job -> TaskType] BY DEF BacktestTypeOK, TaskType
<1>3. Finished \in TaskType BY Sizes DEF Finished, TaskType
<1>4. run' \in [Job -> TaskType] BY <1>2, <1>3 DEF WorkerRestart
<1>5. \A k \in Job : ~InFlight(k)' /\ (Begun(k)' <=> Begun(k))
  BY <1>2 DEF WorkerRestart, InFlight, Begun, Finished
<1>6. BacktestTypeOK' BY <1>1, <1>4 DEF BacktestTypeOK, TaskType
<1>7. InOrder'
  <2>1. \A k \in {slot.job, csv, md} \ {NoJob} : k \in Job BY DEF InOrder, Begun
  <2> QED BY <2>1, <1>1, <1>5 DEF InOrder
<1>8. Owned' /\ Meetings' /\ Files'
  BY <1>1, <1>5 DEF Owned, Clean, Meetings, Settled, Files
<1>9. DoneIsOwn' BY <1>1 DEF DoneIsOwn, Overlapped
<1> QED BY <1>6, <1>7, <1>8, <1>9

-----------------------------------------------------------------------------
LEMMA StepKeepsInv == Inv /\ [BacktestNext]_backtestVars => Inv'
<1> SUFFICES ASSUME Inv, [BacktestNext]_backtestVars PROVE Inv' OBVIOUS
<1>1. ASSUME NEW j \in Job, Start(j) PROVE Inv' BY <1>1, StartKeeps
<1>2. ASSUME NEW j \in Job, Progress(j) PROVE Inv' BY <1>2, ProgressKeeps
<1>3. ASSUME NEW j \in Job, ExecSucceeds(j) PROVE Inv'
  BY <1>3, WaitEndsKeeps DEF ExecSucceeds, InFlight, Waits
<1>4. ASSUME NEW j \in Job, ExecFails(j) PROVE Inv'
  BY <1>4, SettleKeeps DEF ExecFails, InFlight
<1>5. ASSUME NEW j \in Job, CatCsv(j) PROVE Inv'
  <2>1. PICK got \in BOOLEAN : Goto(j, "md", got) BY <1>5 DEF CatCsv
  <2> QED BY <1>5, <2>1, WaitEndsKeeps DEF CatCsv, InFlight, Waits
<1>6. ASSUME NEW j \in Job, CatMd(j) PROVE Inv'
  <2>1. csv' \in {csv, j} /\ md' \in {md, j} BY <1>6 DEF CatMd, WriteArtifact
  <2> QED BY <1>6, <2>1, SettleKeeps DEF CatMd, InFlight
<1>7. CASE WorkerRestart BY <1>7, RestartKeeps
<1>8. CASE BacktestTick BY <1>8, TickKeeps
<1>9. CASE UNCHANGED backtestVars
  <2>1. BacktestTypeOK' BY <1>9 DEF backtestVars, Inv, BacktestTypeOK
  <2>2. Owned' /\ InOrder'
    BY <1>9 DEF backtestVars, Inv, Owned, Clean, Disowned, InFlight, InOrder, Begun
  <2>3. Meetings' /\ Files' /\ DoneIsOwn'
    BY <1>9 DEF backtestVars, Inv, Meetings, Settled, InFlight, Overlapped, Files, Beside, DoneIsOwn
  <2> QED BY <2>1, <2>2, <2>3 DEF Inv
<1> QED BY <1>1, <1>2, <1>3, <1>4, <1>5, <1>6, <1>7, <1>8, <1>9 DEF BacktestNext, TaskStep

\* Every state is well formed, and no wait outlasts its timeout.
THEOREM TypeCorrect == BacktestSpec => []BacktestTypeOK
<1>1. Inv => BacktestTypeOK BY DEF Inv
<1> QED BY <1>1, InitInv, StepKeepsInv, PTL DEF BacktestSpec

\* A task is joined by a newer one only if it outlasted the deadline, was launched on
\* another job's record, or was started beside an older task (start's docstring,
\* :330): for any timeout, slack and number of jobs, however long the copies take,
\* whatever dies or fails to be written.
THEOREM OnlyDisownedAreJoined == BacktestSpec => []OneInFlight
<1>1. Inv => OneInFlight
  <2> SUFFICES ASSUME Inv, NEW i \in Job, NEW j \in Job, i < j, InFlight(i), InFlight(j),
                      ~Disowned(i), beside[i] = {}
               PROVE  FALSE
    BY DEF OneInFlight
  <2>1. Clean(i) BY DEF Clean
  <2>2. j = i BY <2>1 DEF Inv, Owned
  <2> QED BY <2>2, Sizes
<1> QED BY <1>1, InitInv, StepKeepsInv, PTL DEF BacktestSpec

\* The downloads of a finished run are its own, those of a task that was in flight
\* beside it, or a file its start could not unlink (:341-345, :469-475).
THEOREM DownloadsAreOwn == BacktestSpec => []DoneIsOwn
<1>1. Inv => DoneIsOwn BY DEF Inv
<1> QED BY <1>1, InitInv, StepKeepsInv, PTL DEF BacktestSpec

\* A verdict once written is replaced only by the start of a newer job, or by the
\* verdict of a task that was in flight beside the job (:422-428, 437-507).
THEOREM VerdictsStand == BacktestSpec => VerdictStands
<1> DEFINE Stands == slot.status \in {"done", "error"} /\ slot' # slot
                       => \/ slot'.status = "running" /\ slot'.job > slot.job
                          \/ slot'.status # "running" /\ Overlapped(slot'.job, slot.job)
<1>1. Inv /\ [BacktestNext]_backtestVars => Stands
  <2> SUFFICES ASSUME Inv, BacktestNext, Settled, slot' # slot PROVE Stands
    BY DEF backtestVars, Settled
  <2> USE DEF Inv
  <2>0. slot.status # "running" /\ slot.job \in Job /\ Begun(slot.job)
    BY DEF Settled, InOrder, Begun
  <2>1. ASSUME NEW j \in Job, Start(j) PROVE Stands
    <3>1. slot' = [status |-> "running", job |-> j, age |-> 0, tail |-> NoJob]
      BY <2>1 DEF Start, Stamp, WriteSlot
    <3>2. ~Begun(j) BY <2>1 DEF Start, Stamp, Begun
    <3>3. slot.job # j /\ ~(j < slot.job) BY <3>2, <2>0 DEF InOrder
    <3>4. j \in Nat /\ slot.job \in Nat BY <2>0, Sizes
    <3>5. slot'.status = "running" /\ slot'.job > slot.job BY <3>1, <3>3, <3>4
    <3> QED BY <3>5
  <2>2. ASSUME NEW j \in Job, InFlight(j), NEW status \in {"error", "done"},
               Settle(j, status)
        PROVE  Stands
    <3>1. slot'.status = status /\ slot'.job = j
      BY <2>2 DEF Settle, WriteSlot, BacktestTypeOK
    <3>2. Overlapped(j, slot.job) BY <2>2 DEF Meetings
    <3> QED BY <3>1, <3>2
  <2>3. \A j \in Job : ~Progress(j) BY <2>0 DEF Progress
  <2>4. ~WorkerRestart /\ ~BacktestTick BY <2>0 DEF WorkerRestart, BacktestTick, Elapse
  <2>5. PICK j \in Job : Start(j) \/ ExecFails(j) \/ CatMd(j)
    BY <2>3, <2>4 DEF BacktestNext, TaskStep, ExecSucceeds, CatCsv
  <2>6. CASE ExecFails(j) BY <2>2, <2>6 DEF ExecFails, InFlight
  <2>7. CASE CatMd(j) BY <2>2, <2>7 DEF CatMd, InFlight
  <2> QED BY <2>1, <2>5, <2>6, <2>7
<1>2. BacktestSpec => [][Stands]_backtestVars
  BY <1>1, InitInv, StepKeepsInv, PTL DEF BacktestSpec
<1> QED BY <1>2, PTL DEF VerdictStands
=============================================================================
