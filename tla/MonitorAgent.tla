---------------------------- MODULE MonitorAgent ----------------------------
(***************************************************************************)
(* The monitoring agent's loop (app/agent/runner.py): fetch every source,   *)
(* run the detectors, process and page what fired, resolve what cleared,    *)
(* stamp the heartbeat, sleep.  The store is AlertState; a crash loses the  *)
(* agent's memory and keeps Redis.                                         *)
(*                                                                         *)
(* A condition is a fact about the engine or its host that a detector       *)
(* reads from one source.  One condition may be reported under more than    *)
(* one fingerprint (the signing alert carries docker's status text).        *)
(***************************************************************************)
EXTENDS AlertState

CONSTANTS
    Source,          \* pulse, health, positions_diag, tasks, docker_ps, redis_probe
    Condition,       \* what the detectors look for
    CondSource,      \* [Condition -> Source]: where a detector reads it
    CondOf,          \* fingerprint |-> condition, for the alerts of ALERT_SOURCES
    FailureOf,       \* fingerprint |-> source, for SOURCE_FAILURE_ALERTS
    FiresBlind,      \* alerts of ALERT_SOURCES that also fire on a blind source
    Severities,      \* [Fingerprint -> severities it may be reported with]
    MaxBlind,        \* bound: cycles in a row a source may stay blind
    DetectorsRaise,  \* may a detector's check() raise?
    Crashes          \* may the agent process die and be restarted?

SourceBound == DOMAIN CondOf
SourceFailure == DOMAIN FailureOf

ASSUME FingerprintAssumption ==
    /\ SourceBound \cup SourceFailure = Fingerprint
    /\ SourceBound \cap SourceFailure = {}
ASSUME ConditionAssumption ==
    /\ CondOf \in [SourceBound -> Condition]
    /\ CondSource \in [Condition -> Source]
    /\ FailureOf \in [SourceFailure -> Source]
    /\ FiresBlind \subseteq SourceBound
ASSUME AgentAssumption ==
    /\ Severities \in [Fingerprint -> SUBSET Severity]
    /\ MaxBlind \in Nat
    /\ {DetectorsRaise, Crashes} \subseteq BOOLEAN

VARIABLES
    pc,         \* where the loop is
    todo,       \* results still to process, then alerts still to resolve
    triggered,  \* triggered_fingerprints of this cycle
    carried,    \* active alerts this cycle could not look at
    blind,      \* sources that did not answer usably this cycle
    cycleOk,    \* cycle_ok
    blindFor,   \* [Source -> 0..MaxBlind]: cycles in a row it was blind
    believed,   \* conditions that held when a detector last saw them
    told,       \* [Fingerprint -> last kind of message the agent sent]
    sinceTold,  \* [Fingerprint -> 0..Dedup]: ticks since the last page
    clearSeen,  \* alerts some look found off since their last page
    heartbeat   \* what the last cycle published

loopVars == <<pc, todo, triggered, carried, blind, cycleOk, blindFor>>
historyVars == <<believed, told, sinceTold, clearSeen>>
vars == <<storeVars, loopVars, historyVars, heartbeat>>

\* A page carries the entry's severity.
Message == {"none", "recovery"} \cup Severity
Open(fp) == told[fp] \in Severity
NoBeat == [firing |-> {}, cycleOk |-> FALSE]

TypeOK ==
    /\ StoreTypeOK
    /\ pc \in {"asleep", "process", "resolve", "dead"}
    /\ todo \subseteq Fingerprint
    /\ triggered \subseteq Fingerprint
    /\ carried \subseteq Fingerprint
    /\ blind \subseteq Source
    /\ cycleOk \in BOOLEAN
    /\ blindFor \in [Source -> 0..MaxBlind]
    /\ believed \subseteq Condition
    /\ told \in [Fingerprint -> Message]
    /\ sinceTold \in [Fingerprint -> 0..Dedup]
    /\ clearSeen \subseteq Fingerprint
    /\ heartbeat \in [firing: SUBSET Fingerprint, cycleOk: BOOLEAN]

Init ==
    /\ StoreInit
    /\ pc = "asleep"
    /\ todo = {} /\ triggered = {} /\ carried = {} /\ blind = {}
    /\ cycleOk = TRUE
    /\ blindFor = [s \in Source |-> 0]
    /\ believed = {}
    /\ told = [fp \in Fingerprint |-> "none"]
    /\ sinceTold = [fp \in Fingerprint |-> Dedup]
    /\ clearSeen = {}
    /\ heartbeat = NoBeat

-----------------------------------------------------------------------------
(* Fetch and detect.                                                       *)

\* Mutant of SourceIsBlind: the resolve pass before blind sources were carried.
NeverBlind(fp) == FALSE

\* source_of(fingerprint) in the blind set of this cycle
SourceIsBlind(fp) == fp \in SourceBound /\ CondSource[CondOf[fp]] \in blind

\* The conditions the detectors could examine, given the blind sources and
\* the conditions whose detector raised.
Looked(unseen, broken) == {c \in Condition : CondSource[c] \notin unseen} \ broken

\* Mutant of Results: a missing answer read as every condition firing.
ResultsOfSilence(unseen, broken, holds, label) ==
    {label[c] : c \in holds \cap Looked(unseen, broken)}
      \cup {fp \in SourceBound : CondSource[CondOf[fp]] \in unseen}
      \cup {fp \in SourceFailure : FailureOf[fp] \in unseen}

\* all_results: a condition that holds fires under one of its fingerprints
\* (label), a failing source under its own.
Results(unseen, broken, holds, label) ==
    {label[c] : c \in holds \cap Looked(unseen, broken)}
      \cup {fp \in FiresBlind : /\ CondSource[CondOf[fp]] \in unseen
                                /\ CondOf[fp] \notin broken}
      \cup {fp \in SourceFailure : FailureOf[fp] \in unseen}

Labels == {l \in [Condition -> SourceBound] : \A c \in Condition : CondOf[l[c]] = c}

\* The alerts whose condition held when it was last seen.  A source failing
\* is always seen.
Known ==
    {fp \in SourceBound : CondOf[fp] \in believed}
      \cup {fp \in SourceFailure : blindFor[FailureOf[fp]] > 0}

ClockTicks ==
    /\ Age
    /\ sinceTold' = [fp \in Fingerprint |->
                        IF sinceTold[fp] < Dedup THEN sinceTold[fp] + 1 ELSE Dedup]

\* The sleep ends and run_cycle() fetches and detects.  A source that answers
\* {"error": ...} is blind; one whose fetch raises also spoils cycle_ok, as
\* does a detector that raises, whose source still counts as answered.
StartCycle ==
    /\ pc = "asleep"
    /\ ClockTicks
    /\ \E unseen \in SUBSET {s \in Source : blindFor[s] < MaxBlind},
          broken \in IF DetectorsRaise THEN SUBSET Condition ELSE {{}},
          holds \in SUBSET Condition, label \in Labels :
        /\ \E raised \in SUBSET unseen : cycleOk' = (raised = {} /\ broken = {})
        /\ blind' = unseen
        /\ blindFor' = [s \in Source |-> IF s \in unseen THEN blindFor[s] + 1 ELSE 0]
        /\ triggered' = Results(unseen, broken, holds, label)
        /\ todo' = triggered'
        /\ believed' = (holds \cap Looked(unseen, broken))
                         \cup (believed \ Looked(unseen, broken))
    /\ clearSeen' = clearSeen \cup (Fingerprint \ Known')
    /\ carried' = {}
    /\ pc' = "process"
    /\ UNCHANGED <<call, told, heartbeat>>

-----------------------------------------------------------------------------
(* Process the results, in any order, and page.                            *)

Process(fp) ==
    /\ pc = "process" /\ fp \in todo
    /\ \E reply \in Replies, severity \in Severities[fp] : ProcessGet(fp, severity, reply)
    /\ todo' = todo \ {fp}
    /\ UNCHANGED <<pc, triggered, carried, blind, cycleOk, blindFor, historyVars, heartbeat>>

StoreAlert ==
    /\ pc = "process"
    /\ \E reply \in Replies : ProcessSet(reply) \/ PageSet(reply)
    /\ UNCHANGED <<loopVars, historyVars, heartbeat>>

\* notifier.send_alert: best effort, told means handed to the sinks.
SendAlert ==
    /\ pc = "process" /\ call.at = "alert"
    /\ Return
    /\ told' = [told EXCEPT ![call.fp] = call.state.severity]
    /\ sinceTold' = [sinceTold EXCEPT ![call.fp] = 0]
    /\ clearSeen' = clearSeen \ {call.fp}
    /\ UNCHANGED <<redis, ttl, mem, loopVars, believed, heartbeat>>

-----------------------------------------------------------------------------
(* Resolve what is active and did not fire, unless its source was blind.    *)

ListActive ==
    /\ pc = "process" /\ todo = {} /\ Idle
    /\ \E reply \in Replies :
        LET quiet == ActiveFingerprints(reply) \ triggered
        IN  /\ carried' = {fp \in quiet : SourceIsBlind(fp)}
            /\ todo' = {fp \in quiet : ~SourceIsBlind(fp)}
    /\ pc' = "resolve"
    /\ UNCHANGED <<storeVars, triggered, blind, cycleOk, blindFor, historyVars, heartbeat>>

Resolve(fp) ==
    /\ pc = "resolve" /\ fp \in todo
    /\ \E reply \in Replies : ResolveGet(fp, reply)
    /\ todo' = todo \ {fp}
    /\ UNCHANGED <<pc, triggered, carried, blind, cycleOk, blindFor, historyVars, heartbeat>>

DeleteAlert ==
    /\ pc = "resolve"
    /\ \E reply \in Replies : ResolveDelete(reply)
    /\ UNCHANGED <<loopVars, historyVars, heartbeat>>

\* notifier.send_recovery
SendRecovery ==
    /\ pc = "resolve" /\ call.at = "recover"
    /\ Return
    /\ told' = [told EXCEPT ![call.fp] = "recovery"]
    /\ UNCHANGED <<redis, ttl, mem, loopVars, believed, sinceTold, clearSeen, heartbeat>>

\* The locals of run_cycle() go out of scope.
ForgetCycle ==
    todo' = {} /\ triggered' = {} /\ carried' = {} /\ blind' = {} /\ cycleOk' = TRUE

\* Mutant of EndCycle: carried alerts not counted as firing.
EndCycleUncarried ==
    /\ pc = "resolve" /\ todo = {} /\ Idle
    /\ heartbeat' = [firing |-> triggered, cycleOk |-> cycleOk]
    /\ pc' = "asleep"
    /\ ForgetCycle
    /\ UNCHANGED <<storeVars, blindFor, historyVars>>

\* The heartbeat is published on every cycle; the dead-man ping goes out with it
\* when cycle_ok is true.
EndCycle ==
    /\ pc = "resolve" /\ todo = {} /\ Idle
    /\ heartbeat' = [firing |-> triggered \cup carried, cycleOk |-> cycleOk]
    /\ pc' = "asleep"
    /\ ForgetCycle
    /\ UNCHANGED <<storeVars, blindFor, historyVars>>

-----------------------------------------------------------------------------
(* Faults of the process and of Redis.                                     *)

Crash ==
    /\ Crashes /\ pc # "dead"
    /\ pc' = "dead"
    /\ mem' = [fp \in Fingerprint |-> NoEntry]
    /\ Return
    /\ ForgetCycle
    /\ UNCHANGED <<redis, ttl, blindFor, historyVars, heartbeat>>

\* Time passes while the agent is down.
Down ==
    /\ pc = "dead"
    /\ ClockTicks
    /\ UNCHANGED <<call, loopVars, believed, told, clearSeen, heartbeat>>

Restart ==
    /\ pc = "dead"
    /\ pc' = "asleep"
    /\ UNCHANGED <<storeVars, todo, triggered, carried, blind, cycleOk, blindFor,
                   historyVars, heartbeat>>

ExpireKey ==
    /\ \E fp \in Fingerprint : Expire(fp)
    /\ UNCHANGED <<loopVars, historyVars, heartbeat>>

EvictKey ==
    /\ \E fp \in Fingerprint : Evict(fp)
    /\ UNCHANGED <<loopVars, historyVars, heartbeat>>

CycleStep ==
    \/ StartCycle
    \/ \E fp \in Fingerprint : Process(fp) \/ Resolve(fp)
    \/ StoreAlert \/ SendAlert
    \/ ListActive \/ DeleteAlert \/ SendRecovery
    \/ EndCycle

Next == CycleStep \/ Crash \/ Down \/ Restart \/ ExpireKey \/ EvictKey

Spec == Init /\ [][Next]_vars

-----------------------------------------------------------------------------
(* Properties.                                                             *)

PageSent(fp) == call.at = "alert" /\ call.fp = fp /\ SendAlert
RecoverySent(fp) == call.at = "recover" /\ call.fp = fp /\ SendRecovery

\* Whatever Redis does and however often the agent dies, a recovery is only
\* ever sent for an alert whose condition was off the last time a detector
\* saw it: a source that does not answer never reads as "cleared"
\* (runner.py, ALERT_SOURCES and the resolve pass).
RecoveryMeansCleared ==
    [][\A fp \in Fingerprint : RecoverySent(fp) => fp \notin Known]_vars

\* A page is only ever sent for a condition seen to hold (the detectors'
\* early returns on missing data).
PageMeansSeen ==
    [][\A fp \in Fingerprint : PageSent(fp) => fp \in Known]_vars

\* No second page of an alert inside the dedup window unless a look found its
\* condition off in between or it got worse: neither a crash nor a TTL expiry resets the
\* window (alert_state.py, _should_page and the write-before-send order).
NoRepageInWindow ==
    [][\A fp \in Fingerprint :
         PageSent(fp) /\ sinceTold[fp] < Dedup
           => fp \in clearSeen \/ (told[fp] = "WARN" /\ told'[fp] = "HIGH")]_vars

\* With Redis answering and no crash, between cycles the owner is waiting for
\* a recovery exactly for the alerts the store holds as paged: none is
\* forgotten through its TTL and none is recovered twice.
OpenIsTracked ==
    pc = "asleep" =>
      \A fp \in Fingerprint : Open(fp) <=> redis[fp].paged

\* The count the heartbeat publishes (triggered or carried) is the set of
\* alerts the panel would find in the store at that moment.
HeartbeatCountsActive ==
    [][EndCycle => heartbeat'.firing = ActiveFingerprints("ok")]_vars

\* The loop `while True` never stops by itself, and Docker restarts the agent.
FairSpec == Spec /\ WF_vars(CycleStep) /\ WF_vars(Restart)

StaysUp == <>[](pc # "dead")

\* An alert that is on at every look from some point on is eventually paged
\* and left paged, also when a crash swallowed the first page.
HeldIsPaged ==
    \A fp \in Fingerprint :
      StaysUp /\ <>[](fp \in Known) => <>[]Open(fp)

\* An alert that is off at every look from some point on does not leave the
\* owner with an open page.
ClearedIsTold ==
    \A fp \in Fingerprint : <>[](fp \notin Known) => <>[]~Open(fp)

-----------------------------------------------------------------------------
(* What the agent promises whoever it pages, without a store or a cycle.    *)

Contract == INSTANCE PagerContract WITH Alert <- Fingerprint, known <- Known

\* With Redis answering and no crash the agent keeps the whole contract.
KeepsContract == Contract!Spec
=============================================================================
