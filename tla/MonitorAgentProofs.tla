------------------------- MODULE MonitorAgentProofs -------------------------
(***************************************************************************)
(* Theorems about MonitorAgent and its store, for every set of alerts,      *)
(* sources and conditions, every timing and every kind of Redis failure;    *)
(* where one needs Redis to answer or the agent to stay up, it says so.     *)
(***************************************************************************)
EXTENDS MonitorAgent, TLAPS

USE FingerprintNonempty, TimeAssumption, CountAssumption, ReplyAssumption

-----------------------------------------------------------------------------
(* The store's operators keep entries well formed.                         *)

LEMMA NoEntryNotEntry == NoEntry \notin Entry
  BY DEF NoEntry, Entry

LEMMA NoCallType == NoCall \in Call
  BY DEF NoCall, Call

LEMMA FreshType ==
    ASSUME NEW severity \in Severity
    PROVE  Fresh(severity) \in Entry
  BY DEF Fresh, Entry, Severity

LEMMA RetriggerType ==
    ASSUME NEW e \in Entry, NEW severity \in Severity
    PROVE  Retrigger(e, severity) \in Entry
  BY DEF Retrigger, Entry, Severity

LEMMA AgedType ==
    ASSUME NEW e \in Entry \cup {NoEntry}
    PROVE  Aged(e) \in Entry \cup {NoEntry}
  BY DEF Aged, Entry, NoEntry

LEMMA GetType ==
    ASSUME StoreTypeOK, NEW fp \in Fingerprint, NEW reply \in Replies
    PROVE  Get(fp, reply) \in Entry \cup {NoEntry}
  BY DEF StoreTypeOK, Get

LEMMA SetType ==
    ASSUME StoreTypeOK, NEW fp \in Fingerprint, NEW e \in Entry,
           NEW reply \in Replies, Set(fp, e, reply)
    PROVE  /\ redis' \in [Fingerprint -> Entry \cup {NoEntry}]
           /\ ttl' \in [Fingerprint -> 0..Expiry]
           /\ mem' \in [Fingerprint -> Entry \cup {NoEntry}]
  BY DEF StoreTypeOK, Set

LEMMA AgeType ==
    ASSUME StoreTypeOK, Age
    PROVE  /\ redis' \in [Fingerprint -> Entry \cup {NoEntry}]
           /\ ttl' \in [Fingerprint -> 0..Expiry]
           /\ mem' \in [Fingerprint -> Entry \cup {NoEntry}]
<1>1. \A fp \in Fingerprint :
        Aged(redis[fp]) \in Entry \cup {NoEntry} /\ Aged(mem[fp]) \in Entry \cup {NoEntry}
  BY AgedType DEF StoreTypeOK
<1>2. QED
  BY <1>1 DEF StoreTypeOK, Age

\* One lemma per store call: what it leaves in the store and in flight.

LEMMA ProcessGetType ==
    ASSUME StoreTypeOK, NEW fp \in Fingerprint, NEW severity \in Severity,
           NEW reply \in Replies, ProcessGet(fp, severity, reply)
    PROVE  StoreTypeOK'
<1> DEFINE found == Get(fp, reply)
           e == IF found = NoEntry THEN Fresh(severity) ELSE Retrigger(found, severity)
<1>1. e \in Entry
  BY GetType, FreshType, RetriggerType
<1>2. call' = [at |-> "set", fp |-> fp, state |-> e,
               alias |-> ~(found = NoEntry) /\ reply # "ok"]
  BY DEF ProcessGet
<1>3. call' \in Call
  BY <1>1, <1>2 DEF Call
<1>4. QED
  BY <1>3 DEF StoreTypeOK, ProcessGet

LEMMA BusyCall ==
    ASSUME StoreTypeOK, ~Idle
    PROVE  /\ call.fp \in Fingerprint
           /\ call.state \in Entry
           /\ call.alias \in BOOLEAN
           /\ \A at \in {"set", "page", "alert", "delete", "recover"} :
                [call EXCEPT !.at = at] \in Call
  BY DEF StoreTypeOK, Idle, Call, NoCall

LEMMA PagedType ==
    ASSUME NEW e \in Entry
    PROVE  Paged(e) \in Entry
  BY DEF Paged, Entry

LEMMA ProcessSetType ==
    ASSUME StoreTypeOK, NEW reply \in Replies, ProcessSet(reply)
    PROVE  StoreTypeOK'
<1>1. call.fp \in Fingerprint /\ call.state \in Entry /\ call.alias \in BOOLEAN
  BY BusyCall DEF ProcessSet, Idle
<1>2. /\ redis' \in [Fingerprint -> Entry \cup {NoEntry}]
      /\ ttl' \in [Fingerprint -> 0..Expiry]
      /\ mem' \in [Fingerprint -> Entry \cup {NoEntry}]
  BY <1>1, SetType DEF ProcessSet
<1>3. call' \in Call
  <2>1. CASE ShouldPage(call.state)
    <3>1. call' = [at |-> "page", fp |-> call.fp, state |-> Paged(call.state),
                   alias |-> call.alias \/ reply # "ok"]
      BY <2>1 DEF ProcessSet
    <3>2. Paged(call.state) \in Entry
      BY <1>1, PagedType
    <3>3. QED
      BY <1>1, <3>1, <3>2 DEF Call
  <2>2. CASE ~ShouldPage(call.state)
    BY <2>2, NoCallType DEF ProcessSet, Return
  <2>3. QED
    BY <2>1, <2>2
<1>4. QED
  BY <1>2, <1>3 DEF StoreTypeOK

LEMMA PageSetType ==
    ASSUME StoreTypeOK, NEW reply \in Replies, PageSet(reply)
    PROVE  StoreTypeOK'
<1>1. call.fp \in Fingerprint /\ call.state \in Entry /\ call' \in Call
  BY BusyCall DEF PageSet, Idle
<1>2. QED
  BY <1>1, SetType DEF PageSet, StoreTypeOK

LEMMA ResolveGetType ==
    ASSUME StoreTypeOK, NEW fp \in Fingerprint, NEW reply \in Replies, ResolveGet(fp, reply)
    PROVE  StoreTypeOK'
<1>1. call' \in Call
  <2>1. CASE Get(fp, reply) = NoEntry
    BY <2>1 DEF ResolveGet, StoreTypeOK
  <2>2. CASE Get(fp, reply) # NoEntry
    <3>1. Get(fp, reply) \in Entry
      BY <2>2, GetType
    <3>2. call' = [at |-> "delete", fp |-> fp, state |-> Get(fp, reply), alias |-> FALSE]
      BY <2>2 DEF ResolveGet
    <3>3. QED
      BY <3>1, <3>2 DEF Call
  <2>3. QED
    BY <2>1, <2>2
<1>2. QED
  BY <1>1 DEF ResolveGet, StoreTypeOK

LEMMA ResolveDeleteType ==
    ASSUME StoreTypeOK, NEW reply \in Replies, ResolveDelete(reply)
    PROVE  StoreTypeOK'
<1>1. call.fp \in Fingerprint /\ [call EXCEPT !.at = "recover"] \in Call
  BY BusyCall DEF ResolveDelete, Idle
<1>2. /\ redis' \in [Fingerprint -> Entry \cup {NoEntry}]
      /\ ttl' \in [Fingerprint -> 0..Expiry]
      /\ mem' \in [Fingerprint -> Entry \cup {NoEntry}]
  BY <1>1 DEF ResolveDelete, Delete, StoreTypeOK
<1>3. call' \in Call
  BY <1>1, NoCallType DEF ResolveDelete, Return
<1>4. QED
  BY <1>2, <1>3 DEF StoreTypeOK

LEMMA LoseType ==
    ASSUME StoreTypeOK, NEW fp \in Fingerprint, Lose(fp)
    PROVE  StoreTypeOK'
  BY DEF StoreTypeOK, Lose

-----------------------------------------------------------------------------
(* The agent.                                                              *)

\* Every variable of the agent keeps its type (runner.py, alert_state.py).
THEOREM TypeCorrect == Spec => []TypeOK
<1>1. Init => TypeOK
  BY NoCallType, AgentAssumption
     DEF Init, StoreInit, TypeOK, StoreTypeOK, Message, NoBeat
<1>2. TypeOK /\ [Next]_vars => TypeOK'
  <2> SUFFICES ASSUME TypeOK, [Next]_vars PROVE TypeOK'
    OBVIOUS
  <2> USE AgentAssumption
  <2>1. StoreTypeOK
    BY DEF TypeOK
  <2>2. CASE StartCycle
    <3>1. StoreTypeOK'
      BY <2>1, <2>2, AgeType DEF StartCycle, ClockTicks, StoreTypeOK
    <3>2. PICK unseen \in SUBSET {s \in Source : blindFor[s] < MaxBlind},
               broken \in IF DetectorsRaise THEN SUBSET Condition ELSE {{}},
               holds \in SUBSET Condition, label \in Labels :
            /\ \E raised \in SUBSET unseen : cycleOk' = (raised = {} /\ broken = {})
            /\ blind' = unseen
            /\ blindFor' = [s \in Source |-> IF s \in unseen THEN blindFor[s] + 1 ELSE 0]
            /\ triggered' = Results(unseen, broken, holds, label)
            /\ todo' = triggered'
            /\ believed' = (holds \cap Looked(unseen, broken))
                             \cup (believed \ Looked(unseen, broken))
      BY <2>2 DEF StartCycle
    <3>3. triggered' \subseteq Fingerprint /\ todo' \subseteq Fingerprint
      BY <3>2, FingerprintAssumption, ConditionAssumption DEF Results, Labels
    <3>4. blindFor' \in [Source -> 0..MaxBlind]
      BY <3>2 DEF TypeOK
    <3>5. blind' \subseteq Source /\ cycleOk' \in BOOLEAN /\ believed' \subseteq Condition
      BY <3>2 DEF TypeOK, Looked
    <3>6. sinceTold' \in [Fingerprint -> 0..Dedup]
      BY <2>2 DEF StartCycle, ClockTicks, TypeOK
    <3>7. clearSeen' \subseteq Fingerprint
      BY <2>2 DEF StartCycle, TypeOK
    <3>8. QED
      BY <2>2, <3>1, <3>3, <3>4, <3>5, <3>6, <3>7 DEF StartCycle, TypeOK
  <2>3. ASSUME NEW fp \in Fingerprint, Process(fp) PROVE TypeOK'
    <3>1. StoreTypeOK'
      BY <2>1, <2>3, ProcessGetType DEF Process
    <3>2. QED
      BY <2>3, <3>1 DEF Process, TypeOK, historyVars
  <2>4. ASSUME NEW fp \in Fingerprint, Resolve(fp) PROVE TypeOK'
    <3>1. StoreTypeOK'
      BY <2>1, <2>4, ResolveGetType DEF Resolve
    <3>2. QED
      BY <2>4, <3>1 DEF Resolve, TypeOK, historyVars
  <2>5. CASE StoreAlert
    <3>1. StoreTypeOK'
      BY <2>1, <2>5, ProcessSetType, PageSetType DEF StoreAlert
    <3>2. QED
      BY <2>5, <3>1 DEF StoreAlert, TypeOK, loopVars, historyVars
  <2>6. CASE SendAlert
    <3>1. call.fp \in Fingerprint /\ call.state.severity \in Severity
      BY <2>1, <2>6, BusyCall DEF SendAlert, Idle, Entry
    <3>2. StoreTypeOK'
      BY <2>1, <2>6, NoCallType DEF SendAlert, Return, StoreTypeOK
    <3>3. QED
      BY <2>6, <3>1, <3>2 DEF SendAlert, TypeOK, loopVars, Message
  <2>7. CASE ListActive
    <3>1. StoreTypeOK'
      BY <2>1, <2>7 DEF ListActive, storeVars, StoreTypeOK
    <3>2. carried' \subseteq Fingerprint /\ todo' \subseteq Fingerprint
      BY <2>7 DEF ListActive, ActiveFingerprints
    <3>3. QED
      BY <2>7, <3>1, <3>2 DEF ListActive, TypeOK, historyVars
  <2>8. CASE DeleteAlert
    <3>1. StoreTypeOK'
      BY <2>1, <2>8, ResolveDeleteType DEF DeleteAlert
    <3>2. QED
      BY <2>8, <3>1 DEF DeleteAlert, TypeOK, loopVars, historyVars
  <2>9. CASE SendRecovery
    <3>1. call.fp \in Fingerprint
      BY <2>1, <2>9, BusyCall DEF SendRecovery, Idle
    <3>2. StoreTypeOK'
      BY <2>1, <2>9, NoCallType DEF SendRecovery, Return, StoreTypeOK
    <3>3. QED
      BY <2>9, <3>1, <3>2 DEF SendRecovery, TypeOK, loopVars, Message
  <2>10. CASE EndCycle
    <3>1. StoreTypeOK'
      BY <2>1, <2>10 DEF EndCycle, storeVars, StoreTypeOK
    <3>2. heartbeat' \in [firing: SUBSET Fingerprint, cycleOk: BOOLEAN]
      BY <2>10 DEF EndCycle, TypeOK
    <3>3. QED
      BY <2>10, <3>1, <3>2 DEF EndCycle, ForgetCycle, TypeOK, historyVars
  <2>11. CASE Crash
    <3>1. StoreTypeOK'
      BY <2>1, <2>11, NoCallType DEF Crash, Return, StoreTypeOK
    <3>2. QED
      BY <2>11, <3>1 DEF Crash, ForgetCycle, TypeOK, historyVars
  <2>12. CASE Down
    <3>1. StoreTypeOK'
      BY <2>1, <2>12, AgeType DEF Down, ClockTicks, StoreTypeOK
    <3>2. sinceTold' \in [Fingerprint -> 0..Dedup]
      BY <2>12 DEF Down, ClockTicks, TypeOK
    <3>3. QED
      BY <2>12, <3>1, <3>2 DEF Down, TypeOK, loopVars
  <2>13. CASE Restart
    BY <2>1, <2>13 DEF Restart, TypeOK, StoreTypeOK, storeVars, historyVars
  <2>14. CASE ExpireKey
    <3>1. StoreTypeOK'
      BY <2>1, <2>14, LoseType DEF ExpireKey, Expire
    <3>2. QED
      BY <2>14, <3>1 DEF ExpireKey, TypeOK, loopVars, historyVars
  <2>15. CASE EvictKey
    <3>1. StoreTypeOK'
      BY <2>1, <2>15, LoseType DEF EvictKey, Evict
    <3>2. QED
      BY <2>15, <3>1 DEF EvictKey, TypeOK, loopVars, historyVars
  <2>16. CASE UNCHANGED vars
    BY <2>16 DEF TypeOK, StoreTypeOK, vars, storeVars, loopVars, historyVars
  <2>17. QED
    BY <2>2, <2>3, <2>4, <2>5, <2>6, <2>7, <2>8, <2>9, <2>10, <2>11, <2>12,
       <2>13, <2>14, <2>15, <2>16 DEF Next, CycleStep
<1>3. QED
  BY <1>1, <1>2, PTL DEF Spec

-----------------------------------------------------------------------------
(* Paged alerts are alerts the panel shows, whatever Redis does.            *)

LEMMA ShownGet ==
    ASSUME PagedIsShown, NEW fp \in Fingerprint, NEW reply
    PROVE  Shown(Get(fp, reply))
  BY DEF PagedIsShown, Get

LEMMA ShownFresh == \A severity : Shown(Fresh(severity))
  BY DEF Shown, Fresh

LEMMA ShownNoEntry == Shown(NoEntry)
  BY DEF Shown, NoEntry

LEMMA ShownNoCall == Shown(NoCall.state)
  BY ShownNoEntry DEF NoCall

LEMMA ShownRetrigger ==
    ASSUME NEW e \in Entry, NEW severity \in Severity, Shown(e)
    PROVE  Shown(Retrigger(e, severity))
  BY DEF Shown, Retrigger, Escalates, Entry, Severity

LEMMA ShownPaged ==
    ASSUME NEW e \in Entry, ShouldPage(e)
    PROVE  Shown(Paged(e))
  BY DEF Shown, Paged, ShouldPage, Entry

LEMMA ShownAged ==
    ASSUME NEW e \in Entry \cup {NoEntry}, Shown(e)
    PROVE  Shown(Aged(e))
  BY DEF Shown, Aged, Entry, NoEntry

LEMMA ShownSet ==
    ASSUME StoreTypeOK, PagedIsShown, NEW fp \in Fingerprint, NEW e, NEW reply,
           Shown(e), Set(fp, e, reply)
    PROVE  \A f \in Fingerprint : Shown(redis'[f]) /\ Shown(mem'[f])
  BY DEF StoreTypeOK, PagedIsShown, Set

\* No store operation, in any order and with any failure of Redis, creates a
\* paged copy the panel would hide (alert_state.py against agent_alerts.py).
THEOREM PagedAlertsAreShown == Spec => []PagedIsShown
<1>1. Init => PagedIsShown
  BY ShownNoEntry, ShownNoCall DEF Init, StoreInit, PagedIsShown
<1>2. PagedIsShown /\ TypeOK /\ [Next]_vars => PagedIsShown'
  <2> SUFFICES ASSUME PagedIsShown, TypeOK, [Next]_vars PROVE PagedIsShown'
    OBVIOUS
  <2>1. StoreTypeOK
    BY DEF TypeOK
  <2>2. ASSUME Age, UNCHANGED call PROVE PagedIsShown'
    <3>1. \A fp \in Fingerprint : Shown(Aged(redis[fp])) /\ Shown(Aged(mem[fp]))
      BY <2>1, ShownAged DEF StoreTypeOK, PagedIsShown
    <3>2. QED
      BY <2>2, <3>1, ShownNoEntry DEF Age, PagedIsShown
  <2>3. ASSUME UNCHANGED <<redis, mem>>, Return PROVE PagedIsShown'
    BY <2>3, ShownNoCall DEF Return, PagedIsShown
  <2>4. ASSUME NEW fp \in Fingerprint, Lose(fp) PROVE PagedIsShown'
    BY <2>1, <2>4, ShownNoEntry DEF Lose, PagedIsShown, StoreTypeOK
  <2>5. CASE StartCycle
    BY <2>2, <2>5 DEF StartCycle, ClockTicks
  <2>6. ASSUME NEW fp \in Fingerprint, Process(fp) PROVE PagedIsShown'
    <3>1. PICK reply \in Replies, severity \in Severities[fp] : ProcessGet(fp, severity, reply)
      BY <2>6 DEF Process
    <3>2. severity \in Severity
      BY AgentAssumption
    <3>3. Get(fp, reply) = NoEntry \/ Get(fp, reply) \in Entry
      BY <2>1, GetType
    <3>4. Shown(call'.state)
      <4>1. CASE Get(fp, reply) = NoEntry
        BY <3>1, <4>1, ShownFresh DEF ProcessGet
      <4>2. CASE Get(fp, reply) # NoEntry
        BY <3>1, <3>2, <3>3, <4>2, ShownGet, ShownRetrigger DEF ProcessGet
      <4>3. QED
        BY <4>1, <4>2
    <3>5. QED
      BY <3>1, <3>4 DEF ProcessGet, PagedIsShown
  <2>7. ASSUME NEW reply \in Replies, ProcessSet(reply) PROVE PagedIsShown'
    <3>1. call.fp \in Fingerprint /\ call.state \in Entry /\ Shown(call.state)
      BY <2>1, <2>7, BusyCall DEF ProcessSet, Idle, PagedIsShown
    <3>2. \A f \in Fingerprint : Shown(redis'[f]) /\ Shown(mem'[f])
      BY <2>1, <2>7, <3>1, ShownSet DEF ProcessSet
    <3>3. Shown(call'.state)
      BY <2>7, <3>1, ShownPaged, ShownNoCall DEF ProcessSet, Return
    <3>4. QED
      BY <3>2, <3>3 DEF PagedIsShown
  <2>8. ASSUME NEW reply \in Replies, PageSet(reply) PROVE PagedIsShown'
    <3>1. call.fp \in Fingerprint /\ Shown(call.state) /\ call'.state = call.state
      BY <2>1, <2>8, BusyCall DEF PageSet, Idle, PagedIsShown, StoreTypeOK, Call, NoCall
    <3>2. QED
      BY <2>1, <2>8, <3>1, ShownSet DEF PageSet, PagedIsShown
  <2>9. CASE StoreAlert
    BY <2>7, <2>8, <2>9 DEF StoreAlert
  <2>10. CASE SendAlert
    BY <2>3, <2>10 DEF SendAlert
  <2>11. CASE ListActive
    BY <2>11 DEF ListActive, storeVars, PagedIsShown
  <2>12. ASSUME NEW fp \in Fingerprint, Resolve(fp) PROVE PagedIsShown'
    <3>1. PICK reply \in Replies : ResolveGet(fp, reply)
      BY <2>12 DEF Resolve
    <3>2. Shown(call'.state)
      BY <3>1, ShownGet DEF ResolveGet, PagedIsShown
    <3>3. QED
      BY <3>1, <3>2 DEF ResolveGet, PagedIsShown
  <2>13. CASE DeleteAlert
    <3>1. PICK reply \in Replies : ResolveDelete(reply)
      BY <2>13 DEF DeleteAlert
    <3>2. call.fp \in Fingerprint /\ Shown(call.state)
      BY <2>1, <3>1, BusyCall DEF ResolveDelete, Idle, PagedIsShown
    <3>3. \A f \in Fingerprint : Shown(redis'[f]) /\ Shown(mem'[f])
      BY <2>1, <3>1, <3>2, ShownNoEntry DEF ResolveDelete, Delete, StoreTypeOK, PagedIsShown
    <3>4. call'.state = call.state \/ call' = NoCall
      BY <2>1, <3>1 DEF ResolveDelete, Return, StoreTypeOK, Call, NoCall
    <3>5. QED
      BY <3>2, <3>3, <3>4, ShownNoCall DEF PagedIsShown
  <2>14. CASE SendRecovery
    BY <2>3, <2>14 DEF SendRecovery
  <2>15. CASE EndCycle
    BY <2>15 DEF EndCycle, storeVars, PagedIsShown
  <2>16. CASE Crash
    BY <2>16, ShownNoEntry, ShownNoCall DEF Crash, Return, PagedIsShown
  <2>17. CASE Down
    BY <2>2, <2>17 DEF Down, ClockTicks
  <2>18. CASE Restart
    BY <2>18 DEF Restart, storeVars, PagedIsShown
  <2>19. CASE ExpireKey
    BY <2>4, <2>19 DEF ExpireKey, Expire
  <2>20. CASE EvictKey
    BY <2>4, <2>20 DEF EvictKey, Evict
  <2>21. CASE UNCHANGED vars
    BY <2>21 DEF vars, storeVars, PagedIsShown
  <2>22. QED
    BY <2>5, <2>6, <2>9, <2>10, <2>11, <2>12, <2>13, <2>14, <2>15, <2>16,
       <2>17, <2>18, <2>19, <2>20, <2>21 DEF Next, CycleStep
<1>3. QED
  BY <1>1, <1>2, TypeCorrect, PTL DEF Spec

-----------------------------------------------------------------------------
(* What a message says was true when it was last looked at.                 *)

\* Each condition is reported under one fingerprint only.
OneFingerprint == \A f, g \in SourceBound : CondOf[f] = CondOf[g] => f = g

\* While results are processed, a known condition fired or its source is blind;
\* hence what is left to resolve, and the alert being resolved, are off.
ResolvesOff ==
    /\ pc = "process" => \A fp \in Known : fp \in triggered \/ SourceIsBlind(fp)
    /\ pc = "resolve" => todo \cap Known = {}
    /\ call.at \in {"delete", "recover"} => pc = "resolve" /\ call.fp \notin Known

\* What is left to process, and the alert being processed, were seen to hold.
ProcessesOn ==
    /\ pc = "process" => todo \subseteq Known
    /\ call.at \in {"set", "page", "alert"} => pc = "process" /\ call.fp \in Known

\* The resolve pass only ever works on alerts whose condition was last seen off
\* (runner.py), provided no detector raises and no condition changes its
\* fingerprint.
THEOREM ResolvesOffHolds ==
    ASSUME DetectorsRaise = FALSE, OneFingerprint
    PROVE  Spec => []ResolvesOff
<1> USE DEF Known, SourceIsBlind
<1>1. Init => ResolvesOff
  BY DEF Init, StoreInit, NoCall, ResolvesOff
<1>2. ResolvesOff /\ TypeOK /\ [Next]_vars => ResolvesOff'
  <2> SUFFICES ASSUME ResolvesOff, TypeOK, [Next]_vars PROVE ResolvesOff'
    OBVIOUS
  <2>1. CASE StartCycle
    <3>1. PICK unseen \in SUBSET Source, holds \in SUBSET Condition, label \in Labels :
            /\ blind' = unseen
            /\ blindFor' = [s \in Source |-> IF s \in unseen THEN blindFor[s] + 1 ELSE 0]
            /\ triggered' = Results(unseen, {}, holds, label)
            /\ believed' = (holds \cap Looked(unseen, {})) \cup (believed \ Looked(unseen, {}))
      BY <2>1 DEF StartCycle
    <3>2. ASSUME NEW fp \in SourceBound, CondOf[fp] \in believed'
          PROVE  fp \in triggered' \/ CondSource[CondOf[fp]] \in blind'
      <4>1. CASE CondOf[fp] \in holds \cap Looked(unseen, {})
        <5>1. label[CondOf[fp]] = fp
          BY ConditionAssumption DEF Labels, OneFingerprint
        <5>2. QED
          BY <3>1, <4>1, <5>1 DEF Results
      <4>2. CASE CondOf[fp] \in believed \ Looked(unseen, {})
        BY <3>1, <4>2, ConditionAssumption DEF Looked
      <4>3. QED
        BY <3>1, <3>2, <4>1, <4>2
    <3>3. ASSUME NEW fp \in SourceFailure, blindFor'[FailureOf[fp]] > 0
          PROVE  fp \in triggered'
      <4>1. FailureOf[fp] \in unseen
        BY <3>1, <3>3, ConditionAssumption
      <4>2. QED
        BY <3>1, <4>1 DEF Results
    <3>4. pc' = "process" /\ call' = call /\ pc = "asleep"
      BY <2>1 DEF StartCycle
    <3>5. QED
      BY <3>2, <3>3, <3>4 DEF ResolvesOff
  <2>2. ASSUME NEW fp \in Fingerprint, Process(fp) PROVE ResolvesOff'
    BY <2>2 DEF Process, ProcessGet, ResolvesOff, historyVars
  <2>3. ASSUME NEW fp \in Fingerprint, Resolve(fp) PROVE ResolvesOff'
    BY <2>3 DEF Resolve, ResolveGet, Idle, ResolvesOff, historyVars
  <2>4. CASE StoreAlert
    <3>1. ASSUME NEW reply, ProcessSet(reply) PROVE call'.at \notin {"delete", "recover"}
      BY <3>1 DEF ProcessSet, Return, NoCall
    <3>2. ASSUME NEW reply, PageSet(reply) PROVE call'.at \notin {"delete", "recover"}
      BY <3>2 DEF PageSet, TypeOK, StoreTypeOK, Call, NoCall
    <3>3. QED
      BY <2>4, <3>1, <3>2 DEF StoreAlert, ResolvesOff, loopVars, historyVars
  <2>5. CASE SendAlert
    BY <2>5 DEF SendAlert, Return, NoCall, ResolvesOff, loopVars
  <2>6. CASE ListActive
    BY <2>6 DEF ListActive, ResolvesOff, Idle, storeVars, historyVars
  <2>7. CASE DeleteAlert
    <3>1. call' = NoCall \/ (call.at = "delete" /\ call'.fp = call.fp)
      BY <2>7 DEF DeleteAlert, ResolveDelete, Return, TypeOK, StoreTypeOK, Call, NoCall
    <3>2. QED
      BY <2>7, <3>1 DEF DeleteAlert, NoCall, ResolvesOff, loopVars, historyVars
  <2>8. CASE SendRecovery
    BY <2>8 DEF SendRecovery, Return, NoCall, ResolvesOff, loopVars
  <2>9. CASE EndCycle
    BY <2>9 DEF EndCycle, ForgetCycle, Idle, ResolvesOff, storeVars, historyVars
  <2>10. CASE Crash
    BY <2>10 DEF Crash, Return, NoCall, ResolvesOff
  <2>11. CASE Down
    BY <2>11 DEF Down, ResolvesOff, loopVars
  <2>12. CASE Restart
    BY <2>12 DEF Restart, ResolvesOff, storeVars, historyVars
  <2>13. CASE ExpireKey \/ EvictKey
    BY <2>13 DEF ExpireKey, EvictKey, Expire, Evict, Lose, ResolvesOff, loopVars, historyVars
  <2>14. CASE UNCHANGED vars
    BY <2>14 DEF vars, storeVars, loopVars, historyVars, ResolvesOff
  <2>15. QED
    BY <2>1, <2>2, <2>3, <2>4, <2>5, <2>6, <2>7, <2>8, <2>9, <2>10, <2>11,
       <2>12, <2>13, <2>14 DEF Next, CycleStep
<1>3. QED
  BY <1>1, <1>2, TypeCorrect, PTL DEF Spec

\* No recovery for a condition last seen on, provided no detector raises and no
\* condition changes its fingerprint: the two cases in which the code does send
\* one (runner.py, resolve pass; see the README).
THEOREM RecoveryIsTrue ==
    ASSUME DetectorsRaise = FALSE, OneFingerprint
    PROVE  Spec => RecoveryMeansCleared
<1>1. ResolvesOff => [\A fp \in Fingerprint : RecoverySent(fp) => fp \notin Known]_vars
  BY DEF ResolvesOff, RecoverySent
<1>2. QED
  BY <1>1, ResolvesOffHolds, PTL DEF RecoveryMeansCleared

\* Only alerts whose condition was last seen on are processed (runner.py),
\* provided every detector stays silent about a source that did not answer.
THEOREM ProcessesOnHolds ==
    ASSUME FiresBlind = {}
    PROVE  Spec => []ProcessesOn
<1> USE DEF Known
<1>1. Init => ProcessesOn
  BY DEF Init, StoreInit, NoCall, ProcessesOn
<1>2. ProcessesOn /\ TypeOK /\ [Next]_vars => ProcessesOn'
  <2> SUFFICES ASSUME ProcessesOn, TypeOK, [Next]_vars PROVE ProcessesOn'
    OBVIOUS
  <2>1. CASE StartCycle
    <3>1. PICK unseen \in SUBSET Source, broken \in SUBSET Condition,
               holds \in SUBSET Condition, label \in Labels :
            /\ blindFor' = [s \in Source |-> IF s \in unseen THEN blindFor[s] + 1 ELSE 0]
            /\ triggered' = Results(unseen, broken, holds, label)
            /\ todo' = triggered'
            /\ believed' = (holds \cap Looked(unseen, broken))
                             \cup (believed \ Looked(unseen, broken))
      BY <2>1 DEF StartCycle
    <3>2. ASSUME NEW c \in holds \cap Looked(unseen, broken)
          PROVE  label[c] \in SourceBound /\ CondOf[label[c]] \in believed'
      <4>1. CondOf[label[c]] = c /\ label[c] \in SourceBound
        BY DEF Labels
      <4>2. QED
        BY <3>1, <4>1
    <3>3. ASSUME NEW fp \in SourceFailure, FailureOf[fp] \in unseen
          PROVE  blindFor'[FailureOf[fp]] > 0
      <4>1. FailureOf[fp] \in Source /\ blindFor[FailureOf[fp]] \in 0..MaxBlind
        BY <3>3, ConditionAssumption DEF TypeOK
      <4>2. QED
        BY <3>1, <3>3, <4>1, AgentAssumption
    <3>4. todo' \subseteq Known'
      BY <3>1, <3>2, <3>3 DEF Results
    <3>5. pc' = "process" /\ call' = call /\ pc = "asleep"
      BY <2>1 DEF StartCycle
    <3>6. QED
      BY <3>4, <3>5 DEF ProcessesOn
  <2>2. ASSUME NEW fp \in Fingerprint, Process(fp) PROVE ProcessesOn'
    BY <2>2 DEF Process, ProcessGet, ProcessesOn, historyVars
  <2>3. ASSUME NEW fp \in Fingerprint, Resolve(fp) PROVE ProcessesOn'
    BY <2>3 DEF Resolve, ResolveGet, Idle, ProcessesOn, historyVars
  <2>4. CASE StoreAlert
    <3>1. ASSUME NEW reply, ProcessSet(reply)
          PROVE  call.at = "set" /\ (call' = NoCall \/ call'.fp = call.fp)
      BY <3>1 DEF ProcessSet, Return
    <3>2. ASSUME NEW reply, PageSet(reply) PROVE call.at = "page" /\ call'.fp = call.fp
      BY <3>2 DEF PageSet, TypeOK, StoreTypeOK, Call, NoCall
    <3>3. QED
      BY <2>4, <3>1, <3>2 DEF StoreAlert, NoCall, ProcessesOn, loopVars, historyVars
  <2>5. CASE SendAlert
    BY <2>5 DEF SendAlert, Return, NoCall, ProcessesOn, loopVars
  <2>6. CASE ListActive
    BY <2>6 DEF ListActive, ProcessesOn, Idle, storeVars, historyVars
  <2>7. CASE DeleteAlert
    <3>1. call'.at \in {"idle", "recover"}
      BY <2>7 DEF DeleteAlert, ResolveDelete, Return, TypeOK, StoreTypeOK, Call, NoCall
    <3>2. QED
      BY <2>7, <3>1 DEF DeleteAlert, ProcessesOn, loopVars, historyVars
  <2>8. CASE SendRecovery
    BY <2>8 DEF SendRecovery, Return, NoCall, ProcessesOn, loopVars
  <2>9. CASE EndCycle
    BY <2>9 DEF EndCycle, ForgetCycle, Idle, ProcessesOn, storeVars, historyVars
  <2>10. CASE Crash
    BY <2>10 DEF Crash, Return, NoCall, ProcessesOn
  <2>11. CASE Down
    BY <2>11 DEF Down, ProcessesOn, loopVars
  <2>12. CASE Restart
    BY <2>12 DEF Restart, ProcessesOn, storeVars, historyVars
  <2>13. CASE ExpireKey \/ EvictKey
    BY <2>13 DEF ExpireKey, EvictKey, Expire, Evict, Lose, ProcessesOn, loopVars, historyVars
  <2>14. CASE UNCHANGED vars
    BY <2>14 DEF vars, storeVars, loopVars, historyVars, ProcessesOn
  <2>15. QED
    BY <2>1, <2>2, <2>3, <2>4, <2>5, <2>6, <2>7, <2>8, <2>9, <2>10, <2>11,
       <2>12, <2>13, <2>14 DEF Next, CycleStep
<1>3. QED
  BY <1>1, <1>2, TypeCorrect, PTL DEF Spec

\* No page for a condition last seen off, provided every detector stays silent
\* about a source that did not answer (FiresBlind is empty).
THEOREM PageIsTrue ==
    ASSUME FiresBlind = {}
    PROVE  Spec => PageMeansSeen
<1>1. ProcessesOn => [\A fp \in Fingerprint : PageSent(fp) => fp \in Known]_vars
  BY DEF ProcessesOn, PageSent
<1>2. QED
  BY <1>1, ProcessesOnHolds, PTL DEF PageMeansSeen

-----------------------------------------------------------------------------
(* Where a store call can be in flight, and what is still to do meanwhile.  *)

InPhase ==
    /\ pc \in {"asleep", "dead"} => Idle
    /\ call.at \in {"set", "page", "alert"} => pc = "process" /\ call.fp \in triggered \ todo
    /\ call.at \in {"delete", "recover"} => pc = "resolve" /\ call.fp \notin triggered \cup todo
    /\ pc = "process" => todo \subseteq triggered
    /\ pc = "resolve" => todo \cap triggered = {}

\* The call in flight moves on only through its own steps (alert_state.py).

LEMMA StoreAlertCall ==
    ASSUME StoreTypeOK, StoreAlert
    PROVE  /\ pc = "process" /\ UNCHANGED <<loopVars, historyVars>>
           /\ call' = NoCall \/ (call'.fp = call.fp /\ call'.at \in {"page", "alert"})
           /\ call.at \in {"set", "page"}
<1>1. pc = "process" /\ UNCHANGED <<loopVars, historyVars>>
  BY DEF StoreAlert
<1>2. ASSUME NEW reply, ProcessSet(reply)
      PROVE  call.at = "set" /\ (call' = NoCall \/ (call'.fp = call.fp /\ call'.at = "page"))
  BY <1>2 DEF ProcessSet, Return
<1>3. ASSUME NEW reply, PageSet(reply)
      PROVE  call.at = "page" /\ call'.fp = call.fp /\ call'.at = "alert"
  BY <1>3 DEF PageSet, StoreTypeOK, Call, NoCall
<1>4. QED
  BY <1>1, <1>2, <1>3 DEF StoreAlert

LEMMA DeleteAlertCall ==
    ASSUME StoreTypeOK, DeleteAlert
    PROVE  /\ pc = "resolve" /\ UNCHANGED <<loopVars, historyVars>>
           /\ call.at = "delete"
           /\ call' = NoCall \/ (call'.fp = call.fp /\ call'.at = "recover")
  BY DEF DeleteAlert, ResolveDelete, Return, StoreTypeOK, Call, NoCall

LEMMA NoCallIdle == NoCall.at = "idle"
  BY DEF NoCall

\* A store call is in flight only in its phase of the cycle, for an alert that
\* is no longer to do; the loop awaits each call (runner.py, run_cycle).
THEOREM PhasesHold == Spec => []InPhase
<1>1. Init => InPhase
  BY NoCallIdle DEF Init, StoreInit, InPhase, Idle
<1>2. InPhase /\ TypeOK /\ [Next]_vars => InPhase'
  <2> SUFFICES ASSUME InPhase, TypeOK, [Next]_vars PROVE InPhase'
    OBVIOUS
  <2> USE NoCallIdle
  <2>1. CASE StartCycle
    <3>1. todo' = triggered' /\ pc' = "process" /\ call' = call /\ Idle
      BY <2>1 DEF StartCycle, InPhase
    <3>2. QED
      BY <3>1 DEF InPhase, Idle
  <2>2. ASSUME NEW fp \in Fingerprint, Process(fp) PROVE InPhase'
    BY <2>2 DEF Process, ProcessGet, InPhase, Idle
  <2>3. ASSUME NEW fp \in Fingerprint, Resolve(fp) PROVE InPhase'
    BY <2>3 DEF Resolve, ResolveGet, InPhase, Idle
  <2>4. CASE StoreAlert
    BY <2>4, StoreAlertCall DEF InPhase, Idle, TypeOK, loopVars
  <2>5. CASE SendAlert
    BY <2>5 DEF SendAlert, Return, InPhase, Idle, loopVars
  <2>6. CASE ListActive
    BY <2>6 DEF ListActive, InPhase, Idle, storeVars
  <2>7. CASE DeleteAlert
    BY <2>7, DeleteAlertCall DEF InPhase, Idle, TypeOK, loopVars
  <2>8. CASE SendRecovery
    BY <2>8 DEF SendRecovery, Return, InPhase, Idle, loopVars
  <2>9. CASE EndCycle
    BY <2>9 DEF EndCycle, ForgetCycle, InPhase, Idle, storeVars
  <2>10. CASE Crash
    BY <2>10 DEF Crash, Return, InPhase, Idle
  <2>11. CASE Down
    BY <2>11 DEF Down, InPhase, Idle, loopVars
  <2>12. CASE Restart
    BY <2>12 DEF Restart, InPhase, Idle, storeVars
  <2>13. CASE ExpireKey \/ EvictKey
    BY <2>13 DEF ExpireKey, EvictKey, Expire, Evict, Lose, InPhase, Idle, loopVars
  <2>14. CASE UNCHANGED vars
    BY <2>14 DEF vars, storeVars, loopVars, InPhase, Idle
  <2>15. QED
    BY <2>1, <2>2, <2>3, <2>4, <2>5, <2>6, <2>7, <2>8, <2>9, <2>10, <2>11,
       <2>12, <2>13, <2>14 DEF Next, CycleStep
<1>3. QED
  BY <1>1, <1>2, TypeCorrect, PTL DEF Spec

-----------------------------------------------------------------------------
(* With Redis answering: what is written follows what was read.             *)

LEMMA SetAnswered ==
    ASSUME StoreTypeOK, NEW fp \in Fingerprint, NEW e, Set(fp, e, "ok")
    PROVE  /\ redis'[fp] = e /\ ttl'[fp] = Expiry
           /\ \A f \in Fingerprint \ {fp} : redis'[f] = redis[f] /\ ttl'[f] = ttl[f]
  BY DEF StoreTypeOK, Set

LEMMA DeleteAnswered ==
    ASSUME StoreTypeOK, NEW fp \in Fingerprint, Delete(fp, "ok")
    PROVE  /\ redis'[fp] = NoEntry
           /\ \A f \in Fingerprint \ {fp} : redis'[f] = redis[f] /\ ttl'[f] = ttl[f]
  BY DEF StoreTypeOK, Delete

\* One lemma per step of a call, for a Redis that answers.

LEMMA ProcessAnswered ==
    ASSUME StoreTypeOK, Replies = {"ok"}, NEW fp \in Fingerprint, Process(fp)
    PROVE  /\ Idle /\ UNCHANGED <<redis, ttl, pc, triggered, carried, blind, blindFor, historyVars>>
           /\ fp \in todo /\ todo' = todo \ {fp} /\ pc = "process"
           /\ call'.at = "set" /\ call'.fp = fp
           /\ \E severity \in Severity :
                \/ redis[fp] = NoEntry /\ call'.state = Fresh(severity)
                \/ redis[fp] \in Entry /\ call'.state = Retrigger(redis[fp], severity)
<1>1. PICK severity \in Severities[fp] : ProcessGet(fp, severity, "ok")
  BY DEF Process
<1>2. severity \in Severity
  BY AgentAssumption
<1>3. redis[fp] = NoEntry \/ redis[fp] \in Entry
  BY DEF StoreTypeOK
<1>4. QED
  BY <1>1, <1>2, <1>3, NoEntryNotEntry DEF Process, ProcessGet, Get

LEMMA StoreAlertAnswered ==
    ASSUME StoreTypeOK, Replies = {"ok"}, StoreAlert
    PROVE  /\ call.fp \in Fingerprint /\ call.state \in Entry
           /\ redis'[call.fp] = call.state /\ ttl'[call.fp] = Expiry
           /\ \A f \in Fingerprint \ {call.fp} : redis'[f] = redis[f] /\ ttl'[f] = ttl[f]
           /\ \/ call.at = "set" /\ ~ShouldPage(call.state) /\ call' = NoCall
              \/ /\ call.at = "set" /\ ShouldPage(call.state)
                 /\ call'.at = "page" /\ call'.fp = call.fp /\ call'.state = Paged(call.state)
              \/ /\ call.at = "page"
                 /\ call'.at = "alert" /\ call'.fp = call.fp /\ call'.state = call.state
<1>1. CASE ProcessSet("ok")
  <2>1. call.fp \in Fingerprint /\ call.state \in Entry
    BY <1>1, BusyCall DEF ProcessSet, Idle
  <2>2. QED
    BY <1>1, <2>1, SetAnswered DEF ProcessSet, Return
<1>2. CASE PageSet("ok")
  <2>1. call.fp \in Fingerprint /\ call.state \in Entry
    BY <1>2, BusyCall DEF PageSet, Idle
  <2>2. call'.at = "alert" /\ call'.fp = call.fp /\ call'.state = call.state
    BY <1>2 DEF PageSet, StoreTypeOK, Call, NoCall
  <2>3. QED
    BY <1>2, <2>1, <2>2, SetAnswered DEF PageSet
<1>3. QED
  BY <1>1, <1>2 DEF StoreAlert

LEMMA ResolveAnswered ==
    ASSUME StoreTypeOK, Replies = {"ok"}, NEW fp \in Fingerprint, Resolve(fp)
    PROVE  /\ Idle /\ UNCHANGED <<redis, ttl, pc, triggered, carried, blind, blindFor, historyVars>>
           /\ fp \in todo /\ todo' = todo \ {fp} /\ pc = "resolve"
           /\ \/ redis[fp] = NoEntry /\ call' = call
              \/ /\ redis[fp] \in Entry
                 /\ call'.at = "delete" /\ call'.fp = fp /\ call'.state = redis[fp]
  BY DEF Resolve, ResolveGet, Get, StoreTypeOK

LEMMA DeleteAlertAnswered ==
    ASSUME StoreTypeOK, Replies = {"ok"}, DeleteAlert
    PROVE  /\ call.at = "delete" /\ call.fp \in Fingerprint /\ call.state \in Entry
           /\ redis'[call.fp] = NoEntry
           /\ \A f \in Fingerprint \ {call.fp} : redis'[f] = redis[f] /\ ttl'[f] = ttl[f]
           /\ \/ call.state.paged /\ call'.at = "recover" /\ call'.fp = call.fp
              \/ ~call.state.paged /\ call' = NoCall
<1>1. ResolveDelete("ok")
  BY DEF DeleteAlert
<1>2. call.at = "delete" /\ call.fp \in Fingerprint /\ call.state \in Entry
  BY <1>1, BusyCall DEF ResolveDelete, Idle
<1>3. call.state.paged => call'.at = "recover" /\ call'.fp = call.fp
  BY <1>1 DEF ResolveDelete, StoreTypeOK, Call, NoCall
<1>4. QED
  BY <1>1, <1>2, <1>3, DeleteAnswered DEF ResolveDelete, Return

\* A HIGH entry without a page is in the middle of being paged.
HighPages ==
    /\ \A fp \in Fingerprint :
         redis[fp].severity = "HIGH" /\ ~redis[fp].paged => call.at = "page" /\ call.fp = fp
    /\ call.at \in {"page", "alert"} => call.state.paged

LEMMA AgedKeeps ==
    ASSUME NEW e \in Entry \cup {NoEntry}
    PROVE  /\ Aged(e).severity = e.severity
           /\ Aged(e).paged <=> e.paged
           /\ Aged(e) = NoEntry <=> e = NoEntry
           /\ Aged(e).sincePaged = IF e.sincePaged < Dedup THEN e.sincePaged + 1 ELSE Dedup
<1>1. CASE e = NoEntry \/ e.sincePaged = Dedup
  <2>1. Aged(e) = e /\ e.sincePaged = Dedup
    BY <1>1 DEF Aged, NoEntry
  <2>2. QED
    BY <2>1
<1>2. CASE e # NoEntry /\ e.sincePaged # Dedup
  <2>1. e \in Entry /\ Aged(e) = [e EXCEPT !.sincePaged = @ + 1]
    BY <1>2 DEF Aged
  <2>2. Aged(e) \in Entry
    BY <1>2, <2>1 DEF Entry
  <2>3. QED
    BY <1>2, <2>1, <2>2, NoEntryNotEntry DEF Entry
<1>3. QED
  BY <1>1, <1>2

LEMMA HighShouldPage ==
    ASSUME NEW e \in Entry, e.severity = "HIGH", ~e.paged
    PROVE  ShouldPage(e)
  BY DEF ShouldPage

LEMMA PagedIsPaged == \A e : Paged(e).paged
  BY DEF Paged

LEMMA NoEntryUnpaged == NoEntry.severity = "WARN" /\ ~NoEntry.paged
  BY DEF NoEntry

\* With Redis answering and no crash, no HIGH alert rests in the store unpaged
\* (process()), whatever the detectors report and even if keys vanish.
THEOREM HighAlertsArePaged ==
    ASSUME Replies = {"ok"}, Crashes = FALSE
    PROVE  Spec => []HighIsPaged
<1>1. Init => HighPages
  BY NoCallIdle, NoEntryUnpaged DEF Init, StoreInit, HighPages
<1>2. HighPages /\ InPhase /\ TypeOK /\ [Next]_vars => HighPages'
  <2> SUFFICES ASSUME HighPages, InPhase, TypeOK, [Next]_vars PROVE HighPages'
    OBVIOUS
  <2> USE NoCallIdle, NoEntryUnpaged
  <2>1. StoreTypeOK
    BY DEF TypeOK
  <2>2. ASSUME Age, UNCHANGED call PROVE HighPages'
    <3>1. \A fp \in Fingerprint : /\ Aged(redis[fp]).severity = redis[fp].severity
                                  /\ Aged(redis[fp]).paged <=> redis[fp].paged
      BY <2>1, AgedKeeps DEF StoreTypeOK
    <3>2. QED
      BY <2>2, <3>1 DEF Age, HighPages
  <2>3. ASSUME NEW fp \in Fingerprint, Lose(fp) PROVE HighPages'
    BY <2>1, <2>3 DEF Lose, HighPages, StoreTypeOK
  <2>4. CASE StartCycle \/ Down
    BY <2>2, <2>4 DEF StartCycle, Down, ClockTicks
  <2>5. ASSUME NEW fp \in Fingerprint, Process(fp) PROVE HighPages'
    BY <2>1, <2>5, ProcessAnswered DEF HighPages, Idle
  <2>6. CASE StoreAlert
    BY <2>1, <2>6, StoreAlertAnswered, HighShouldPage, PagedIsPaged DEF HighPages
  <2>7. CASE SendAlert
    BY <2>7 DEF SendAlert, Return, HighPages
  <2>8. ASSUME NEW fp \in Fingerprint, Resolve(fp) PROVE HighPages'
    BY <2>1, <2>8, ResolveAnswered DEF HighPages, Idle
  <2>9. CASE DeleteAlert
    BY <2>1, <2>9, DeleteAlertAnswered DEF HighPages
  <2>10. CASE SendRecovery
    BY <2>10 DEF SendRecovery, Return, HighPages
  <2>11. CASE ListActive \/ EndCycle \/ Restart
    BY <2>11 DEF ListActive, EndCycle, Restart, storeVars, HighPages
  <2>12. CASE ExpireKey \/ EvictKey
    BY <2>3, <2>12 DEF ExpireKey, EvictKey, Expire, Evict
  <2>13. CASE UNCHANGED vars
    BY <2>13 DEF vars, storeVars, HighPages
  <2>14. QED
    BY <2>4, <2>5, <2>6, <2>7, <2>8, <2>9, <2>10, <2>11, <2>12, <2>13
       DEF Next, CycleStep, Crash
<1>3. HighPages => HighIsPaged
  BY DEF HighPages, HighIsPaged, Idle
<1>4. QED
  BY <1>1, <1>2, <1>3, TypeCorrect, PhasesHold, PTL DEF Spec

\* While a call holds an entry it read, the key it will write back still has
\* the severity it was read with, or has vanished.
WriteFollowsRead ==
    /\ call.at = "set" /\ redis[call.fp] # NoEntry /\ redis[call.fp].severity = "WARN"
         => call.state.severity = "WARN" \/ ~call.state.paged
    /\ call.at = "page" /\ redis[call.fp] # NoEntry => redis[call.fp].severity = call.state.severity

LEMMA RetriggerReopens ==
    ASSUME NEW e \in Entry, NEW severity \in Severity, e.severity = "WARN"
    PROVE  Retrigger(e, severity).severity = "WARN" \/ ~Retrigger(e, severity).paged
  BY DEF Retrigger, Escalates, Entry, Severity

LEMMA PagedSeverity == \A e : Paged(e).severity = e.severity
  BY DEF Paged

\* With Redis answering, an alert that escalates loses its paged mark in the
\* same write (process()), also when the agent dies or keys vanish in between.
THEOREM EscalationsReopen ==
    ASSUME Replies = {"ok"}
    PROVE  Spec => EscalationReopens
<1> DEFINE Reopens == \A fp \in Fingerprint :
               /\ redis[fp] # NoEntry /\ redis[fp].severity = "WARN"
               /\ redis'[fp].severity = "HIGH"
               => ~redis'[fp].paged
<1> USE NoCallIdle, NoEntryUnpaged
<1>1. Init => WriteFollowsRead
  BY DEF Init, StoreInit, WriteFollowsRead
<1>2. WriteFollowsRead /\ InPhase /\ TypeOK /\ [Next]_vars
        => WriteFollowsRead' /\ (Reopens \/ UNCHANGED storeVars)
  <2> SUFFICES ASSUME WriteFollowsRead, InPhase, TypeOK, [Next]_vars
               PROVE  WriteFollowsRead' /\ (Reopens \/ UNCHANGED storeVars)
    OBVIOUS
  <2>1. StoreTypeOK
    BY DEF TypeOK
  <2>2. ASSUME Age, UNCHANGED call, Idle PROVE WriteFollowsRead' /\ Reopens
    <3>1. \A fp \in Fingerprint : Aged(redis[fp]).severity = redis[fp].severity
      BY <2>1, AgedKeeps DEF StoreTypeOK
    <3>2. Reopens
      BY <2>2, <3>1 DEF Age
    <3>3. QED
      BY <2>2, <3>2 DEF WriteFollowsRead, Idle
  <2>3. ASSUME NEW fp \in Fingerprint, Lose(fp) PROVE WriteFollowsRead' /\ Reopens
    <3>1. \A f \in Fingerprint : redis'[f] = NoEntry \/ redis'[f] = redis[f]
      BY <2>1, <2>3 DEF Lose, StoreTypeOK
    <3>2. call.at # "idle" => call.fp \in Fingerprint
      BY <2>1, BusyCall DEF Idle
    <3>3. QED
      BY <2>3, <3>1, <3>2 DEF Lose, WriteFollowsRead
  <2>4. ASSUME UNCHANGED redis, Idle' PROVE WriteFollowsRead' /\ Reopens
    BY <2>4 DEF WriteFollowsRead, Idle
  <2>5. CASE StartCycle \/ Down
    BY <2>2, <2>5 DEF StartCycle, Down, ClockTicks, InPhase
  <2>6. ASSUME NEW fp \in Fingerprint, Process(fp) PROVE WriteFollowsRead' /\ Reopens
    <3>1. Reopens
      BY <2>1, <2>6, ProcessAnswered
    <3>2. redis'[fp] # NoEntry /\ redis'[fp].severity = "WARN"
            => call'.state.severity = "WARN" \/ ~call'.state.paged
      BY <2>1, <2>6, ProcessAnswered, RetriggerReopens
    <3>3. QED
      BY <2>1, <2>6, <3>1, <3>2, ProcessAnswered DEF WriteFollowsRead
  <2>7. CASE StoreAlert
    <3>1. Reopens
      BY <2>1, <2>7, StoreAlertAnswered DEF WriteFollowsRead, Entry, Severity
    <3>2. WriteFollowsRead'
      BY <2>1, <2>7, StoreAlertAnswered, PagedSeverity DEF WriteFollowsRead
    <3>3. QED
      BY <3>1, <3>2
  <2>8. CASE SendAlert \/ SendRecovery
    BY <2>4, <2>8 DEF SendAlert, SendRecovery, Return, Idle
  <2>9. ASSUME NEW fp \in Fingerprint, Resolve(fp) PROVE WriteFollowsRead' /\ Reopens
    BY <2>1, <2>9, ResolveAnswered DEF WriteFollowsRead, Idle
  <2>10. CASE DeleteAlert
    BY <2>1, <2>10, DeleteAlertAnswered DEF WriteFollowsRead
  <2>11. CASE ListActive \/ EndCycle \/ Restart
    BY <2>11 DEF ListActive, EndCycle, Restart, storeVars, WriteFollowsRead
  <2>12. CASE Crash
    BY <2>4, <2>12 DEF Crash, Return, Idle
  <2>13. CASE ExpireKey \/ EvictKey
    BY <2>3, <2>13 DEF ExpireKey, EvictKey, Expire, Evict
  <2>14. CASE UNCHANGED vars
    BY <2>14 DEF vars, storeVars, WriteFollowsRead
  <2>15. QED
    BY <2>5, <2>6, <2>7, <2>8, <2>9, <2>10, <2>11, <2>12, <2>13, <2>14
       DEF Next, CycleStep
<1>3. WriteFollowsRead /\ InPhase /\ TypeOK /\ [Next]_vars => WriteFollowsRead'
  BY <1>2
<1>4. WriteFollowsRead /\ InPhase /\ TypeOK /\ [Next]_vars => [Reopens]_storeVars
  BY <1>2
<1>5. QED
  BY <1>1, <1>3, <1>4, TypeCorrect, PhasesHold, PTL DEF Spec, EscalationReopens

-----------------------------------------------------------------------------
(* With Redis answering, no crash and no blindness as long as the TTL: what *)
(* the store holds between, and during, two cycles.                         *)

\* How many cycles in a row the source of an alert has been blind.
Blindness(fp) == IF fp \in SourceBound THEN blindFor[CondSource[CondOf[fp]]] ELSE 0

\* No key runs out: one that was not written in a cycle was carried, and it has
\* lost one tick for each blind cycle.  The alerts processed so far are in the
\* store, and in the resolve pass every key fired, is carried or is still to go.
Kept ==
    /\ pc # "dead"
    /\ \A fp \in Fingerprint : redis[fp] # NoEntry => ttl[fp] > 0
    /\ \A fp \in Fingerprint :
         redis[fp] # NoEntry /\ (pc = "asleep" \/ SourceIsBlind(fp))
           => ttl[fp] + Blindness(fp) >= Expiry
    /\ pc \in {"process", "resolve"} =>
         \A fp \in triggered :
           \/ fp \in todo
           \/ call.at = "set" /\ call.fp = fp
           \/ redis[fp] # NoEntry /\ ttl[fp] = Expiry
    /\ pc = "resolve" =>
         /\ \A fp \in Fingerprint :
              redis[fp] # NoEntry =>
                fp \in triggered \cup carried \cup todo \/ (call.at = "delete" /\ call.fp = fp)
         /\ \A fp \in carried : redis[fp] # NoEntry /\ SourceIsBlind(fp)
         /\ todo \cap carried = {}
         /\ call.at \in {"delete", "recover"} => call.fp \notin carried

LEMMA StartCycleLooks ==
    ASSUME TypeOK, StartCycle
    PROVE  /\ Age /\ pc = "asleep" /\ pc' = "process" /\ call' = call
           /\ todo' = triggered' /\ triggered' \subseteq Fingerprint
           /\ blind' \subseteq Source
           /\ \A s \in Source : blindFor'[s] = IF s \in blind' THEN blindFor[s] + 1 ELSE 0
<1>1. PICK unseen \in SUBSET Source, broken \in SUBSET Condition,
           holds \in SUBSET Condition, label \in Labels :
        /\ blind' = unseen
        /\ blindFor' = [s \in Source |-> IF s \in unseen THEN blindFor[s] + 1 ELSE 0]
        /\ triggered' = Results(unseen, broken, holds, label)
        /\ todo' = triggered'
  BY DEF StartCycle
<1>2. triggered' \subseteq Fingerprint
  BY <1>1, FingerprintAssumption, ConditionAssumption DEF Results, Labels
<1>3. QED
  BY <1>1, <1>2 DEF StartCycle, ClockTicks

LEMMA BlindnessBounded ==
    ASSUME TypeOK, NEW fp \in Fingerprint
    PROVE  Blindness(fp) \in 0..MaxBlind
  BY AgentAssumption, ConditionAssumption DEF Blindness, TypeOK

LEMMA AgeLive ==
    ASSUME StoreTypeOK, Age, NEW fp \in Fingerprint, redis[fp] # NoEntry => ttl[fp] > 0
    PROVE  /\ redis'[fp] = Aged(redis[fp])
           /\ redis'[fp] # NoEntry => redis[fp] # NoEntry /\ ttl'[fp] = ttl[fp] - 1
<1>1. Aged(NoEntry) = NoEntry
  BY DEF Aged
<1>2. Aged(redis[fp]) = NoEntry <=> redis[fp] = NoEntry
  BY AgedKeeps DEF StoreTypeOK
<1>3. QED
  BY <1>1, <1>2 DEF Age, StoreTypeOK

LEMMA NothingLost ==
    ASSUME StoreTypeOK, Kept, Forgets = FALSE
    PROVE  ~ExpireKey /\ ~EvictKey
  BY DEF StoreTypeOK, Kept, ExpireKey, Expire, EvictKey, Evict, Lose

LEMMA FreshPresent ==
    ASSUME NEW e \in Entry
    PROVE  e # NoEntry
  BY NoEntryNotEntry

\* No key runs out under the loop while Redis answers, nothing crashes and no
\* source is blind as long as the TTL (alert_state.py, SETEX; runner.py).
THEOREM KeptHolds ==
    ASSUME Replies = {"ok"}, Forgets = FALSE, Crashes = FALSE, MaxBlind + 1 < Expiry
    PROVE  Spec => []Kept
<1> USE NoCallIdle
<1>1. Init => Kept
  BY DEF Init, StoreInit, Kept
<1>2. Kept /\ InPhase /\ TypeOK /\ [Next]_vars => Kept'
  <2> SUFFICES ASSUME Kept, InPhase, TypeOK, [Next]_vars PROVE Kept'
    OBVIOUS
  <2>1. StoreTypeOK
    BY DEF TypeOK
  <2>2. CASE StartCycle
    <3>1. /\ Age /\ pc = "asleep" /\ pc' = "process" /\ todo' = triggered'
          /\ blind' \subseteq Source
          /\ \A s \in Source : blindFor'[s] = IF s \in blind' THEN blindFor[s] + 1 ELSE 0
      BY <2>2, StartCycleLooks
    <3>2. ASSUME NEW fp \in Fingerprint, redis'[fp] # NoEntry
          PROVE  /\ ttl'[fp] > 0
                 /\ SourceIsBlind(fp)' => ttl'[fp] + Blindness(fp)' >= Expiry
      <4>1. redis[fp] # NoEntry /\ ttl'[fp] = ttl[fp] - 1
        BY <2>1, <3>1, <3>2, AgeLive DEF Kept
      <4>2. ttl[fp] + Blindness(fp) >= Expiry /\ ttl[fp] \in Nat
        BY <2>1, <3>1, <4>1 DEF Kept, StoreTypeOK
      <4>3. Blindness(fp) \in Nat /\ Blindness(fp) <= MaxBlind
        BY BlindnessBounded, AgentAssumption
      <4>4. SourceIsBlind(fp)' => Blindness(fp)' = Blindness(fp) + 1
        BY <3>1, ConditionAssumption DEF SourceIsBlind, Blindness
      <4>5. QED
        BY <4>1, <4>2, <4>3, <4>4, AgentAssumption
    <3>3. QED
      BY <3>1, <3>2 DEF Kept
  <2>3. ASSUME NEW fp \in Fingerprint, Process(fp) PROVE Kept'
    BY <2>1, <2>3, ProcessAnswered DEF Kept, InPhase, Idle, SourceIsBlind, Blindness
  <2>4. CASE StoreAlert
    <3>1. /\ pc = "process" /\ UNCHANGED <<pc, todo, triggered, carried, blind, blindFor>>
          /\ call.fp \in Fingerprint /\ call.state # NoEntry
          /\ redis'[call.fp] = call.state /\ ttl'[call.fp] = Expiry
          /\ \A f \in Fingerprint \ {call.fp} : redis'[f] = redis[f] /\ ttl'[f] = ttl[f]
      BY <2>1, <2>4, StoreAlertAnswered, StoreAlertCall, FreshPresent DEF loopVars
    <3>2. \A f \in Fingerprint : /\ Blindness(f)' = Blindness(f) /\ Blindness(f) \in Nat
                                 /\ SourceIsBlind(f)' <=> SourceIsBlind(f)
      BY <3>1, BlindnessBounded, AgentAssumption DEF Blindness, SourceIsBlind
    <3>3. ASSUME NEW f \in Fingerprint, redis'[f] # NoEntry
          PROVE  /\ ttl'[f] > 0
                 /\ SourceIsBlind(f)' => ttl'[f] + Blindness(f)' >= Expiry
      BY <3>1, <3>2, <3>3 DEF Kept
    <3>4. ASSUME NEW f \in triggered, f \notin todo, ~(call'.at = "set" /\ call'.fp = f)
          PROVE  redis'[f] # NoEntry /\ ttl'[f] = Expiry
      BY <3>1, <3>4 DEF Kept, TypeOK
    <3>5. QED
      BY <3>1, <3>3, <3>4 DEF Kept
  <2>5. CASE SendAlert
    BY <2>5 DEF SendAlert, Return, Kept, loopVars, SourceIsBlind, Blindness
  <2>6. CASE ListActive
    <3>1. /\ UNCHANGED <<redis, ttl, call, triggered, blind, blindFor>>
          /\ pc = "process" /\ todo = {} /\ Idle /\ pc' = "resolve"
          /\ carried' = {fp \in Fingerprint : /\ redis[fp] # NoEntry /\ fp \notin triggered
                                              /\ SourceIsBlind(fp)}
          /\ todo' = {fp \in Fingerprint : /\ redis[fp] # NoEntry /\ fp \notin triggered
                                           /\ ~SourceIsBlind(fp)}
      BY <2>6 DEF ListActive, ActiveFingerprints, Get, storeVars
    <3>2. QED
      BY <3>1 DEF Kept, Idle, SourceIsBlind, Blindness
  <2>7. ASSUME NEW fp \in Fingerprint, Resolve(fp) PROVE Kept'
    BY <2>1, <2>7, ResolveAnswered DEF Kept, InPhase, Idle, SourceIsBlind, Blindness
  <2>8. CASE DeleteAlert
    <3>1. /\ pc = "resolve" /\ UNCHANGED <<pc, todo, triggered, carried, blind, blindFor>>
          /\ call.at = "delete" /\ call.fp \in Fingerprint
          /\ redis'[call.fp] = NoEntry
          /\ \A f \in Fingerprint \ {call.fp} : redis'[f] = redis[f] /\ ttl'[f] = ttl[f]
          /\ call' = NoCall \/ (call'.fp = call.fp /\ call'.at = "recover")
      BY <2>1, <2>8, DeleteAlertAnswered, DeleteAlertCall DEF loopVars
    <3>2. call.fp \notin triggered \cup carried
      BY <3>1 DEF InPhase, Kept
    <3>3. triggered \subseteq Fingerprint /\ carried \subseteq Fingerprint
      BY DEF TypeOK
    <3>4. QED
      BY <3>1, <3>2, <3>3 DEF Kept, SourceIsBlind, Blindness
  <2>9. CASE SendRecovery
    BY <2>9 DEF SendRecovery, Return, Kept, loopVars, SourceIsBlind, Blindness
  <2>10. CASE EndCycle
    <3>1. /\ UNCHANGED <<redis, ttl, call, blindFor>> /\ pc' = "asleep"
          /\ pc = "resolve" /\ todo = {} /\ Idle
      BY <2>10 DEF EndCycle, storeVars
    <3>2. ASSUME NEW fp \in Fingerprint, redis[fp] # NoEntry
          PROVE  ttl[fp] + Blindness(fp) >= Expiry
      <4>1. CASE fp \in triggered
        BY <3>1, <4>1, BlindnessBounded, AgentAssumption DEF Kept, Idle
      <4>2. CASE fp \in carried
        BY <3>1, <3>2, <4>2 DEF Kept
      <4>3. QED
        BY <3>1, <3>2, <4>1, <4>2 DEF Kept, Idle
    <3>3. QED
      BY <3>1, <3>2 DEF Kept, Blindness
  <2>11. CASE ExpireKey \/ EvictKey
    BY <2>1, <2>11, NothingLost
  <2>12. CASE UNCHANGED vars
    BY <2>12 DEF vars, storeVars, loopVars, Kept, SourceIsBlind, Blindness
  <2>13. QED
    BY <2>2, <2>3, <2>4, <2>5, <2>6, <2>7, <2>8, <2>9, <2>10, <2>11, <2>12
       DEF Next, CycleStep, Crash, Down, Restart, Kept
<1>3. QED
  BY <1>1, <1>2, TypeCorrect, PhasesHold, PTL DEF Spec

\* With Redis answering, no crash and no source blind as long as the TTL, the
\* number of firing alerts the heartbeat publishes is what the panel would find
\* in the store at that moment (runner.py, _write_heartbeat).
THEOREM HeartbeatIsTrue ==
    ASSUME Replies = {"ok"}, Forgets = FALSE, Crashes = FALSE, MaxBlind + 1 < Expiry
    PROVE  Spec => HeartbeatCountsActive
<1>1. Kept /\ TypeOK => [EndCycle => heartbeat'.firing = ActiveFingerprints("ok")]_vars
  <2> SUFFICES ASSUME Kept, TypeOK, EndCycle
               PROVE  heartbeat'.firing = ActiveFingerprints("ok")
    OBVIOUS
  <2>1. pc = "resolve" /\ todo = {} /\ call.at = "idle" /\ heartbeat'.firing = triggered \cup carried
    BY DEF EndCycle, Idle
  <2>2. triggered \subseteq Fingerprint /\ carried \subseteq Fingerprint
    BY DEF TypeOK
  <2>3. \A fp \in triggered \cup carried : redis[fp] # NoEntry
    BY <2>1 DEF Kept
  <2>4. \A fp \in Fingerprint : redis[fp] # NoEntry => fp \in triggered \cup carried
    BY <2>1 DEF Kept
  <2>5. QED
    BY <2>1, <2>2, <2>3, <2>4 DEF ActiveFingerprints, Get
<1>2. QED
  BY <1>1, KeptHolds, TypeCorrect, PTL DEF HeartbeatCountsActive

-----------------------------------------------------------------------------
(* The conversation with the owner and the store's entries go together.     *)

\* An entry agrees with what the owner was told last.
Agrees(fp, e) ==
    /\ Open(fp) <=> e.paged
    /\ e.paged => told[fp] = e.severity /\ sinceTold[fp] = e.sincePaged

\* What the contract asks of a page.
MayPage(fp, severity) ==
    \/ ~Open(fp)
    \/ sinceTold[fp] = Dedup
    \/ told[fp] = "WARN" /\ severity = "HIGH"

\* Every entry agrees, but for the one being paged or recovered; the dict in
\* flight agrees or is an escalation, and is paged only when a page is due.
Tracks ==
    /\ \A fp \in Fingerprint :
         (call.at \in {"page", "alert", "recover"} /\ call.fp = fp) \/ Agrees(fp, redis[fp])
    /\ call.at = "set" =>
         \/ Agrees(call.fp, call.state)
         \/ ~call.state.paged /\ told[call.fp] = "WARN" /\ call.state.severity = "HIGH"
    /\ call.at \in {"page", "alert"} =>
         /\ call.state.paged /\ call.state.sincePaged = 0
         /\ MayPage(call.fp, call.state.severity)
    /\ call.at \in {"alert", "delete"} => redis[call.fp] = call.state
    /\ call.at = "recover" => redis[call.fp] = NoEntry /\ Open(call.fp)

LEMMA FreshUnpaged == \A severity : ~Fresh(severity).paged
  BY DEF Fresh

LEMMA RetriggerAgrees ==
    ASSUME NEW fp \in Fingerprint, NEW e \in Entry, NEW severity \in Severity, Agrees(fp, e)
    PROVE  LET r == Retrigger(e, severity)
           IN  Agrees(fp, r) \/ (~r.paged /\ told[fp] = "WARN" /\ r.severity = "HIGH")
<1> DEFINE r == Retrigger(e, severity)
<1>1. CASE Escalates(e, severity)
  <2>1. ~r.paged /\ r.severity = "HIGH" /\ e.severity = "WARN"
    BY <1>1 DEF Retrigger, Escalates
  <2>2. QED
    BY <2>1 DEF Agrees
<1>2. CASE ~Escalates(e, severity)
  <2>1. (r.paged <=> e.paged) /\ r.severity = e.severity /\ r.sincePaged = e.sincePaged
    BY <1>2 DEF Retrigger, Entry
  <2>2. QED
    BY <2>1 DEF Agrees
<1>3. QED
  BY <1>1, <1>2

LEMMA PageIsDue ==
    ASSUME NEW fp \in Fingerprint, NEW e \in Entry, ShouldPage(e),
           Agrees(fp, e) \/ (~e.paged /\ told[fp] = "WARN" /\ e.severity = "HIGH")
    PROVE  MayPage(fp, e.severity)
  BY DEF ShouldPage, WithinDedup, Agrees, MayPage, Entry

LEMMA PagedFields ==
    ASSUME NEW e \in Entry
    PROVE  Paged(e).paged /\ Paged(e).sincePaged = 0 /\ Paged(e).severity = e.severity
  BY DEF Paged

LEMMA AgedAgrees ==
    ASSUME TypeOK, NEW fp \in Fingerprint, Agrees(fp, redis[fp]),
           redis'[fp] = Aged(redis[fp]), UNCHANGED told,
           sinceTold'[fp] = IF sinceTold[fp] < Dedup THEN sinceTold[fp] + 1 ELSE Dedup
    PROVE  Agrees(fp, redis[fp])'
<1>1. /\ redis'[fp].severity = redis[fp].severity
      /\ redis'[fp].paged <=> redis[fp].paged
      /\ redis'[fp].sincePaged =
            IF redis[fp].sincePaged < Dedup THEN redis[fp].sincePaged + 1 ELSE Dedup
  BY AgedKeeps DEF TypeOK, StoreTypeOK
<1>2. QED
  BY <1>1 DEF Agrees, Open

LEMMA SendAlertTells ==
    ASSUME TypeOK, SendAlert
    PROVE  /\ call.fp \in Fingerprint /\ call.at = "alert" /\ pc = "process"
           /\ call.state.severity \in Severity
           /\ UNCHANGED <<redis, ttl, loopVars, believed>> /\ call' = NoCall
           /\ told'[call.fp] = call.state.severity /\ sinceTold'[call.fp] = 0
           /\ \A f \in Fingerprint \ {call.fp} : told'[f] = told[f] /\ sinceTold'[f] = sinceTold[f]
           /\ clearSeen' = clearSeen \ {call.fp}
  BY BusyCall DEF SendAlert, Return, TypeOK, Idle, Entry

LEMMA SendRecoveryTells ==
    ASSUME TypeOK, SendRecovery
    PROVE  /\ call.fp \in Fingerprint /\ call.at = "recover" /\ pc = "resolve"
           /\ UNCHANGED <<redis, ttl, loopVars, believed, sinceTold, clearSeen>> /\ call' = NoCall
           /\ told'[call.fp] = "recovery"
           /\ \A f \in Fingerprint \ {call.fp} : told'[f] = told[f]
  BY BusyCall DEF SendRecovery, Return, TypeOK, StoreTypeOK, Idle

LEMMA NoEntryAgrees ==
    ASSUME NEW fp \in Fingerprint
    PROVE  Agrees(fp, NoEntry) <=> ~Open(fp)
  BY NoEntryUnpaged DEF Agrees

\* In the same regime the store and the conversation with the owner never
\* disagree, but for the one alert being paged or recovered (process, resolve).
THEOREM TracksHolds ==
    ASSUME Replies = {"ok"}, Forgets = FALSE, Crashes = FALSE, MaxBlind + 1 < Expiry
    PROVE  Spec => []Tracks
<1> USE NoCallIdle
<1>1. Init => Tracks
  <2> SUFFICES ASSUME Init PROVE Tracks
    OBVIOUS
  <2>1. \A fp \in Fingerprint : redis[fp] = NoEntry /\ told[fp] = "none"
    BY DEF Init, StoreInit
  <2>2. \A fp \in Fingerprint : Agrees(fp, redis[fp])
    BY <2>1, NoEntryAgrees DEF Open, Severity
  <2>3. QED
    BY <2>2 DEF Init, StoreInit, Tracks
<1>2. Tracks /\ Kept /\ InPhase /\ TypeOK /\ [Next]_vars => Tracks'
  <2> SUFFICES ASSUME Tracks, Kept, InPhase, TypeOK, [Next]_vars PROVE Tracks'
    OBVIOUS
  <2>1. StoreTypeOK
    BY DEF TypeOK
  <2>2. ASSUME UNCHANGED <<redis, call, told, sinceTold>> PROVE Tracks'
    BY <2>2 DEF Tracks, Agrees, MayPage, Open
  <2>3. CASE StartCycle
    <3>1. Idle /\ call' = call /\ UNCHANGED told
      BY <2>3 DEF StartCycle, InPhase
    <3>2. ASSUME NEW fp \in Fingerprint PROVE Agrees(fp, redis[fp])'
      <4>1. redis'[fp] = Aged(redis[fp])
        BY <2>1, <2>3, AgeLive DEF StartCycle, ClockTicks, Kept
      <4>2. sinceTold'[fp] = IF sinceTold[fp] < Dedup THEN sinceTold[fp] + 1 ELSE Dedup
        BY <2>3 DEF StartCycle, ClockTicks
      <4>3. Agrees(fp, redis[fp])
        BY <3>1 DEF Tracks, Idle
      <4>4. QED
        BY <3>1, <4>1, <4>2, <4>3, AgedAgrees
    <3>3. QED
      BY <3>1, <3>2 DEF Tracks, Idle
  <2>4. ASSUME NEW fp \in Fingerprint, Process(fp) PROVE Tracks'
    <3>1. /\ Idle /\ UNCHANGED <<redis, told, sinceTold>>
          /\ call'.at = "set" /\ call'.fp = fp
      BY <2>1, <2>4, ProcessAnswered DEF historyVars
    <3>2. PICK severity \in Severity :
            \/ redis[fp] = NoEntry /\ call'.state = Fresh(severity)
            \/ redis[fp] \in Entry /\ call'.state = Retrigger(redis[fp], severity)
      BY <2>1, <2>4, ProcessAnswered
    <3>3. Agrees(fp, redis[fp])
      BY <3>1 DEF Tracks, Idle
    <3>4. \/ Agrees(fp, call'.state)
          \/ ~call'.state.paged /\ told[fp] = "WARN" /\ call'.state.severity = "HIGH"
      <4>1. CASE redis[fp] = NoEntry /\ call'.state = Fresh(severity)
        BY <3>3, <4>1, FreshUnpaged, NoEntryAgrees DEF Agrees
      <4>2. CASE redis[fp] \in Entry /\ call'.state = Retrigger(redis[fp], severity)
        BY <3>3, <4>2, RetriggerAgrees
      <4>3. QED
        BY <3>2, <4>1, <4>2
    <3>5. QED
      BY <3>1, <3>4 DEF Tracks, Idle, Agrees, Open
  <2>5. CASE StoreAlert
    <3>1. UNCHANGED <<told, sinceTold>>
      BY <2>5 DEF StoreAlert, historyVars
    <3>2. /\ call.fp \in Fingerprint /\ call.state \in Entry
          /\ redis'[call.fp] = call.state
          /\ \A f \in Fingerprint \ {call.fp} : redis'[f] = redis[f]
      BY <2>1, <2>5, StoreAlertAnswered
    <3>3. \A f \in Fingerprint \ {call.fp} : Agrees(f, redis[f])'
      BY <3>1, <3>2 DEF Tracks, Agrees, Open
    <3>4. CASE call.at = "set" /\ ~ShouldPage(call.state) /\ call' = NoCall
      <4>1. Agrees(call.fp, call.state)
        BY <3>2, <3>4, HighShouldPage DEF Tracks
      <4>2. \A f \in Fingerprint : Agrees(f, redis[f])'
        BY <3>1, <3>2, <3>3, <4>1 DEF Agrees, Open
      <4>3. QED
        BY <3>4, <4>2 DEF Tracks
    <3>5. CASE /\ call.at = "set" /\ ShouldPage(call.state)
               /\ call'.at = "page" /\ call'.fp = call.fp /\ call'.state = Paged(call.state)
      <4>1. MayPage(call.fp, call.state.severity)
        BY <3>2, <3>5, PageIsDue DEF Tracks
      <4>2. MayPage(call.fp, call.state.severity)'
        BY <3>1, <3>2, <3>5, <4>1, PagedFields DEF MayPage, Open
      <4>3. QED
        BY <3>2, <3>3, <3>5, <4>2, PagedFields DEF Tracks
    <3>6. CASE /\ call.at = "page"
               /\ call'.at = "alert" /\ call'.fp = call.fp /\ call'.state = call.state
      <4>1. MayPage(call.fp, call.state.severity)'
        BY <3>1, <3>6 DEF Tracks, MayPage, Open
      <4>2. QED
        BY <3>2, <3>3, <3>6, <4>1 DEF Tracks
    <3>7. QED
      BY <2>1, <2>5, <3>4, <3>5, <3>6, StoreAlertAnswered
  <2>6. CASE SendAlert
    <3>1. /\ call.fp \in Fingerprint /\ call.at = "alert" /\ call.state.severity \in Severity
          /\ UNCHANGED redis /\ call' = NoCall
          /\ told'[call.fp] = call.state.severity /\ sinceTold'[call.fp] = 0
          /\ \A f \in Fingerprint \ {call.fp} : told'[f] = told[f] /\ sinceTold'[f] = sinceTold[f]
      BY <2>6, SendAlertTells
    <3>2. redis[call.fp] = call.state /\ call.state.paged /\ call.state.sincePaged = 0
      BY <3>1 DEF Tracks
    <3>3. \A f \in Fingerprint \ {call.fp} : Agrees(f, redis[f])'
      BY <3>1 DEF Tracks, Agrees, Open
    <3>4. \A f \in Fingerprint : Agrees(f, redis[f])'
      BY <3>1, <3>2, <3>3 DEF Agrees, Open
    <3>5. QED
      BY <3>1, <3>4 DEF Tracks
  <2>7. ASSUME NEW fp \in Fingerprint, Resolve(fp) PROVE Tracks'
    BY <2>1, <2>7, ResolveAnswered DEF Tracks, Idle, Agrees, Open, historyVars
  <2>8. CASE DeleteAlert
    <3>1. UNCHANGED <<told, sinceTold>>
      BY <2>8 DEF DeleteAlert, historyVars
    <3>2. /\ call.at = "delete" /\ call.fp \in Fingerprint
          /\ redis'[call.fp] = NoEntry
          /\ \A f \in Fingerprint \ {call.fp} : redis'[f] = redis[f]
          /\ \/ call.state.paged /\ call'.at = "recover" /\ call'.fp = call.fp
             \/ ~call.state.paged /\ call' = NoCall
      BY <2>1, <2>8, DeleteAlertAnswered
    <3>3. \A f \in Fingerprint \ {call.fp} : Agrees(f, redis[f])'
      BY <3>1, <3>2 DEF Tracks, Agrees, Open
    <3>4. Open(call.fp) <=> call.state.paged
      BY <3>2 DEF Tracks, Agrees
    <3>5. ~Open(call.fp) => \A f \in Fingerprint : Agrees(f, redis[f])'
      BY <3>1, <3>2, <3>3, NoEntryUnpaged DEF Agrees, Open
    <3>6. QED
      BY <3>1, <3>2, <3>3, <3>4, <3>5 DEF Tracks, Open
  <2>9. CASE SendRecovery
    <3>1. /\ call.fp \in Fingerprint /\ call.at = "recover"
          /\ UNCHANGED <<redis, sinceTold>> /\ call' = NoCall
          /\ told'[call.fp] = "recovery"
          /\ \A f \in Fingerprint \ {call.fp} : told'[f] = told[f]
      BY <2>9, SendRecoveryTells
    <3>2. redis[call.fp] = NoEntry
      BY <3>1 DEF Tracks
    <3>3. \A f \in Fingerprint : Agrees(f, redis[f])'
      BY <3>1, <3>2, NoEntryUnpaged DEF Tracks, Agrees, Open, Severity
    <3>4. QED
      BY <3>1, <3>3 DEF Tracks
  <2>10. CASE ListActive \/ EndCycle
    BY <2>2, <2>10 DEF ListActive, EndCycle, storeVars, historyVars
  <2>11. CASE ExpireKey \/ EvictKey
    BY <2>1, <2>11, NothingLost
  <2>12. CASE UNCHANGED vars
    BY <2>2, <2>12 DEF vars, storeVars, historyVars
  <2>13. QED
    BY <2>3, <2>4, <2>5, <2>6, <2>7, <2>8, <2>9, <2>10, <2>11, <2>12
       DEF Next, CycleStep, Crash, Down, Restart, Kept
<1>3. QED
  BY <1>1, <1>2, KeptHolds, TypeCorrect, PhasesHold, PTL DEF Spec

\* With Redis answering, no crash and no source blind as long as the TTL, the
\* owner is waiting for a recovery, between two cycles, exactly for the alerts
\* the store holds as paged (alert_state.py, runner.py).
THEOREM OpenPagesAreTracked ==
    ASSUME Replies = {"ok"}, Forgets = FALSE, Crashes = FALSE, MaxBlind + 1 < Expiry
    PROVE  Spec => []OpenIsTracked
<1>1. Tracks /\ InPhase => OpenIsTracked
  BY DEF Tracks, InPhase, Idle, OpenIsTracked, Agrees
<1>2. QED
  BY <1>1, TracksHolds, PhasesHold, PTL

-----------------------------------------------------------------------------
(* The agent implements the contract.                                      *)

LEMMA KnownType == Known \subseteq Fingerprint
  BY FingerprintAssumption DEF Known

\* With Redis answering, no crash, no source blind as long as the TTL, no
\* raising detector, one fingerprint per condition and detectors that are
\* silent about a blind source, the whole loop over the store implements the
\* conversation of PagerContract: every page is of a condition seen to hold and
\* either opens an episode, or comes after the dedup window, or says the alert
\* got worse; every recovery closes an open page of a condition seen off.
THEOREM AgentKeepsContract ==
    ASSUME Replies = {"ok"}, Forgets = FALSE, Crashes = FALSE, MaxBlind + 1 < Expiry,
           DetectorsRaise = FALSE, OneFingerprint, FiresBlind = {}
    PROVE  Spec => KeepsContract
<1>1. Init => Contract!Init
  BY ConditionAssumption DEF Init, Contract!Init, Known
<1>2. /\ TypeOK /\ Kept /\ Tracks /\ ResolvesOff /\ ProcessesOn /\ [Next]_vars
      => [Contract!Next]_(Contract!contractVars)
  <2> SUFFICES ASSUME TypeOK, Kept, Tracks, ResolvesOff, ProcessesOn, [Next]_vars
               PROVE  Contract!Next \/ UNCHANGED <<Known, told, sinceTold>>
    BY DEF Contract!contractVars
  <2>1. StoreTypeOK
    BY DEF TypeOK
  <2>2. CASE StartCycle
    <3>1. Known' \subseteq Fingerprint
      BY FingerprintAssumption DEF Known
    <3>2. Contract!Look
      BY <2>2, <3>1 DEF StartCycle, ClockTicks, Contract!Look
    <3>3. QED
      BY <3>2 DEF Contract!Next
  <2>3. CASE SendAlert
    <3>1. /\ call.fp \in Fingerprint /\ call.at = "alert" /\ call.state.severity \in Severity
          /\ UNCHANGED <<blindFor, believed>>
      BY <2>3, SendAlertTells DEF loopVars
    <3>2. call.fp \in Known /\ UNCHANGED Known
      BY <3>1 DEF ProcessesOn, Known
    <3>3. MayPage(call.fp, call.state.severity)
      BY <3>1 DEF Tracks
    <3>4. Contract!Page(call.fp, call.state.severity)
      BY <2>3, <3>2, <3>3 DEF SendAlert, Contract!Page, Contract!Open, MayPage, Open, Severity
    <3>5. QED
      BY <3>1, <3>4 DEF Contract!Next, Severity
  <2>4. CASE SendRecovery
    <3>1. /\ call.fp \in Fingerprint /\ call.at = "recover"
          /\ UNCHANGED <<blindFor, believed>>
      BY <2>4, SendRecoveryTells DEF loopVars
    <3>2. call.fp \notin Known /\ UNCHANGED Known
      BY <3>1 DEF ResolvesOff, Known
    <3>3. Open(call.fp)
      BY <3>1 DEF Tracks
    <3>4. Contract!Recover(call.fp)
      BY <2>4, <3>2, <3>3 DEF SendRecovery, Contract!Recover, Contract!Open, Open, Severity
    <3>5. QED
      BY <3>1, <3>4 DEF Contract!Next
  <2>5. ASSUME UNCHANGED <<blindFor, believed, told, sinceTold>>
        PROVE  UNCHANGED <<Known, told, sinceTold>>
    BY <2>5 DEF Known
  <2>6. CASE \E fp \in Fingerprint : Process(fp) \/ Resolve(fp)
    BY <2>5, <2>6 DEF Process, Resolve, historyVars
  <2>7. CASE StoreAlert \/ DeleteAlert
    BY <2>5, <2>7 DEF StoreAlert, DeleteAlert, loopVars, historyVars
  <2>8. CASE ListActive \/ EndCycle
    BY <2>5, <2>8 DEF ListActive, EndCycle, historyVars
  <2>9. CASE ExpireKey \/ EvictKey
    BY <2>1, <2>9, NothingLost
  <2>10. CASE UNCHANGED vars
    BY <2>5, <2>10 DEF vars, loopVars, historyVars
  <2>11. QED
    BY <2>2, <2>3, <2>4, <2>6, <2>7, <2>8, <2>9, <2>10
       DEF Next, CycleStep, Crash, Down, Restart, Kept
<1>3. QED
  BY <1>1, <1>2, TypeCorrect, KeptHolds, TracksHolds, ResolvesOffHolds, ProcessesOnHolds, PTL
     DEF Spec, KeepsContract, Contract!Spec

-----------------------------------------------------------------------------
(* The dedup window, also across a crash.                                   *)

\* An alert whose condition was seen off and that did not fire is marked.
LooksRecorded ==
    pc \in {"process", "resolve"} => Fingerprint \subseteq Known \cup triggered \cup clearSeen

\* Inside the window of the last page no look found the condition off.
InWindow(fp) == sinceTold[fp] < Dedup /\ fp \notin clearSeen

\* What an entry must still say inside the window: the page was written, with
\* a time no later than its sending, or the alert has got worse since.
Covers(fp, e) ==
    /\ told[fp] \in Severity
    /\ told[fp] = "HIGH" => e.severity = "HIGH"
    /\ \/ e.paged /\ e.sincePaged <= sinceTold[fp]
       \/ told[fp] = "WARN" /\ e.severity = "HIGH"

\* Inside the window the key is there, lives beyond the window and covers the
\* page; so does the dict in flight, which is paged only if the alert got worse.
Remembers ==
    /\ \A fp \in Fingerprint : InWindow(fp) =>
         /\ redis[fp] # NoEntry
         /\ ttl[fp] + sinceTold[fp] >= Expiry
         /\ Covers(fp, redis[fp])
    /\ call.at = "set" /\ InWindow(call.fp) => Covers(call.fp, call.state)
    /\ call.at \in {"page", "alert"} =>
         /\ call.state.paged /\ call.state.sincePaged = 0
         /\ InWindow(call.fp) => told[call.fp] = "WARN" /\ call.state.severity = "HIGH"
    /\ call.at = "alert" => redis[call.fp] = call.state /\ ttl[call.fp] = Expiry

LEMMA LooksRecordedHolds == Spec => []LooksRecorded
<1> USE DEF Known
<1>1. Init => LooksRecorded
  BY DEF Init, LooksRecorded
<1>2. LooksRecorded /\ InPhase /\ TypeOK /\ [Next]_vars => LooksRecorded'
  <2> SUFFICES ASSUME LooksRecorded, InPhase, TypeOK, [Next]_vars PROVE LooksRecorded'
    OBVIOUS
  <2>1. ASSUME UNCHANGED <<pc, triggered, blindFor, historyVars>> PROVE LooksRecorded'
    BY <2>1 DEF LooksRecorded, historyVars
  <2>2. CASE StartCycle
    BY <2>2 DEF StartCycle, LooksRecorded
  <2>3. CASE \E fp \in Fingerprint : Process(fp) \/ Resolve(fp)
    BY <2>1, <2>3 DEF Process, Resolve
  <2>4. CASE StoreAlert \/ DeleteAlert \/ ExpireKey \/ EvictKey
    BY <2>1, <2>4 DEF StoreAlert, DeleteAlert, ExpireKey, EvictKey, loopVars
  <2>5. CASE SendAlert
    BY <2>5 DEF SendAlert, InPhase, LooksRecorded, loopVars
  <2>6. CASE ListActive
    BY <2>6 DEF ListActive, LooksRecorded, historyVars
  <2>7. CASE SendRecovery
    BY <2>7 DEF SendRecovery, LooksRecorded, loopVars
  <2>8. CASE EndCycle \/ Crash \/ Restart
    BY <2>8 DEF EndCycle, Crash, Restart, LooksRecorded
  <2>9. CASE Down
    BY <2>9 DEF Down, LooksRecorded, loopVars
  <2>10. CASE UNCHANGED vars
    BY <2>1, <2>10 DEF vars, loopVars
  <2>11. QED
    BY <2>2, <2>3, <2>4, <2>5, <2>6, <2>7, <2>8, <2>9, <2>10 DEF Next, CycleStep
<1>3. QED
  BY <1>1, <1>2, TypeCorrect, PhasesHold, PTL DEF Spec

LEMMA RetriggerCovers ==
    ASSUME NEW fp \in Fingerprint, NEW e \in Entry, NEW severity \in Severity, Covers(fp, e)
    PROVE  Covers(fp, Retrigger(e, severity))
<1> DEFINE r == Retrigger(e, severity)
<1>1. CASE Escalates(e, severity)
  <2>1. ~r.paged /\ r.severity = "HIGH" /\ e.severity = "WARN"
    BY <1>1 DEF Retrigger, Escalates
  <2>2. told[fp] = "WARN"
    BY <2>1 DEF Covers, Severity
  <2>3. QED
    BY <2>1, <2>2 DEF Covers
<1>2. CASE ~Escalates(e, severity)
  <2>1. (r.paged <=> e.paged) /\ r.severity = e.severity /\ r.sincePaged = e.sincePaged
    BY <1>2 DEF Retrigger, Entry
  <2>2. QED
    BY <2>1 DEF Covers
<1>3. QED
  BY <1>1, <1>2

LEMMA PagedEarlyIsWorse ==
    ASSUME TypeOK, NEW fp \in Fingerprint, NEW e \in Entry,
           InWindow(fp), Covers(fp, e), ShouldPage(e)
    PROVE  told[fp] = "WARN" /\ e.severity = "HIGH"
  BY DEF TypeOK, InWindow, Covers, ShouldPage, WithinDedup, Entry

LEMMA WindowAges ==
    ASSUME TypeOK, Remembers, Dedup <= Expiry, ClockTicks, UNCHANGED told,
           clearSeen \subseteq clearSeen', NEW fp \in Fingerprint, InWindow(fp)'
    PROVE  /\ redis'[fp] # NoEntry
           /\ ttl'[fp] + sinceTold'[fp] >= Expiry
           /\ Covers(fp, redis[fp])'
<1>1. /\ InWindow(fp) /\ sinceTold[fp] \in Nat /\ sinceTold'[fp] = sinceTold[fp] + 1
      /\ sinceTold[fp] + 1 < Dedup
  BY DEF InWindow, ClockTicks, TypeOK
<1>2. /\ redis[fp] # NoEntry /\ Covers(fp, redis[fp])
      /\ ttl[fp] + sinceTold[fp] >= Expiry /\ ttl[fp] \in Nat
  BY <1>1 DEF Remembers, TypeOK, StoreTypeOK
<1>3. ttl[fp] > 0
  BY <1>1, <1>2
<1>4. redis'[fp] = Aged(redis[fp]) /\ ttl'[fp] = ttl[fp] - 1
  BY <1>3, <1>2 DEF ClockTicks, Age, TypeOK, StoreTypeOK
<1>5. /\ redis'[fp].severity = redis[fp].severity
      /\ redis'[fp].paged <=> redis[fp].paged
      /\ redis'[fp].sincePaged =
            IF redis[fp].sincePaged < Dedup THEN redis[fp].sincePaged + 1 ELSE Dedup
      /\ redis'[fp] # NoEntry
  BY <1>2, <1>4, AgedKeeps DEF TypeOK, StoreTypeOK
<1>6. redis[fp].sincePaged \in Nat
  BY <1>2 DEF TypeOK, StoreTypeOK, Entry
<1>7. QED
  BY <1>1, <1>2, <1>4, <1>5, <1>6 DEF Covers

\* With Redis answering, a page still inside its window is covered by a live
\* key, also between the write and the send and across a crash (_should_page).
THEOREM RemembersHolds ==
    ASSUME Replies = {"ok"}, Forgets = FALSE, Dedup <= Expiry,
           DetectorsRaise = FALSE, OneFingerprint
    PROVE  Spec => []Remembers
<1> USE NoCallIdle
<1>1. Init => Remembers
  BY DEF Init, StoreInit, Remembers, InWindow
<1>2. Remembers /\ LooksRecorded /\ ResolvesOff /\ InPhase /\ TypeOK /\ [Next]_vars => Remembers'
  <2> SUFFICES ASSUME Remembers, LooksRecorded, ResolvesOff, InPhase, TypeOK, [Next]_vars
               PROVE  Remembers'
    OBVIOUS
  <2>1. StoreTypeOK
    BY DEF TypeOK
  <2>2. ASSUME call.at \in {"delete", "recover"}
        PROVE  call.fp \in Fingerprint /\ ~InWindow(call.fp)
    BY <2>1, <2>2, BusyCall DEF Idle, ResolvesOff, InPhase, LooksRecorded, InWindow
  <2>3. ASSUME UNCHANGED <<redis, ttl, call, told, sinceTold, clearSeen>> PROVE Remembers'
    BY <2>3 DEF Remembers, InWindow, Covers
  <2>4. CASE StartCycle \/ Down
    <3>1. /\ ClockTicks /\ UNCHANGED told /\ clearSeen \subseteq clearSeen'
          /\ call' = call /\ call.at = "idle"
      BY <2>4 DEF StartCycle, Down, InPhase, Idle
    <3>2. QED
      BY <3>1, WindowAges DEF Remembers
  <2>5. ASSUME NEW fp \in Fingerprint, Process(fp) PROVE Remembers'
    <3>1. /\ UNCHANGED <<redis, ttl, told, sinceTold, clearSeen>>
          /\ call'.at = "set" /\ call'.fp = fp
      BY <2>1, <2>5, ProcessAnswered DEF historyVars
    <3>2. PICK severity \in Severity :
            \/ redis[fp] = NoEntry
            \/ redis[fp] \in Entry /\ call'.state = Retrigger(redis[fp], severity)
      BY <2>1, <2>5, ProcessAnswered
    <3>3. InWindow(fp) => Covers(fp, call'.state)
      BY <3>2, RetriggerCovers DEF Remembers
    <3>4. QED
      BY <3>1, <3>3 DEF Remembers, InWindow, Covers
  <2>6. CASE StoreAlert
    <3>1. UNCHANGED <<told, sinceTold, clearSeen>>
      BY <2>6 DEF StoreAlert, historyVars
    <3>2. /\ call.fp \in Fingerprint /\ call.state \in Entry /\ call.state # NoEntry
          /\ redis'[call.fp] = call.state /\ ttl'[call.fp] = Expiry
          /\ \A f \in Fingerprint \ {call.fp} : redis'[f] = redis[f] /\ ttl'[f] = ttl[f]
          /\ call.at \in {"set", "page"}
      BY <2>1, <2>6, StoreAlertAnswered, FreshPresent
    <3>3. InWindow(call.fp) => Covers(call.fp, call.state)
      BY <3>2 DEF Remembers, Covers, Severity
    <3>4. ASSUME NEW f \in Fingerprint, InWindow(f)'
          PROVE  redis'[f] # NoEntry /\ ttl'[f] + sinceTold'[f] >= Expiry /\ Covers(f, redis[f])'
      <4>1. InWindow(f) /\ sinceTold[f] \in Nat
        BY <3>1, <3>4 DEF InWindow, TypeOK
      <4>2. CASE f = call.fp
        BY <3>1, <3>2, <3>3, <4>1, <4>2 DEF Covers
      <4>3. CASE f # call.fp
        BY <3>1, <3>2, <4>1, <4>3 DEF Remembers, Covers
      <4>4. QED
        BY <4>2, <4>3
    <3>5. CASE call.at = "set" /\ ~ShouldPage(call.state) /\ call' = NoCall
      BY <3>4, <3>5 DEF Remembers
    <3>6. CASE /\ call.at = "set" /\ ShouldPage(call.state)
               /\ call'.at = "page" /\ call'.fp = call.fp /\ call'.state = Paged(call.state)
      <4>1. InWindow(call.fp) => told[call.fp] = "WARN" /\ call.state.severity = "HIGH"
        BY <3>2, <3>3, <3>6, PagedEarlyIsWorse
      <4>2. QED
        BY <3>1, <3>2, <3>4, <3>6, <4>1, PagedFields DEF Remembers, InWindow
    <3>7. CASE /\ call.at = "page"
               /\ call'.at = "alert" /\ call'.fp = call.fp /\ call'.state = call.state
      BY <3>1, <3>2, <3>4, <3>7 DEF Remembers, InWindow
    <3>8. QED
      BY <2>1, <2>6, <3>5, <3>6, <3>7, StoreAlertAnswered
  <2>7. CASE SendAlert
    <3>1. /\ call.fp \in Fingerprint /\ call.at = "alert" /\ call.state.severity \in Severity
          /\ UNCHANGED <<redis, ttl>> /\ call' = NoCall
          /\ told'[call.fp] = call.state.severity /\ sinceTold'[call.fp] = 0
          /\ \A f \in Fingerprint \ {call.fp} : told'[f] = told[f] /\ sinceTold'[f] = sinceTold[f]
          /\ clearSeen' = clearSeen \ {call.fp}
      BY <2>7, SendAlertTells
    <3>2. /\ redis[call.fp] = call.state /\ ttl[call.fp] = Expiry
          /\ call.state.paged /\ call.state.sincePaged = 0 /\ redis[call.fp] # NoEntry
      BY <3>1, NoEntryUnpaged DEF Remembers
    <3>3. ASSUME NEW f \in Fingerprint, InWindow(f)'
          PROVE  redis'[f] # NoEntry /\ ttl'[f] + sinceTold'[f] >= Expiry /\ Covers(f, redis[f])'
      <4>1. CASE f = call.fp
        BY <3>1, <3>2, <4>1 DEF Covers
      <4>2. CASE f # call.fp
        BY <3>1, <3>3, <4>2 DEF Remembers, InWindow, Covers
      <4>3. QED
        BY <4>1, <4>2
    <3>4. QED
      BY <3>1, <3>3 DEF Remembers
  <2>8. ASSUME NEW fp \in Fingerprint, Resolve(fp) PROVE Remembers'
    BY <2>1, <2>8, ResolveAnswered DEF Remembers, InWindow, Covers, Idle, historyVars
  <2>9. CASE DeleteAlert
    <3>1. UNCHANGED <<told, sinceTold, clearSeen>>
      BY <2>9 DEF DeleteAlert, historyVars
    <3>2. /\ call.at = "delete" /\ call.fp \in Fingerprint /\ ~InWindow(call.fp)
          /\ \A f \in Fingerprint \ {call.fp} : redis'[f] = redis[f] /\ ttl'[f] = ttl[f]
          /\ call' = NoCall \/ call'.at = "recover"
      BY <2>1, <2>2, <2>9, DeleteAlertAnswered
    <3>3. QED
      BY <3>1, <3>2 DEF Remembers, InWindow, Covers
  <2>10. CASE SendRecovery
    <3>1. /\ call.fp \in Fingerprint /\ ~InWindow(call.fp)
          /\ UNCHANGED <<redis, ttl, sinceTold, clearSeen>> /\ call' = NoCall
          /\ \A f \in Fingerprint \ {call.fp} : told'[f] = told[f]
      BY <2>2, <2>10, SendRecoveryTells
    <3>2. QED
      BY <3>1 DEF Remembers, InWindow, Covers
  <2>11. CASE ListActive \/ EndCycle \/ Restart
    BY <2>3, <2>11 DEF ListActive, EndCycle, Restart, storeVars, historyVars
  <2>12. CASE Crash
    <3>1. UNCHANGED <<redis, ttl, told, sinceTold, clearSeen>> /\ call' = NoCall
      BY <2>12 DEF Crash, Return, historyVars
    <3>2. QED
      BY <3>1 DEF Remembers, InWindow, Covers
  <2>13. CASE ExpireKey
    <3>1. PICK fp \in Fingerprint : Expire(fp)
      BY <2>13 DEF ExpireKey
    <3>2. /\ ttl[fp] = 0 /\ UNCHANGED <<call, told, sinceTold, clearSeen>>
          /\ \A f \in Fingerprint \ {fp} : redis'[f] = redis[f] /\ ttl'[f] = ttl[f]
      BY <2>1, <2>13, <3>1 DEF Expire, Lose, ExpireKey, historyVars, StoreTypeOK
    <3>3. ~InWindow(fp)
      BY <3>2 DEF Remembers, InWindow, TypeOK
    <3>4. call.at = "alert" => call.fp \in Fingerprint /\ call.fp # fp
      BY <2>1, <3>2, BusyCall DEF Remembers, Idle
    <3>5. QED
      BY <3>2, <3>3, <3>4 DEF Remembers, InWindow, Covers
  <2>14. CASE EvictKey
    BY <2>14 DEF EvictKey, Evict
  <2>15. CASE UNCHANGED vars
    BY <2>3, <2>15 DEF vars, storeVars, historyVars
  <2>16. QED
    BY <2>4, <2>5, <2>6, <2>7, <2>8, <2>9, <2>10, <2>11, <2>12, <2>13, <2>14, <2>15
       DEF Next, CycleStep
<1>3. QED
  BY <1>1, <1>2, TypeCorrect, PhasesHold, LooksRecordedHolds, ResolvesOffHolds, PTL DEF Spec

\* With Redis answering and no key lost but through its TTL, however often the
\* agent dies and however long a source stays blind, no second page of an alert
\* goes out inside the dedup window unless a look found its condition off in
\* between or the alert got worse (alert_state.py, write before send).
THEOREM NoPageTwiceInWindow ==
    ASSUME Replies = {"ok"}, Forgets = FALSE, Dedup <= Expiry,
           DetectorsRaise = FALSE, OneFingerprint
    PROVE  Spec => NoRepageInWindow
<1> DEFINE Once == \A fp \in Fingerprint :
               PageSent(fp) /\ sinceTold[fp] < Dedup
                 => fp \in clearSeen \/ (told[fp] = "WARN" /\ told'[fp] = "HIGH")
<1>1. Remembers /\ TypeOK => [Once]_vars
  <2> SUFFICES ASSUME Remembers, TypeOK, NEW fp \in Fingerprint, PageSent(fp),
                      sinceTold[fp] < Dedup, fp \notin clearSeen
               PROVE  told[fp] = "WARN" /\ told'[fp] = "HIGH"
    BY DEF Once
  <2>1. call.at = "alert" /\ call.fp = fp /\ SendAlert
    BY DEF PageSent
  <2>2. told[fp] = "WARN" /\ call.state.severity = "HIGH"
    BY <2>1 DEF Remembers, InWindow
  <2>3. told'[fp] = call.state.severity
    BY <2>1, SendAlertTells
  <2>4. QED
    BY <2>2, <2>3
<1>2. QED
  BY <1>1, RemembersHolds, TypeCorrect, PTL DEF NoRepageInWindow
=============================================================================
