---------------------------- MODULE ControlWrites ----------------------------
(***************************************************************************)
(* Every write ops makes in the engine, from the web's control pages and     *)
(* from the app's /api/v1: call the engine, append one line to the audit     *)
(* log, answer the caller.  app/audit.py is that log, and the CoinDCX page   *)
(* reads its own requests back out of it to say whether a self-test it       *)
(* queued still owes a report (data_sources/coindcx.py).                     *)
(***************************************************************************)
EXTENDS Integers, Sequences, FiniteSets

CONSTANTS
    Caller,      \* requests in flight, each with one write to make
    Slack,       \* what grade_self_test allows a reply, in ticks (1 s)
    PageRows,    \* CoinDCX rows the page keeps (15)
    TailLimit,   \* bound: lines the tail reads back (400)
    MaxClock     \* bound: the last tick

ASSUME WritesAssumption == {Slack, PageRows, TailLimit, MaxClock} \subseteq Nat

VARIABLES
    clock,
    call,      \* each request: its kind, where it stands, when the engine had it
    log,       \* the audit file: kind, ok, time and request of every line
    missed,    \* history: writes of which no line could be kept
    changed,   \* history: requests that changed the engine
    queued,    \* self-tests the engine accepted and has not begun
    report     \* when the reported self-test began, -1 if there is none

writesVars == <<clock, call, log, missed, changed, queued, report>>

NoCall == [at |-> "unused", kind |-> "none", when |-> 0, said |-> "none"]
NoReport == -1

WritesInit ==
    /\ clock = 0 /\ log = <<>> /\ missed = {} /\ changed = {}
    /\ call = [c \in Caller |-> NoCall]
    /\ queued = {} /\ report = NoReport

------------------------------------------------------------------------------
\* What the engine did with a write, and what ops heard of it.  A 200 whose body
\* is not JSON raises through the handler.
Took(said) == [took |-> TRUE, said |-> said]
Not(said) == [took |-> FALSE, said |-> said]

Post == {Took("ok"), Not("error"), Took("error"), Took("raised")}

KillSwitch == Post
Toggle == Post
Tunables == Post
ResetSignals == Post

\* A close may find the signal gone, or only be queued; both answer without error.
CloseSignal == Post \cup {Not("ok")}

\* The app's bodies go through one wrapper.
AppWrite == Post

\* Switching on, and placing a real order, need the confirm box; without it the
\* refusal is logged and the engine is not asked.
SelfTest(confirmed) == IF confirmed THEN Post ELSE {Not("refused here")}
CoinSwitch(on, confirmed) == IF on /\ ~confirmed THEN {Not("refused here")} ELSE Post
CoinAccess(valid) == IF valid THEN Post ELSE {Not("refused here")}

Kind == {"kill_switch", "toggle", "tunables", "reset", "close", "app",
         "self_test", "coin_switch", "coin_access"}
CoinDcx == {"self_test", "coin_switch", "coin_access"}

\* What the log's readers tell apart of a line's action.
Row(kind) ==
    CASE kind = "self_test" -> kind [] kind \in CoinDcx \ {"self_test"} -> "coin" [] OTHER -> "other"

Outcomes(kind, ticked) ==
    CASE kind = "kill_switch" -> KillSwitch
      [] kind = "toggle" -> Toggle
      [] kind = "tunables" -> Tunables
      [] kind = "reset" -> ResetSignals
      [] kind = "close" -> CloseSignal
      [] kind = "app" -> AppWrite
      [] kind = "self_test" -> SelfTest(ticked)
      [] kind = "coin_switch" -> CoinSwitch(TRUE, ticked)
      [] OTHER -> CoinAccess(ticked)

\* The request reaches the engine, which acts on it or not.
Send(c) ==
    /\ call[c].at = "unused"
    /\ \E kind \in Kind, ticked \in BOOLEAN : \E out \in Outcomes(kind, ticked) :
          /\ call' = [call EXCEPT ![c] = [at |-> "sent", kind |-> Row(kind), when |-> clock,
                                          said |-> out.said]]
          /\ changed' = IF out.took THEN changed \cup {c} ELSE changed
          /\ queued' = IF out.took /\ kind = "self_test" THEN queued \cup {c} ELSE queued
    /\ UNCHANGED <<clock, log, missed, report>>

------------------------------------------------------------------------------
\* A log that keeps only what the engine accepted.
RecordAccepted(c, ok) ==
    IF ok THEN log' = Append(log, [kind |-> call[c].kind, ok |-> ok, at |-> clock, by |-> c])
    ELSE log' = log

\* audit.record: best effort, a failed append is swallowed.
Audit(c, ok) ==
    log' = Append(log, [kind |-> call[c].kind, ok |-> ok, at |-> clock, by |-> c])

\* The reply is back: the line is written before the caller is told, with no await
\* between, whatever the engine said.
Answer(c) ==
    /\ call[c].at = "sent" /\ call[c].said # "raised"
    /\ \/ Audit(c, call[c].said = "ok") /\ UNCHANGED missed
       \/ UNCHANGED log /\ missed' = missed \cup {c}
    /\ call' = [call EXCEPT ![c].at = "told"]
    /\ UNCHANGED <<clock, changed, queued, report>>

\* The handler, or the process, ends without a line.
Raise(c) ==
    /\ call[c].at = "sent" /\ call[c].said = "raised"
    /\ call' = [call EXCEPT ![c].at = "told"]
    /\ missed' = missed \cup {c}
    /\ UNCHANGED <<clock, log, changed, queued, report>>

Die ==
    LET cut == {c \in Caller : call[c].at = "sent"}
    IN /\ cut # {}
       /\ call' = [c \in Caller |-> IF c \in cut THEN [call[c] EXCEPT !.at = "told"] ELSE call[c]]
       /\ missed' = missed \cup cut
       /\ UNCHANGED <<clock, log, changed, queued, report>>

\* The engine begins a queued self-test; its report is stamped with that time.
BeginSelfTest(c) ==
    /\ c \in queued /\ queued' = queued \ {c}
    /\ report' = clock
    /\ UNCHANGED <<clock, call, log, missed, changed>>

\* Time passes, however long a reply then takes (engine_api.py:64 allows it 10 s).
ClockTicks ==
    /\ clock < MaxClock /\ clock' = clock + 1
    /\ UNCHANGED <<call, log, missed, changed, queued, report>>

WritesNext ==
    \/ \E c \in Caller : Send(c) \/ Answer(c) \/ Raise(c) \/ BeginSelfTest(c)
    \/ Die \/ ClockTicks

WritesSpec == WritesInit /\ [][WritesNext]_writesVars

------------------------------------------------------------------------------
\* audit.tail: the newest lines of the file; the page keeps the newest of its own.
Newest(lines, n) == {i \in lines : Cardinality({j \in lines : j > i}) < n}
CoinRows ==
    Newest({i \in Newest(DOMAIN log, TailLimit) : log[i].kind # "other"}, PageRows)

\* _last_request_at
Requests == {i \in CoinRows : log[i].kind = "self_test" /\ log[i].ok}
LastRequest == log[CHOOSE i \in Requests : \A j \in Requests : j <= i]

\* grade_self_test, with the report's own time compared exactly.
PendingExactly == Requests # {} /\ (report = NoReport \/ LastRequest.at > report)

Pending == Requests # {} /\ (report = NoReport \/ LastRequest.at > report + Slack)

\* A write that changed the engine has its line by the time its caller is
\* answered, unless the line itself could not be kept (audit.py:3-8): an answer
\* lost on the way is exactly the one the log is for.
EveryChangeIsLogged ==
    \A c \in changed :
        \/ call[c].at = "sent" \/ c \in missed
        \/ \E i \in DOMAIN log : log[i].by = c

\* The page says a self-test still owes its report only if the engine has yet to run
\* the one it asked for last, or its line was written more than the slack after the
\* engine took it (coindcx.py:147-158): a reply slower than that makes a self-test the
\* engine has reported look owed until the next one.
PendingMeansOwed ==
    Pending =>
       \/ LastRequest.by \in queued
       \/ LastRequest.at > call[LastRequest.by].when + Slack
=============================================================================
