---------------------------- MODULE PagerContract ----------------------------
(***************************************************************************)
(* What the monitoring agent promises whoever it pages, told as one         *)
(* conversation per alert: pages are about conditions that hold, are spaced *)
(* by the dedup window within an episode unless the alert got worse, and    *)
(* every recovery closes exactly one open page of a condition that is off.   There is no store, no         *)
(* fingerprint bookkeeping and no cycle here; MonitorAgent implements it.   *)
(***************************************************************************)
EXTENDS Naturals

CONSTANTS
    Alert,  \* what can be paged
    Dedup   \* ticks between two pages of one episode

VARIABLES
    known,     \* alerts that were on when they were last looked at
    told,      \* [Alert -> the last message sent]
    sinceTold  \* [Alert -> 0..Dedup]: ticks since the last page

contractVars == <<known, told, sinceTold>>

Init ==
    /\ known = {}
    /\ told = [a \in Alert |-> "none"]
    /\ sinceTold = [a \in Alert |-> Dedup]

\* A tick passes and some alerts are looked at.
Look ==
    /\ known' \in SUBSET Alert
    /\ sinceTold' = [a \in Alert |-> IF sinceTold[a] < Dedup THEN sinceTold[a] + 1 ELSE Dedup]
    /\ UNCHANGED told

Open(a) == told[a] \in {"WARN", "HIGH"}

Page(a, severity) ==
    /\ a \in known
    /\ \/ ~Open(a)
       \/ sinceTold[a] = Dedup
       \/ told[a] = "WARN" /\ severity = "HIGH"
    /\ told' = [told EXCEPT ![a] = severity]
    /\ sinceTold' = [sinceTold EXCEPT ![a] = 0]
    /\ UNCHANGED known

Recover(a) ==
    /\ a \notin known
    /\ Open(a)
    /\ told' = [told EXCEPT ![a] = "recovery"]
    /\ UNCHANGED <<known, sinceTold>>

Next ==
    \/ Look
    \/ \E a \in Alert : Page(a, "WARN") \/ Page(a, "HIGH") \/ Recover(a)

Spec == Init /\ [][Next]_contractVars
=============================================================================
