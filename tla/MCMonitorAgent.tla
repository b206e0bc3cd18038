--------------------------- MODULE MCMonitorAgent ---------------------------
(* Instances of MonitorAgent for TLC: a HIGH alert and one reported with    *)
(* either severity, read from one source, with the alert of that source     *)
(* failing; and the signing alert under two status texts.                   *)
EXTENDS MonitorAgent, TLC

CONSTANTS naked, silence, unreachable, up2h, up3h,  \* fingerprints
          nakedC, silenceC, signingC,               \* conditions
          diag, docker                              \* sources

\* Two conditions of one source and the failure of that source.
CoreCondSource == nakedC :> diag @@ silenceC :> diag
CoreCondOf == naked :> nakedC @@ silence :> silenceC
CoreFailureOf == unreachable :> diag
CoreSeverities == naked :> {"HIGH"} @@ silence :> {"WARN", "HIGH"} @@ unreachable :> {"WARN"}

\* One condition and the failure of its source.
PairCondSource == nakedC :> diag
PairCondOf == naked :> nakedC
PairSeverities == naked :> {"HIGH"} @@ unreachable :> {"WARN"}

\* The signing container under two texts of docker's status column.
SigningCondSource == signingC :> docker
SigningCondOf == up2h :> signingC @@ up3h :> signingC
SigningFailureOf == [fp \in {} |-> docker]
SigningSeverities == up2h :> {"HIGH"} @@ up3h :> {"HIGH"}
=============================================================================
