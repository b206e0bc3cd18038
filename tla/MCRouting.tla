------------------------------ MODULE MCRouting ------------------------------
\* Routing with one path retired on both sides and two rules to post, for TLC.
EXTENDS Routing

CONSTANTS p1, e1, e2

\* The rules a form may post: a trend condition on any gate and on a retirement's own.
Rule(gates, regimes, direction) ==
    [enabled |-> TRUE, gates |-> gates, regimes |-> regimes, sessions |-> {AnyToken},
     direction |-> direction, floor |-> NoFloor]

MCRules ==
    {Rule({AnyToken}, {Gate("TRENDING_UP")}, "with_trend"),
     Rule({RetiredGate(p1, "LONG")}, {AnyToken}, "counter_trend")}

MCDefault == {<<p1, AnySide>>}
=============================================================================
