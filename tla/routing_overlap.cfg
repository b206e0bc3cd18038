\* Two clicks on one path, the second started while the first is written.
SPECIFICATION RoutingSpec
CONSTANTS
    p1 = p1
    e1 = e1
    e2 = e2
    Path = {p1}
    Editor = {e1, e2}
    Default <- MCDefault
    RuleChoices <- MCRules
    EditsOverlap = TRUE
    Faults = FALSE
PROPERTY OnlyConfirmedRestores
