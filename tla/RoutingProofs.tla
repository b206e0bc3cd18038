---------------------------- MODULE RoutingProofs ----------------------------
(***************************************************************************)
(* Proofs about Routing, for any paths, clicks, rules and signed-off list:   *)
(* what an edit of the retired list does to the sides it means, and that a   *)
(* side is restored only by a click that named it and carried the confirm,   *)
(* as long as no click starts while another is being written; that a rule    *)
(* which would undo a retirement is flagged beside it.                       *)
(***************************************************************************)
EXTENDS Routing, TLAPS

\* What the scanner reads off a list: a side is retired if it is listed itself or
\* by its whole path (data_sources/routing.py, default_diff).
LEMMA ExpandMember ==
    ASSUME NEW list \in SUBSET Pair, NEW pair
    PROVE  pair \in Expand(list) <=>
             \E p \in Path, s \in Side : pair = <<p, s>> /\ IsListed(list, p, s)
<1>1. ASSUME pair \in Expand(list)
      PROVE  \E p \in Path, s \in Side : pair = <<p, s>> /\ IsListed(list, p, s)
  <2>1. PICK entry \in list : pair \in {<<entry[1], s>> :
                                  s \in IF entry[2] = AnySide THEN Side ELSE {entry[2]}}
    BY <1>1 DEF Expand
  <2>2. PICK p \in Path, w \in Side \cup {AnySide} : entry = <<p, w>>
    BY DEF Pair
  <2>3. PICK s \in IF w = AnySide THEN Side ELSE {w} : pair = <<p, s>>
    BY <2>1, <2>2
  <2> QED BY <2>2, <2>3 DEF IsListed
<1>2. ASSUME NEW p \in Path, NEW s \in Side, pair = <<p, s>>, IsListed(list, p, s)
      PROVE  pair \in Expand(list)
  <2>1. AnySide \notin Side
    BY RoutingAssumption
  <2>2. PICK entry \in list : entry \in {<<p, s>>, <<p, AnySide>>}
    BY <1>2 DEF IsListed
  <2>3. pair \in {<<entry[1], x>> : x \in IF entry[2] = AnySide THEN Side ELSE {entry[2]}}
    BY <1>2, <2>1, <2>2
  <2> QED BY <2>2, <2>3 DEF Expand
<1> QED BY <1>1, <1>2

\* A diverted side only ever adds to what is retired (with_diverted).
LEMMA DivertAdds ==
    ASSUME NEW list \in SUBSET Pair, NEW path \in Path, NEW side \in Side
    PROVE  /\ WithDiverted(list, path, side) \in SUBSET Pair
           /\ Expand(list) \subseteq Expand(WithDiverted(list, path, side))
<1>1. WithDiverted(list, path, side) \in SUBSET Pair
  BY DEF WithDiverted, Pair
<1>2. \A p, s : IsListed(list, p, s) => IsListed(WithDiverted(list, path, side), p, s)
  BY DEF WithDiverted, IsListed
<1> QED BY <1>1, <1>2, ExpandMember

\* Restoring one side of a path takes that side off the list and nothing else,
\* whether the list names the side, the whole path or both (with_restored).
THEOREM RestoreIsExact ==
    ASSUME NEW list \in SUBSET Pair, NEW path \in Path, NEW side \in Side
    PROVE  /\ WithRestored(list, path, side) \in SUBSET Pair
           /\ Expand(WithRestored(list, path, side)) = Expand(list) \ {<<path, side>>}
<1> DEFINE new == WithRestored(list, path, side)
<1>0. AnySide \notin Side
  BY RoutingAssumption
<1>1. new \in SUBSET Pair
  BY DEF WithRestored, Pair
<1>2. ASSUME NEW p \in Path, NEW s \in Side
      PROVE  IsListed(new, p, s) <=> IsListed(list, p, s) /\ ~(p = path /\ s = side)
  <2>1. CASE p # path
    BY <2>1, <1>0 DEF WithRestored, IsListed
  <2>2. CASE p = path /\ s = side
    BY <2>2, <1>0 DEF WithRestored, IsListed
  <2>3. CASE p = path /\ s # side
    BY <2>3, <1>0 DEF WithRestored, IsListed
  <2> QED BY <2>1, <2>2, <2>3
<1>3. ASSUME NEW pair
      PROVE  pair \in Expand(new) <=> pair \in Expand(list) \ {<<path, side>>}
  BY <1>1, <1>2, ExpandMember
<1> QED BY <1>1, <1>3

------------------------------------------------------------------------------
\* The state keeps its types: what an edit is about to write is a list of pairs.
LEMMA RoutingInitTypes == RoutingInit => RoutingTypeOK
BY RoutingAssumption DEF RoutingInit, RoutingTypeOK, EditType

LEMMA SubmitTypes ==
    ASSUME RoutingTypeOK, NEW e \in Editor, NEW act \in Act, NEW path \in Path \cup {AnySide},
           NEW side \in Side \cup {AnySide}, NEW confirmed \in BOOLEAN, NEW new \in SUBSET Pair,
           Submit(e, act, path, side, confirmed, new)
    PROVE  edit' \in [Editor -> EditType]
BY DEF RoutingTypeOK, Submit, EditType

\* What WriteList writes, and what it leaves of the click.
LEMMA WriteListTypes ==
    ASSUME RoutingTypeOK, NEW e \in Editor, WriteList(e)
    PROVE  RoutingTypeOK'
<1>1. edit[e] \in [at : {"write"}, act : Act, path : Path \cup {AnySide},
                   side : Side \cup {AnySide}, confirmed : BOOLEAN, new : SUBSET Pair]
  BY DEF RoutingTypeOK, WriteList, Writing, EditType, NoClick
<1>2. PICK reply \in {"ok", "refused", "lost"} :
         /\ retired' = IF reply = "refused" THEN retired ELSE edit[e].new
         /\ edit' = [edit EXCEPT ![e] = [at |-> "readback", act |-> edit[e].act,
                                        path |-> edit[e].path, side |-> edit[e].side,
                                        confirmed |-> edit[e].confirmed, ok |-> reply = "ok"]]
  BY DEF WriteList
<1>3. retired' \subseteq Pair
  BY <1>1, <1>2 DEF RoutingTypeOK
<1>4. [at |-> "readback", act |-> edit[e].act, path |-> edit[e].path, side |-> edit[e].side,
       confirmed |-> edit[e].confirmed, ok |-> reply = "ok"] \in EditType
  BY <1>1 DEF EditType
<1>5. edit' \in [Editor -> EditType]
  BY <1>2, <1>4 DEF RoutingTypeOK
<1> QED BY <1>3, <1>5 DEF RoutingTypeOK, WriteList

LEMMA RoutingTypesKept == RoutingTypeOK /\ [RoutingNext]_routingVars => RoutingTypeOK'
<1> SUFFICES ASSUME RoutingTypeOK, [RoutingNext]_routingVars PROVE RoutingTypeOK'
  OBVIOUS
<1>1. ASSUME NEW e \in Editor, NEW path \in Path, NEW side \in Side, Divert(e, path, side)
      PROVE  RoutingTypeOK'
  <2>1. CASE IsListed(retired, path, side)
    BY <1>1, <2>1 DEF Divert, Reject, Engine, RoutingTypeOK
  <2>2. CASE ~IsListed(retired, path, side)
    <3>1. WithDiverted(retired, path, side) \in SUBSET Pair
      BY DivertAdds DEF RoutingTypeOK
    <3>2. Submit(e, "divert", path, side, FALSE, WithDiverted(retired, path, side))
      BY <1>1, <2>2 DEF Divert
    <3>3. edit' \in [Editor -> EditType]
      BY <3>1, <3>2, SubmitTypes DEF Act
    <3> QED BY <1>1, <3>3 DEF Divert, Engine, RoutingTypeOK
  <2> QED BY <2>1, <2>2
<1>2. ASSUME NEW e \in Editor, NEW path \in Path, NEW side \in Side,
             NEW confirmed \in BOOLEAN, Restore(e, path, side, confirmed)
      PROVE  RoutingTypeOK'
  <2>1. CASE ~confirmed \/ ~IsListed(retired, path, side)
    <3>1. Reject
      BY <1>2, <2>1 DEF Restore
    <3> QED BY <1>2, <3>1 DEF Restore, Reject, Engine, RoutingTypeOK
  <2>2. CASE confirmed /\ IsListed(retired, path, side)
    <3>1. WithRestored(retired, path, side) \in SUBSET Pair
      BY RestoreIsExact DEF RoutingTypeOK
    <3>2. Submit(e, "restore", path, side, TRUE, WithRestored(retired, path, side))
      BY <1>2, <2>2 DEF Restore
    <3>3. edit' \in [Editor -> EditType]
      BY <3>1, <3>2, SubmitTypes DEF Act
    <3> QED BY <1>2, <3>3 DEF Restore, Engine, RoutingTypeOK
  <2> QED BY <2>1, <2>2
<1>3. ASSUME NEW e \in Editor, NEW confirmed \in BOOLEAN, AdoptDefault(e, confirmed)
      PROVE  RoutingTypeOK'
  <2>1. CASE Reject
    BY <1>3, <2>1 DEF AdoptDefault, Reject, Engine, RoutingTypeOK
  <2>2. CASE Submit(e, "adopt", AnySide, AnySide, confirmed, Default)
    <3>1. edit' \in [Editor -> EditType]
      BY <2>2, SubmitTypes, RoutingAssumption DEF Act
    <3> QED BY <1>3, <3>1 DEF AdoptDefault, Engine, RoutingTypeOK
  <2> QED BY <1>3, <2>1, <2>2 DEF AdoptDefault
<1>4. ASSUME NEW e \in Editor, ReadBack(e)
      PROVE  RoutingTypeOK'
  BY <1>4 DEF ReadBack, Engine, RoutingTypeOK, EditType
<1>5. ASSUME NEW e \in Editor, Unreadable(e)
      PROVE  RoutingTypeOK'
  BY <1>5 DEF Unreadable, Reject, Engine, RoutingTypeOK
<1>6. ASSUME NEW path \in Path, NEW rule, NEW confirmed, SaveRule(path, rule, confirmed)
      PROVE  RoutingTypeOK'
  BY <1>6 DEF SaveRule, RoutingTypeOK
<1>7. ASSUME NEW path \in Path, DeleteRule(path)
      PROVE  RoutingTypeOK'
  BY <1>7 DEF DeleteRule, RoutingTypeOK
<1>8. CASE SaveCategory
  BY <1>8 DEF SaveCategory, PostedList, RoutingTypeOK
<1>9. CASE Switch
  BY <1>9 DEF Switch, RoutingTypeOK
<1>10. CASE UNCHANGED routingVars
  BY <1>10 DEF routingVars, RoutingTypeOK
<1>11. ASSUME NEW list \in SUBSET Pair, AppPosts(list)
       PROVE  RoutingTypeOK'
  BY <1>11 DEF AppPosts, RoutingTypeOK
<1> QED
  BY <1>1, <1>2, <1>3, <1>4, <1>5, <1>6, <1>7, <1>8, <1>9, <1>10, <1>11, WriteListTypes
     DEF RoutingNext

\* The types hold in every behaviour.
THEOREM RoutingTypeCorrect == RoutingSpec => []RoutingTypeOK
BY RoutingInitTypes, RoutingTypesKept, PTL DEF RoutingSpec

------------------------------------------------------------------------------
\* What makes a written list safe: it was computed from the list it replaces, and
\* only one click at a time holds such a list.
Current(e) ==
    \/ /\ edit[e].act = "divert" /\ edit[e].path \in Path /\ edit[e].side \in Side
       /\ edit[e].new = WithDiverted(retired, edit[e].path, edit[e].side)
    \/ /\ edit[e].act = "restore" /\ edit[e].path \in Path /\ edit[e].side \in Side
       /\ edit[e].confirmed
       /\ edit[e].new = WithRestored(retired, edit[e].path, edit[e].side)
    \/ /\ edit[e].act = "adopt" /\ edit[e].new = Default
       /\ edit[e].confirmed \/ ToRestore(retired) = {}

OneAtATime ==
    /\ \A e, f \in Editor : Writing(e) /\ Writing(f) => e = f
    /\ \A e \in Editor : Writing(e) => Current(e)

\* A list that is read and edited while nobody else is writing is current.
LEMMA SubmitIsCurrent ==
    ASSUME RoutingTypeOK, NEW e \in Editor, NEW act, NEW path, NEW side, NEW confirmed, NEW new,
           \A f \in Editor : ~Writing(f),
           Submit(e, act, path, side, confirmed, new), retired' = retired,
           \/ /\ act = "divert" /\ path \in Path /\ side \in Side
              /\ new = WithDiverted(retired, path, side)
           \/ /\ act = "restore" /\ path \in Path /\ side \in Side /\ confirmed
              /\ new = WithRestored(retired, path, side)
           \/ act = "adopt" /\ new = Default /\ (confirmed \/ ToRestore(retired) = {})
    PROVE  OneAtATime'
<1>1. edit'[e] = [at |-> "write", act |-> act, path |-> path, side |-> side,
                  confirmed |-> confirmed, new |-> new]
  BY DEF Submit, RoutingTypeOK
<1>2. \A f \in Editor : f # e => edit'[f] = edit[f]
  BY DEF Submit, RoutingTypeOK
<1>3. Current(e)'
  BY <1>1 DEF Current, ToRestore, WithDiverted, WithRestored, Expand, IsListed
<1>4. \A f \in Editor : Writing(f)' => f = e
  BY <1>2 DEF Writing
<1> QED BY <1>3, <1>4 DEF OneAtATime

LEMMA RestKeepsCurrent ==
    ASSUME OneAtATime, retired' = retired, edit' = edit
    PROVE  OneAtATime'
BY DEF OneAtATime, Writing, Current, ToRestore, WithDiverted, WithRestored, Expand, IsListed

LEMMA OneAtATimeKept ==
    ASSUME EditsOverlap = FALSE, RoutingTypeOK, OneAtATime, [RoutingNext]_routingVars
    PROVE  OneAtATime'
<1>0. \A e \in Editor : MayStart(e) => \A f \in Editor : ~Writing(f)
  BY DEF MayStart
<1>1. ASSUME NEW e \in Editor, NEW path \in Path, NEW side \in Side, Divert(e, path, side)
      PROVE  OneAtATime'
  <2>1. CASE IsListed(retired, path, side)
    BY <1>1, <2>1, RestKeepsCurrent DEF Divert, Reject, Engine
  <2>2. CASE ~IsListed(retired, path, side)
    <3>1. Submit(e, "divert", path, side, FALSE, WithDiverted(retired, path, side))
      BY <1>1, <2>2 DEF Divert
    <3> QED BY <1>0, <1>1, <3>1, SubmitIsCurrent DEF Divert, Engine
  <2> QED BY <2>1, <2>2
<1>2. ASSUME NEW e \in Editor, NEW path \in Path, NEW side \in Side,
             NEW confirmed \in BOOLEAN, Restore(e, path, side, confirmed)
      PROVE  OneAtATime'
  <2>1. CASE Reject
    BY <1>2, <2>1, RestKeepsCurrent DEF Restore, Reject, Engine
  <2>2. CASE Submit(e, "restore", path, side, TRUE, WithRestored(retired, path, side))
    BY <1>0, <1>2, <2>2, SubmitIsCurrent DEF Restore, Engine
  <2> QED BY <1>2, <2>1, <2>2 DEF Restore
<1>3. ASSUME NEW e \in Editor, NEW confirmed \in BOOLEAN, AdoptDefault(e, confirmed)
      PROVE  OneAtATime'
  <2>1. CASE Reject
    BY <1>3, <2>1, RestKeepsCurrent DEF AdoptDefault, Reject, Engine
  <2>2. CASE ~Reject
    <3>1. /\ Submit(e, "adopt", AnySide, AnySide, confirmed, Default)
          /\ confirmed \/ ToRestore(retired) = {}
      <4>1. ~Same(retired) /\ (confirmed \/ ToRestore(retired) = {})
        BY <1>3, <2>2 DEF AdoptDefault
      <4> QED BY <1>3, <2>2, <4>1 DEF AdoptDefault
    <3> QED BY <1>0, <1>3, <3>1, SubmitIsCurrent DEF AdoptDefault, Engine
  <2> QED BY <2>1, <2>2
<1>4. ASSUME NEW e \in Editor, WriteList(e)
      PROVE  OneAtATime'
  <2>1. edit'[e].at = "readback" /\ \A f \in Editor : f # e => edit'[f] = edit[f]
    BY <1>4 DEF WriteList, RoutingTypeOK
  <2>2. \A f \in Editor : ~Writing(f)'
    BY <1>4, <2>1 DEF OneAtATime, WriteList, Writing
  <2> QED BY <2>2 DEF OneAtATime
<1>5. ASSUME NEW e \in Editor, ReadBack(e)
      PROVE  OneAtATime'
  <2>1. edit'[e] = NoClick /\ \A f \in Editor : f # e => edit'[f] = edit[f]
    BY <1>5 DEF ReadBack, RoutingTypeOK
  <2>2. retired' = retired
    BY <1>5 DEF ReadBack, Engine
  <2>3. \A f \in Editor : Writing(f)' => f # e /\ Writing(f)
    BY <2>1 DEF Writing, NoClick
  <2>4. \A f \in Editor : f # e /\ Current(f) => Current(f)'
    BY <2>1, <2>2 DEF Current, ToRestore, WithDiverted, WithRestored, Expand, IsListed
  <2> QED BY <2>3, <2>4 DEF OneAtATime
<1>6. ASSUME NEW e \in Editor, Unreadable(e)
      PROVE  OneAtATime'
  BY <1>6, RestKeepsCurrent DEF Unreadable, Reject, Engine
<1>7. ASSUME NEW path, NEW rule, NEW confirmed, SaveRule(path, rule, confirmed)
      PROVE  OneAtATime'
  BY <1>7, RestKeepsCurrent DEF SaveRule
<1>8. ASSUME NEW path, DeleteRule(path)
      PROVE  OneAtATime'
  BY <1>8, RestKeepsCurrent DEF DeleteRule
<1>9. CASE SaveCategory
  BY <1>9, RestKeepsCurrent DEF SaveCategory, PostedList
<1>10. CASE Switch
  BY <1>10, RestKeepsCurrent DEF Switch
<1>11. CASE UNCHANGED routingVars
  BY <1>11, RestKeepsCurrent DEF routingVars
<1>12. ASSUME NEW list, AppPosts(list)
       PROVE  OneAtATime'
  BY <1>12 DEF AppPosts, OneAtATime, Writing
<1> QED
  BY <1>1, <1>2, <1>3, <1>4, <1>5, <1>6, <1>7, <1>8, <1>9, <1>10, <1>11, <1>12 DEF RoutingNext

\* Writing a current list restores nothing that was not asked for.
LEMMA WriteRestores ==
    ASSUME RoutingTypeOK, OneAtATime, NEW e \in Editor, WriteList(e),
           NEW pair \in Expand(retired) \ Expand(retired')
    PROVE  Restores(e, pair) /\ edit'[e].at = "readback"
<1>1. Writing(e) /\ Current(e) /\ retired \in SUBSET Pair
  BY DEF WriteList, OneAtATime, RoutingTypeOK
<1>2. retired' = edit[e].new
  BY DEF WriteList
<1>3. edit'[e].at = "readback"
  BY DEF WriteList, RoutingTypeOK
<1>4. CASE edit[e].act = "divert"
  BY <1>1, <1>2, <1>4, DivertAdds DEF Current
<1>5. CASE edit[e].act = "restore"
  BY <1>1, <1>2, <1>3, <1>5, RestoreIsExact DEF Current, Restores
<1>6. CASE edit[e].act = "adopt"
  BY <1>1, <1>2, <1>3, <1>6 DEF Current, Restores, ToRestore
<1> QED BY <1>1, <1>4, <1>5, <1>6 DEF Current

\* As long as nobody reads or posts the list while another writes it, a side goes back
\* to paid subscribers only by a click that named it and carried the confirm, the posts
\* of the app's API left out (routes/routing.py:19-24).
THEOREM RestoresAreConfirmed ==
    ASSUME EditsOverlap = FALSE
    PROVE  RoutingSpec => OnlyConfirmedRestores
<1>1. RoutingInit => OneAtATime
  BY DEF RoutingInit, OneAtATime, Writing, NoClick
<1>2. ASSUME RoutingTypeOK, OneAtATime, [RoutingNext]_routingVars
      PROVE  [\/ \E list \in SUBSET Pair : AppPosts(list)
              \/ \A pair \in Expand(retired) \ Expand(retired') :
                    \E e \in Editor : Restores(e, pair) /\ edit'[e].at = "readback"]_routingVars
  <2>1. ASSUME NEW e \in Editor, WriteList(e)
        PROVE  \A pair \in Expand(retired) \ Expand(retired') :
                  \E f \in Editor : Restores(f, pair) /\ edit'[f].at = "readback"
    BY <1>2, <2>1, WriteRestores
  <2>2. CASE retired' = retired
    BY <2>2 DEF Expand
  <2>3. \/ \E e \in Editor : WriteList(e)
        \/ \E list \in SUBSET Pair : AppPosts(list)
        \/ retired' = retired
    BY <1>2 DEF RoutingNext, Divert, Restore, AdoptDefault, Unreadable, ReadBack, Engine,
               SaveRule, DeleteRule, SaveCategory, PostedList, Switch, routingVars
  <2> QED BY <2>1, <2>2, <2>3
<1>3. RoutingTypeOK /\ OneAtATime /\ [RoutingNext]_routingVars => OneAtATime'
  BY OneAtATimeKept
<1> QED
  BY <1>1, <1>2, <1>3, RoutingInitTypes, RoutingTypesKept, PTL DEF RoutingSpec, OnlyConfirmedRestores

------------------------------------------------------------------------------
\* A condition relaxed no longer holds any row back, and the others hold back what
\* they did.
LEMMA RelaxedMeets ==
    ASSUME NEW Token, NEW rule \in [enabled : BOOLEAN, gates : SUBSET Token, regimes : SUBSET Token,
                                   sessions : SUBSET Token, direction : STRING, floor : Int],
           NEW row, NEW dim \in Dimension, NEW other \in Dimension
    PROVE  Met(other, row, Relaxed(rule, dim)) <=> other = dim \/ Met(other, row, rule)
<1> DEFINE relaxed == Relaxed(rule, dim)
<1>1. CASE dim = "gate"
  <2>1. /\ relaxed.gates = {AnyToken} /\ relaxed.regimes = rule.regimes
        /\ relaxed.sessions = rule.sessions /\ relaxed.direction = rule.direction
        /\ relaxed.floor = rule.floor
    BY <1>1 DEF Relaxed
  <2> QED BY <1>1, <2>1 DEF Met, Matches, Dimension
<1>2. CASE dim = "regime"
  <2>1. /\ relaxed.gates = rule.gates /\ relaxed.regimes = {AnyToken}
        /\ relaxed.sessions = rule.sessions /\ relaxed.direction = rule.direction
        /\ relaxed.floor = rule.floor
    BY <1>2 DEF Relaxed
  <2> QED BY <1>2, <2>1 DEF Met, Matches, Dimension
<1>3. CASE dim = "session"
  <2>1. /\ relaxed.gates = rule.gates /\ relaxed.regimes = rule.regimes
        /\ relaxed.sessions = {AnyToken} /\ relaxed.direction = rule.direction
        /\ relaxed.floor = rule.floor
    BY <1>3 DEF Relaxed
  <2> QED BY <1>3, <2>1 DEF Met, Matches, Dimension
<1>4. CASE dim = "direction"
  <2>1. /\ relaxed.gates = rule.gates /\ relaxed.regimes = rule.regimes
        /\ relaxed.sessions = rule.sessions /\ relaxed.direction = "any"
        /\ relaxed.floor = rule.floor
    BY <1>4 DEF Relaxed
  <2> QED BY <1>4, <2>1 DEF Met, DirectionMet, Dimension
<1>5. CASE dim = "confidence"
  <2>1. /\ relaxed.gates = rule.gates /\ relaxed.regimes = rule.regimes
        /\ relaxed.sessions = rule.sessions /\ relaxed.direction = rule.direction
        /\ relaxed.floor = NoFloor
    BY <1>5 DEF Relaxed
  <2> QED BY <1>5, <2>1 DEF Met, Dimension
<1> QED BY <1>1, <1>2, <1>3, <1>4, <1>5 DEF Dimension

\* The count beside a condition is what relaxing it would let through: the rows a
\* rule selects with one condition relaxed are those it selected before and those
\* which that condition alone held back (dark_promotion.py, rule_selection).
THEOREM SoleBlockerIsExact ==
    ASSUME NEW Token, NEW rule \in [enabled : BOOLEAN, gates : SUBSET Token, regimes : SUBSET Token,
                                   sessions : SUBSET Token, direction : STRING, floor : Int],
           NEW rows, NEW dim \in Dimension
    PROVE  Selected(rows, Relaxed(rule, dim)) = Selected(rows, rule) \cup SoleBlocker(rows, rule, dim)
<1>1. ASSUME NEW i
      PROVE  Unmet(rows[i], Relaxed(rule, dim)) = Unmet(rows[i], rule) \ {dim}
  BY RelaxedMeets DEF Unmet
<1>2. ASSUME NEW i
      PROVE  Unmet(rows[i], Relaxed(rule, dim)) = {}
               <=> Unmet(rows[i], rule) = {} \/ Unmet(rows[i], rule) = {dim}
  BY <1>1
<1> QED BY <1>2 DEF Selected, SoleBlocker

------------------------------------------------------------------------------
\* What keeps the flag and the selection in step: a row no condition refuses has a
\* gate the rule reaches and a side its direction does not exclude.
LEMMA SelectedIsCovered ==
    ASSUME NEW path, NEW side \in Side, NEW row,
           row.side = side, row.gate = RetiredGate(path, side),
           RuleState(rules[path], master, lane) = "live", Unmet(row, rules[path]) = {}
    PROVE  Covers(path, side) # "no" /\ RuleReachesRetired(rules[path])
<1> DEFINE rule == rules[path]
<1>1. Met("gate", row, rule) /\ Met("direction", row, rule)
  BY DEF Unmet, Dimension
<1>2. RuleReachesRetired(rule)
  <2>1. AnyToken \in rule.gates \/ RetiredGate(path, side) \in rule.gates
    BY <1>1 DEF Met, Matches
  <2> QED BY <2>1 DEF RuleReachesRetired, RetiredGate
<1>3. Covers(path, side) # "no"
  <2>1. DirectionMet(row, rule.direction)
    BY <1>1 DEF Met
  <2>2. rule.direction = "long" => side = "LONG"
    BY <2>1 DEF DirectionMet
  <2>3. rule.direction = "short" => side = "SHORT"
    BY <2>1 DEF DirectionMet
  <2> QED BY <2>2, <2>3 DEF Covers
<1> QED BY <1>2, <1>3

\* For any rules, those whose direction this build does not know included: a rule
\* that would put a row of a diverted side back on the live feed is flagged on that
\* side's row (data_sources/routing.py, build_rows against rule_unmet).
THEOREM ConflictsAlwaysFlagged == RoutingSpec => []ConflictsAreFlagged
<1>1. ConflictsAreFlagged
  <2> SUFFICES ASSUME NEW path \in Path, NEW side \in Side,
                      LiveState(path, side) = "diverted",
                      RuleState(rules[path], master, lane) = "live",
                      NEW regime, NEW regime15,
                      Unmet([side |-> side, gate |-> RetiredGate(path, side), regime |-> regime,
                             regime15 |-> regime15, session |-> Gate("asia"), confidence |-> 1],
                            rules[path]) = {}
               PROVE  Conflict(path, side)
    BY DEF ConflictsAreFlagged
  <2> QED BY SelectedIsCovered DEF Conflict
<1> QED BY <1>1, PTL
=============================================================================
