------------------------------- MODULE Routing -------------------------------
(***************************************************************************)
(* app/routes/routing.py and app/data_sources/routing.py: which (path, side) *)
(* reaches subscribers.  The engine keeps one retired list; every click here *)
(* reads it, edits the copy, writes the whole list back and reads it again.  *)
(* app/routes/promotions.py: the rules that put dark rows back on the feed.  *)
(* Between two awaits of one click another click may run, or somebody may    *)
(* turn a switch in the engine.                                              *)
(***************************************************************************)
EXTENDS DarkPromotion

CONSTANTS
    Path,          \* setup classes
    Editor,        \* clicks that may be in flight
    Default,       \* the signed-off list: a set of pairs
    RuleChoices,   \* the rules a form can post
    EditsOverlap,  \* may a click start while another is being written?
    Faults         \* may the engine refuse, not answer, or answer too late?

AnySide == "*"
Pair == Path \X (Side \cup {AnySide})

ASSUME RoutingAssumption ==
    /\ Default \subseteq Pair
    /\ EditsOverlap \in BOOLEAN /\ Faults \in BOOLEAN
    /\ AnySide \notin Side

VARIABLES
    retired,   \* engine: the retired list
    enabled,   \* engine: the retirement master switch
    rules,     \* engine: one promotion rule per path, or none
    master,    \* engine: dark_promotion_enabled
    lane,      \* engine: dark_lane_enabled
    edit,      \* each click's local variables
    flash      \* did the last click say that what was asked for is so?

routingVars == <<retired, enabled, rules, master, lane, edit, flash>>

\* Both sides of an entry: what the list means to the scanner.
Expand(list) ==
    UNION {{<<entry[1], s>> : s \in IF entry[2] = AnySide THEN Side ELSE {entry[2]}}
           : entry \in list}

IsListed(list, path, side) == <<path, side>> \in list \/ <<path, AnySide>> \in list

WithDiverted(list, path, side) ==
    IF IsListed(list, path, side) THEN list ELSE list \cup {<<path, side>>}

\* A whole-path entry dropped where it should be split.
WithRestoredWhole(list, path, side) == list \ {<<path, side>>, <<path, AnySide>>}

WithRestored(list, path, side) ==
    (list \ {<<path, side>>, <<path, AnySide>>})
        \cup IF <<path, AnySide>> \in list
                THEN {<<path, other>> : other \in Side \ {side}} ELSE {}

ToRestore(list) == Expand(list) \ Expand(Default)
Same(list) == Expand(list) = Expand(Default)

------------------------------------------------------------------------------
\* A row of the page.
LiveState(path, side) ==
    CASE ~IsListed(retired, path, side) -> "live"
      [] IsListed(retired, path, side) /\ enabled -> "diverted"
      [] OTHER -> "diverted_inert"

\* Trend conditions decide row by row; reading them as "this side is not
\* covered" hides the rows they let through.
CoversFlatly(path, side) ==
    IF RuleState(rules[path], master, lane) # "live" THEN "no"
    ELSE CASE rules[path].direction = "any" -> "yes"
           [] rules[path].direction = "long" /\ side = "LONG" -> "yes"
           [] rules[path].direction = "short" /\ side = "SHORT" -> "yes"
           [] OTHER -> "no"

\* promotion_for_side: any direction it cannot decide here is left open.
Covers(path, side) ==
    IF RuleState(rules[path], master, lane) # "live" THEN "no"
    ELSE CASE rules[path].direction = "any" -> "yes"
           [] rules[path].direction = "long" -> IF side = "LONG" THEN "yes" ELSE "no"
           [] rules[path].direction = "short" -> IF side = "SHORT" THEN "yes" ELSE "no"
           [] OTHER -> "depends"

RuleReachesRetired(rule) ==
    \E gate \in rule.gates : gate = AnyToken \/ gate[1] = "retired"

Conflict(path, side) ==
    /\ LiveState(path, side) = "diverted"
    /\ Covers(path, side) # "no"
    /\ RuleReachesRetired(rules[path])

------------------------------------------------------------------------------
NoClick == [at |-> "idle"]
Say(ok) == flash' = ok

RoutingInit ==
    /\ retired = Default /\ enabled = TRUE
    /\ rules = [p \in Path |-> NoRule]
    /\ master = TRUE /\ lane = TRUE
    /\ edit = [e \in Editor |-> NoClick]
    /\ flash = TRUE

Writing(e) == edit[e].at = "write"
MayStart(e) ==
    /\ edit[e].at = "idle"
    /\ EditsOverlap \/ \A f \in Editor : ~Writing(f)

\* The list is read at the moment of the click and edited here; nothing is
\* written until the request awaits the engine again.
Submit(e, act, path, side, confirmed, new) ==
    edit' = [edit EXCEPT ![e] = [at |-> "write", act |-> act, path |-> path, side |-> side,
                                 confirmed |-> confirmed, new |-> new]]

Reject == Say(FALSE) /\ UNCHANGED edit

Engine == <<retired, enabled, rules, master, lane>>

Divert(e, path, side) ==
    /\ MayStart(e)
    /\ IF IsListed(retired, path, side)
          THEN Reject
          ELSE /\ Submit(e, "divert", path, side, FALSE, WithDiverted(retired, path, side))
               /\ UNCHANGED flash
    /\ UNCHANGED Engine

Restore(e, path, side, confirmed) ==
    /\ MayStart(e)
    /\ IF confirmed /\ IsListed(retired, path, side)
          THEN /\ Submit(e, "restore", path, side, TRUE, WithRestored(retired, path, side))
               /\ UNCHANGED flash
          ELSE Reject
    /\ UNCHANGED Engine

AdoptDefault(e, confirmed) ==
    /\ MayStart(e)
    /\ IF ~Same(retired) /\ (confirmed \/ ToRestore(retired) = {})
          THEN Submit(e, "adopt", AnySide, AnySide, confirmed, Default) /\ UNCHANGED flash
          ELSE Reject
    /\ UNCHANGED Engine

\* Every action of the three when the engine does not report its list.
Unreadable(e) == MayStart(e) /\ Faults /\ Reject /\ UNCHANGED Engine

\* set_tunables: answered, refused, or applied with the answer lost.
WriteList(e) ==
    /\ Writing(e)
    /\ \E reply \in {"ok"} \cup (IF Faults THEN {"refused", "lost"} ELSE {}) :
          /\ retired' = IF reply = "refused" THEN retired ELSE edit[e].new
          /\ edit' = [edit EXCEPT ![e] = [at |-> "readback", act |-> edit[e].act,
                                          path |-> edit[e].path, side |-> edit[e].side,
                                          confirmed |-> edit[e].confirmed,
                                          ok |-> reply = "ok"]]
    /\ UNCHANGED <<enabled, rules, master, lane, flash>>

\* The engine's own list settles what the owner is told: good news needs a read
\* that shows it, and a list that is being enforced.
Verdict(e, readable) ==
    LET listed == IsListed(retired, edit[e].path, edit[e].side)
    IN /\ edit[e].ok /\ readable
       /\ CASE edit[e].act = "divert" -> listed /\ enabled
            [] edit[e].act = "restore" -> ~listed
            [] OTHER -> Same(retired)

ReadBack(e) ==
    /\ edit[e].at = "readback"
    /\ \E readable \in {TRUE} \cup (IF Faults THEN {FALSE} ELSE {}) : Say(Verdict(e, readable))
    /\ edit' = [edit EXCEPT ![e] = NoClick]
    /\ UNCHANGED Engine

\* promotions_save: arming needs the confirm, and the engine's answer decides
\* what is said of the rule it stored.
SaveRule(path, rule, confirmed) ==
    /\ IF rule.enabled /\ ~confirmed
          THEN Say(FALSE) /\ UNCHANGED rules
          ELSE \/ /\ rules' = [rules EXCEPT ![path] = rule]
                  /\ Say(~Inert(rule) /\ (rule.enabled => master))
               \/ Faults /\ Say(FALSE) /\ rules' \in {rules, [rules EXCEPT ![path] = rule]}
    /\ UNCHANGED <<retired, enabled, master, lane, edit>>

DeleteRule(path) ==
    /\ \/ rules' = [rules EXCEPT ![path] = NoRule] /\ Say(TRUE)
       \/ Faults /\ Say(FALSE) /\ rules' \in {rules, [rules EXCEPT ![path] = NoRule]}
    /\ UNCHANGED <<retired, enabled, master, lane, edit>>

\* A form that posts every value of its category, as its page had loaded it.
PostedWhole(seen) == seen

\* The lists another page owns are shown on the tunables form and not posted by it,
\* so a page loaded long ago cannot write an old one back (control.py:54-63).
PostedList(seen) == retired

SaveCategory ==
    /\ \E seen \in {Default, {}} : retired' = PostedList(seen)
    /\ Say(TRUE)
    /\ UNCHANGED <<enabled, rules, master, lane, edit>>

\* control_tunables of the app's API: any list at all, with no confirm asked for. (A
\* post the engine refuses changes nothing.)
AppPosts(list) ==
    /\ EditsOverlap \/ \A e \in Editor : ~Writing(e)
    /\ retired' = list
    /\ UNCHANGED <<enabled, rules, master, lane, edit, flash>>

\* The three switches, turned on another page or in the engine.
Switch ==
    /\ enabled' \in BOOLEAN /\ master' \in BOOLEAN /\ lane' \in BOOLEAN
    /\ UNCHANGED <<retired, rules, edit, flash>>

RoutingNext ==
    \/ \E e \in Editor, path \in Path, side \in Side :
          \/ Divert(e, path, side)
          \/ \E confirmed \in BOOLEAN : Restore(e, path, side, confirmed)
    \/ \E e \in Editor, confirmed \in BOOLEAN : AdoptDefault(e, confirmed)
    \/ \E e \in Editor : Unreadable(e) \/ WriteList(e) \/ ReadBack(e)
    \/ \E path \in Path, rule \in RuleChoices, confirmed \in BOOLEAN :
          SaveRule(path, rule, confirmed)
    \/ \E path \in Path : DeleteRule(path)
    \/ SaveCategory \/ Switch
    \/ \E list \in SUBSET Pair : AppPosts(list)

RoutingSpec == RoutingInit /\ [][RoutingNext]_routingVars

------------------------------------------------------------------------------
Act == {"divert", "restore", "adopt"}
EditType ==
    {NoClick}
    \cup [at : {"write"}, act : Act, path : Path \cup {AnySide}, side : Side \cup {AnySide},
          confirmed : BOOLEAN, new : SUBSET Pair]
    \cup [at : {"readback"}, act : Act, path : Path \cup {AnySide}, side : Side \cup {AnySide},
          confirmed : BOOLEAN, ok : BOOLEAN]

RoutingTypeOK ==
    /\ retired \subseteq Pair
    /\ enabled \in BOOLEAN /\ master \in BOOLEAN /\ lane \in BOOLEAN
    /\ edit \in [Editor -> EditType]

\* Does a click say this pair should reach subscribers again?
Restores(e, pair) ==
    /\ Writing(e) /\ edit[e].confirmed
    /\ \/ edit[e].act = "restore" /\ pair = <<edit[e].path, edit[e].side>>
       \/ edit[e].act = "adopt" /\ pair \notin Expand(Default)

\* On the pages of ops a side goes back to paid subscribers only by a click that named
\* it and carried the confirm (routing.py:19-24), whatever else is being edited; the
\* app's API asks for none and is left out (api_v1.py:255-267).
OnlyConfirmedRestores ==
    [][\/ \E list \in SUBSET Pair : AppPosts(list)
       \/ \A pair \in Expand(retired) \ Expand(retired') :
             \E e \in Editor : Restores(e, pair) /\ edit'[e].at = "readback"]_routingVars

\* A rule that would put a diverted candidate back on the live feed is flagged on
\* its row (data_sources/routing.py:268-277), whichever of its conditions decide.
ConflictsAreFlagged ==
    \A path \in Path, side \in Side :
        (LiveState(path, side) = "diverted" /\ RuleState(rules[path], master, lane) = "live")
        => \A regime, regime15 \in {Gate("TRENDING_UP"), Gate("TRENDING_DOWN"), Gate("RANGING")} :
              LET row == [side |-> side, gate |-> RetiredGate(path, side), regime |-> regime,
                          regime15 |-> regime15, session |-> Gate("asia"), confidence |-> 1]
              IN Unmet(row, rules[path]) = {} => Conflict(path, side)
=============================================================================
