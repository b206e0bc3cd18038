------------------------------- MODULE Probing -------------------------------
(***************************************************************************)
(* app/routes/system.py: one load of a /system page.  Its probes run side by *)
(* side and the box does not stand still for them, so each reads a moment of *)
(* its own; the chain of verdicts is drawn when the last one has returned.   *)
(***************************************************************************)
EXTENDS SystemHealth

CONSTANTS
    EngineBox, RedisBox, ApiBox,    \* names in Roster
    BoxStates,                      \* what a container may look like
    MaxMoves                        \* bound: changes of the box during one load

\* The page looks at declared containers, and docker has four words for a health.
ASSUME ProbingAssumption ==
    /\ {EngineBox, RedisBox, ApiBox} \subseteq DOMAIN Roster
    /\ \A state \in BoxStates : state.health \in {"none", "healthy", "starting", "unhealthy"}
    /\ MaxMoves \in Nat

VARIABLES
    box,        \* the containers there are, each a member of BoxStates
    daemon,     \* does docker answer?
    serving,    \* does redis answer, is it loading, does it hang?
    keys,       \* the needed keys it holds
    api,        \* does the engine's API answer?
    asked,      \* probes of this load that have returned
    told,       \* what they returned
    chain,      \* the verdicts of the load
    moves,      \* changes of the box so far
    seen        \* history: what was down and what was up at some moment of the
                \* load, and whether docker answered

probingVars == <<box, daemon, serving, keys, api, asked, told, chain, moves, seen>>

Probes == {"inspect", "ps", "ping", "census", "api"}
NoChain == [none |-> TRUE]
NothingTold ==
    [inspect |-> <<>>, ps |-> <<>>, ping |-> "", census |-> "", keys |-> {}, api |-> FALSE]

IsUp(name) == name \in DOMAIN box /\ box[name].status = "running"
RedisAnswers == IsUp(RedisBox) /\ serving = "yes"

\* What is down, in the chain's own words.
Down ==
    {step \in {"engine_container", "engine_healthcheck", "redis_container", "snapshot_keys",
               "api_reachable"} :
        CASE step = "engine_container" -> ~IsUp(EngineBox)
          [] step = "engine_healthcheck" -> EngineBox \in DOMAIN box => box[EngineBox].health = "unhealthy"
          [] step = "redis_container" -> ~RedisAnswers
          [] step = "snapshot_keys" -> ~RedisAnswers \/ keys # Needed
          [] OTHER -> ~api}
Judged == {"engine_container", "engine_healthcheck", "redis_container", "snapshot_keys", "api_reachable"}

Boxes == UNION {[names -> BoxStates] : names \in SUBSET DOMAIN Roster}

\* A load begins, whatever the box is like; it carries nothing over from another.
ProbingInit ==
    /\ box \in Boxes /\ daemon \in BOOLEAN
    /\ serving \in {"yes", "loading", "hung"} /\ keys \in SUBSET Needed /\ api \in BOOLEAN
    /\ asked = {} /\ told = NothingTold /\ chain = NoChain /\ moves = 0
    /\ seen = [down |-> Down, up |-> Judged \ Down, docker |-> {}]

BoxAtRest ==
    /\ box = <<>> /\ daemon = TRUE /\ serving = "yes" /\ keys = {} /\ api = TRUE
    /\ asked = {} /\ told = NothingTold /\ chain = NoChain /\ moves = 0
    /\ seen = [down |-> {}, up |-> {}, docker |-> {}]

Loading == chain = NoChain /\ asked # Probes

Returned(probe, answer) == asked' = asked \cup {probe} /\ told' = answer
Carried == seen' = [seen EXCEPT !.docker = @ \cup {daemon}]

\* _inspect_all, and after it _docker_ps, in collect_containers.
AskInspect ==
    /\ Loading /\ "inspect" \notin asked
    /\ Returned("inspect", [told EXCEPT !.inspect = Inspected(daemon, box)]) /\ Carried
AskPs ==
    /\ Loading /\ "inspect" \in asked /\ "ps" \notin asked
    /\ Returned("ps", [told EXCEPT !.ps = Inspected(daemon, box)]) /\ Carried

\* docker exec fails with the daemon, and with the container.
Exec == daemon /\ IsUp(RedisBox)

AskPing ==
    /\ Loading /\ "ping" \notin asked
    /\ Returned("ping", [told EXCEPT !.ping =
          IF ~Exec THEN "exec_error"
          ELSE CASE serving = "yes" -> "PONG" [] serving = "loading" -> "LOADING" [] OTHER -> "timeout"])
    /\ Carried

AskCensus ==
    /\ Loading /\ "census" \notin asked
    /\ Returned("census", [told EXCEPT
          !.census = IF ~Exec THEN "exec_error" ELSE IF serving = "hung" THEN "timeout"
                     ELSE IF serving = "yes" /\ keys # {} THEN "" ELSE "no_output",
          !.keys = IF Exec /\ serving = "yes" THEN keys ELSE {}])
    /\ Carried

\* _api_probe
AskApi ==
    /\ Loading /\ "api" \notin asked
    /\ Returned("api", [told EXCEPT !.api = api]) /\ UNCHANGED seen

AskOne == (AskInspect \/ AskPs \/ AskPing \/ AskCensus \/ AskApi)
        /\ UNCHANGED <<box, daemon, serving, keys, api, chain, moves>>

\* _gather: all have returned.
Judge ==
    /\ chain = NoChain /\ asked = Probes
    /\ chain' = BuildChain(CollectContainers(told.inspect, told.ps),
                           CollectRedis(told.ping, told.census, told.keys),
                           [error |-> ~told.api, pulse |-> told.api, pairs |-> 1],
                           [error |-> FALSE, age |-> 0, cycle_ok |-> "yes"], EngineBox, ApiBox)
    /\ UNCHANGED <<box, daemon, serving, keys, api, asked, told, moves, seen>>

\* The box, at any moment: a container appears or changes, one goes, docker, redis,
\* its keys or the API come or go.
BoxMoves ==
    /\ Loading /\ moves < MaxMoves /\ moves' = moves + 1
    /\ \/ /\ box' \in {other \in Boxes :
                \E c \in DOMAIN Roster : \A d \in DOMAIN Roster \ {c} :
                    /\ d \in DOMAIN other <=> d \in DOMAIN box
                    /\ d \in DOMAIN box => other[d] = box[d]}
          /\ UNCHANGED <<daemon, serving, keys, api>>
       \/ daemon' = ~daemon /\ UNCHANGED <<box, serving, keys, api>>
       \/ serving' \in {"yes", "loading", "hung"} /\ UNCHANGED <<box, daemon, keys, api>>
       \/ keys' \in SUBSET Needed /\ UNCHANGED <<box, daemon, serving, api>>
       \/ api' = ~api /\ UNCHANGED <<box, daemon, serving, keys>>
    /\ seen' = [seen EXCEPT !.down = @ \cup Down', !.up = @ \cup (Judged \ Down')]
    /\ UNCHANGED <<asked, told, chain>>

ProbingNext == AskOne \/ Judge \/ BoxMoves

ProbingSpec == ProbingInit /\ [][ProbingNext]_probingVars

------------------------------------------------------------------------------
\* What a load calls broken was down at some moment of it, what it calls ok was up,
\* in whatever order the probes returned; a PING docker could not carry is held
\* against redis only if docker answered another probe of the same load
\* (system_health.py:850-880).
BrokenWasDown ==
    chain # NoChain =>
        \A step \in Judged :
            /\ chain[step] = "broken" => \/ step \in seen.down
                                         \/ step = "redis_container" /\ seen.docker = BOOLEAN
            /\ chain[step] = "ok" => step \in seen.up
=============================================================================
