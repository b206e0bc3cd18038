---------------------------- MODULE SystemHealth -----------------------------
(***************************************************************************)
(* app/data_sources/system_health.py: what the probes of the box said, and   *)
(* the chain of verdicts drawn from them.  Every probe ends in a result with *)
(* a cause; a verdict the probes cannot support is "unknown", never "broken" *)
(* and never "ok".                                                           *)
(***************************************************************************)
EXTENDS Integers, FiniteSets, FiniteSetsExt

CONSTANTS
    Roster,       \* the declared containers, a stack for each
    Needed,       \* the snapshot keys ops depends on
    CohortWidth,  \* _COHORT_BUCKET_SEC
    AgentStale    \* AGENT_STALE_SEC

ASSUME HealthAssumption == CohortWidth \in Nat \ {0} /\ AgentStale \in Nat

NotRead == -1

\* _run: how a probe may end.
Causes == {"timeout", "exception", "exec_error", "no_output"}
Probe(cause) == [ok |-> cause = "", cause |-> cause]

\* _inspect_all, _docker_ps: what could be parsed of the output, a failed probe's
\* too; docker inspect fails if one name of many is missing.
Inspected(answers, box) == IF answers THEN box ELSE <<>>

\* _container_row's verdict: the inspection where there is one, else the listing.
ContainerVerdict(name, inspected, listed) ==
    IF name \notin DOMAIN inspected \cup DOMAIN listed THEN "absent"
    ELSE IF name \notin DOMAIN inspected
         THEN IF listed[name].status = "running" THEN "running" ELSE "stopped"
    ELSE IF inspected[name].status = "restarting" THEN "restarting"
    ELSE IF inspected[name].status # "running" THEN "stopped"
    ELSE IF inspected[name].health \in {"unhealthy", "starting"} THEN inspected[name].health
    ELSE "running"

\* _mark_restart_cohorts: the largest group of a stack that started together is its
\* deploy; of two as large, the younger one.  What started later restarted alone.
RestartedAlone(box) ==
    LET up == {c \in DOMAIN box : box[c].uptime # NotRead}
        of(stack) == {c \in up : Roster[c] = stack}
        bucket(c) == box[c].uptime \div CohortWidth
        cohort(c) == {d \in of(Roster[c]) : bucket(d) = bucket(c)}
        deploys(stack) == {c \in of(stack) :
            /\ Cardinality(cohort(c)) >= 2
            /\ \A d \in of(stack) :
                  \/ Cardinality(cohort(d)) < Cardinality(cohort(c))
                  \/ Cardinality(cohort(d)) = Cardinality(cohort(c)) /\ bucket(c) <= bucket(d)}
    IN {c \in up : deploys(Roster[c]) # {}
                   /\ \A d \in deploys(Roster[c]) : box[c].uptime < box[d].uptime}

\* collect_containers: blind when docker told nothing at all, twice.
CollectContainers(inspected, listed) ==
    [blind |-> DOMAIN inspected \cup DOMAIN listed = {},
     rows |-> [c \in DOMAIN Roster |-> ContainerVerdict(c, inspected, listed)],
     health |-> [c \in DOMAIN Roster |->
                    IF c \in DOMAIN inspected THEN inspected[c].health ELSE "none"],
     alone |-> RestartedAlone(inspected)]

\* collect_redis: what PING said, and the keys that were there when the census ran;
\* a census that printed nothing did run.
CollectRedis(ping, census, keys) ==
    [reachable |-> ping = "PONG", ping |-> ping, census_ran |-> census \in {"", "no_output"},
     missing |-> IF census = "" THEN Needed \ keys ELSE Needed]

\* container_step, within build_chain
ContainerStep(containers, name) ==
    IF containers.blind THEN "unknown"
    ELSE IF containers.rows[name] \in {"absent", "stopped", "restarting"} THEN "broken" ELSE "ok"

\* The engine's own healthcheck; none is not a pass.
HealthcheckStep(containers, name) ==
    IF containers.blind \/ containers.rows[name] = "absent" THEN "unknown"
    ELSE CASE containers.health[name] = "none" -> "unknown"
           [] containers.health[name] = "healthy" -> "ok"
           [] containers.health[name] = "starting" -> "degraded"
           [] OTHER -> "broken"

\* Every failed PING held against redis.
RedisStepSighted(containers, redis) == IF redis.reachable THEN "ok" ELSE "broken"

\* A PING that was refused names redis; one docker could not carry does not.
RedisStep(containers, redis) ==
    IF redis.reachable THEN "ok"
    ELSE IF containers.blind THEN "unknown"
    ELSE IF redis.ping \in {"exec_error", "timeout", "exception"} THEN "broken" ELSE "unknown"

\* A key is missing only if redis answered and the census ran.
KeysStep(containers, redis) ==
    IF containers.blind \/ ~redis.census_ran \/ ~redis.reachable THEN "unknown"
    ELSE IF redis.missing # {} THEN "broken" ELSE "ok"

\* agent_step
AgentStep(agent) ==
    IF agent.error \/ agent.age = NotRead THEN "unknown"
    ELSE IF agent.age > AgentStale THEN "broken"
    ELSE IF agent.cycle_ok = "no" THEN "degraded" ELSE "ok"

EngineWorking(api) ==
    IF api.error \/ ~api.pulse THEN "unknown" ELSE IF api.pairs > 0 THEN "ok" ELSE "degraded"

\* build_chain
BuildChain(containers, redis, api, agent, engine, server) ==
    [engine_container |-> ContainerStep(containers, engine),
     engine_healthcheck |-> HealthcheckStep(containers, engine),
     redis_container |-> RedisStep(containers, redis),
     snapshot_keys |-> KeysStep(containers, redis),
     api_container |-> ContainerStep(containers, server),
     api_reachable |-> IF api.error THEN "broken" ELSE "ok",
     engine_working |-> EngineWorking(api), agent |-> AgentStep(agent)]

\* collect_host: a disk shared by two paths is one filesystem.
DistinctFilesystems(device) == Cardinality({device[p] : p \in DOMAIN device} \ {NotRead})

\* reduce_host_resources
HostState(block) ==
    IF ~block.sent THEN "not_reported"
    ELSE IF block.error \/ block.pct = NotRead THEN "unknown"
    ELSE IF block.pct >= 90 THEN "at_ceiling" ELSE IF block.pct >= 70 THEN "tight" ELSE "ok"
=============================================================================
