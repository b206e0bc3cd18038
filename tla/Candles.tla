------------------------------- MODULE Candles -------------------------------
(***************************************************************************)
(* app/data_sources/binance_klines.py and free_run.py: candles from Binance  *)
(* behind a breaker, and the cache of replays made from them.  A page load   *)
(* computes every signal at once; a semaphore bounds the fetches; each fetch *)
(* reads pages until it has caught up, and its answer may arrive after a     *)
(* later one's.  One signal is followed here; its fetches share everything.  *)
(***************************************************************************)
EXTENDS Integers, FiniteSets

CONSTANTS
    Fetch,        \* computations of the signal that may be under way together
    Concurrency,  \* free_run_concurrency
    ReplayTtl,    \* free_run_cache_ttl_sec, in ticks
    Retry,        \* the 5 s a degraded row is kept, in ticks
    Cooldown,     \* binance_ban_cooldown_sec, in ticks
    BanMax,       \* binance_ban_max_sec, in ticks
    BanFor,       \* how long a ban may say it lasts; 0 when its body names no end
    FetchTime,    \* bound: a page's answer takes at most this long
    MaxMono       \* bound: the last tick

ASSUME CandlesAssumption ==
    /\ {ReplayTtl, Retry, Cooldown, BanMax, FetchTime, MaxMono} \subseteq Nat /\ BanFor \subseteq Nat
    /\ Concurrency \in Nat \ {0} /\ Retry <= ReplayTtl /\ Cooldown <= BanMax

VARIABLES
    mono,       \* the monotonic clock
    openUntil,  \* _BanCircuit._open_until
    bans,       \* history: the bans told of that have not ended, and when they were told
    fetch,      \* each computation: where it waits, since when
    stopped,    \* has the market touched the signal's stop?
    closed,     \* does the engine's row call the signal closed?
    cache,      \* the signal's cached replay and its stamp
    served      \* what the last computation returned, and how old the data was

candlesVars == <<mono, openUntil, bans, fetch, stopped, closed, cache, served>>

AtMost(x, y) == IF x < y THEN x ELSE y
AtLeast(x, y) == IF x > y THEN x ELSE y

NoFetch == [at |-> "idle", since |-> 0]
NoResult == [hit |-> FALSE, degraded |-> FALSE, data |-> -1, stamp |-> -1]
Nothing == [from |-> "none", age |-> 0, hit |-> FALSE, degraded |-> FALSE]

CandlesInit ==
    /\ mono = 0 /\ openUntil = 0 /\ bans = {}
    /\ fetch = [f \in Fetch |-> NoFetch]
    /\ stopped = FALSE /\ closed \in BOOLEAN
    /\ cache = NoResult /\ served = Nothing

------------------------------------------------------------------------------
\* _BanCircuit: open while a deadline lies ahead.
CircuitOpen == mono < openUntil

\* How long one ban opens it: what its body says and a guard, within limits.
CooldownOf(ban) == AtLeast(Cooldown, AtMost(BanMax, IF ban = 0 THEN Cooldown ELSE ban + 1))

\* What Binance said: until when, which a 429 or a body that names no end leaves to
\* the breaker.
Announced(ban) == [at |-> mono, ends |-> mono + IF ban = 0 THEN Cooldown ELSE ban]

\* A breaker set to the newest ban's own deadline.
OpensUntilLast(ban) == mono + CooldownOf(ban)

\* note_ban: the deadline only ever moves out.
OpensUntil(ban) == AtLeast(openUntil, mono + CooldownOf(ban))

------------------------------------------------------------------------------
\* Degraded rows stamped like any other.
FallbackAsFresh == [hit |-> closed, degraded |-> TRUE, data |-> mono, stamp |-> mono]

\* FreeRunTracker._fallback: what the engine's row says, when there are no candles.
Fallback == [hit |-> closed, degraded |-> TRUE, data |-> mono, stamp |-> mono - ReplayTtl + Retry]

Serve(result, from) ==
    served' = [from |-> from, age |-> mono - result.data, hit |-> result.hit,
               degraded |-> result.degraded]

\* compute, up to the await: a terminal result is kept for good, any other for
\* its time to live.
CacheAnswers == cache # NoResult /\ (cache.hit \/ mono - cache.stamp < ReplayTtl)

Compute(f) ==
    /\ fetch[f] = NoFetch
    /\ IF CacheAnswers
          THEN Serve(cache, "cache") /\ UNCHANGED fetch
          ELSE fetch' = [fetch EXCEPT ![f] = [at |-> "queued", since |-> mono]] /\ UNCHANGED served
    /\ UNCHANGED <<mono, openUntil, bans, stopped, closed, cache>>

Running == {f \in Fetch : fetch[f].at = "page"}

Finish(f, result) ==
    /\ cache' = result /\ Serve(result, "fetch")
    /\ fetch' = [fetch EXCEPT ![f] = NoFetch]

\* The semaphore is free: fetch_1m begins, or refuses while the circuit is open.
Begin(f) ==
    /\ fetch[f].at = "queued" /\ Cardinality(Running) < Concurrency
    /\ IF CircuitOpen
          THEN Finish(f, Fallback)
          ELSE fetch' = [fetch EXCEPT ![f] = [at |-> "page", since |-> mono]]
               /\ UNCHANGED <<cache, served>>
    /\ UNCHANGED <<mono, openUntil, bans, stopped, closed>>

\* A full page and more to read: the next one is asked for at once, whatever the
\* circuit says by now.
NextPage(f) ==
    /\ fetch[f].at = "page"
    /\ fetch' = [fetch EXCEPT ![f].since = mono]
    /\ UNCHANGED <<mono, openUntil, bans, stopped, closed, cache, served>>

\* The last page: the candles show the stop if it was touched by when this page
\* was answered; the answer may be handled a while later.
Replayed(f) ==
    /\ fetch[f].at = "page"
    /\ \E seen \in {fetch[f].since, mono} : \E hit \in {stopped, stopped /\ seen = mono} :
          Finish(f, [hit |-> hit, degraded |-> FALSE, data |-> seen, stamp |-> mono])
    /\ UNCHANGED <<mono, openUntil, bans, stopped, closed>>

\* A ban, or any other failure: the engine's own values stand in.
Banned(f) ==
    /\ fetch[f].at = "page"
    /\ \E ban \in BanFor :
          /\ openUntil' = OpensUntil(ban)
          /\ bans' = {b \in bans : b.ends > mono} \cup {Announced(ban)}
    /\ Finish(f, Fallback)
    /\ UNCHANGED <<mono, stopped, closed>>

Failed(f) ==
    /\ fetch[f].at = "page"
    /\ Finish(f, Fallback)
    /\ UNCHANGED <<mono, openUntil, bans, stopped, closed>>

TouchStop == ~stopped /\ stopped' = TRUE
             /\ UNCHANGED <<mono, openUntil, bans, fetch, closed, cache, served>>

CandlesTick ==
    /\ mono < MaxMono /\ mono' = mono + 1
    /\ \A f \in Fetch : fetch[f].at = "page" => mono - fetch[f].since < FetchTime
    /\ UNCHANGED <<openUntil, bans, fetch, stopped, closed, cache, served>>

CandlesNext ==
    \/ \E f \in Fetch : Compute(f) \/ Begin(f) \/ NextPage(f) \/ Replayed(f) \/ Banned(f) \/ Failed(f)
    \/ TouchStop \/ CandlesTick

CandlesSpec == CandlesInit /\ [][CandlesNext]_candlesVars

------------------------------------------------------------------------------
\* A fetch begins inside no ban Binance has announced, however many were reported by
\* fetches already on their way, and in what order (binance_klines.py:84-104); one
\* longer than the limit is probed once the limit has passed (config.py:142-144).
NoFetchInsideABan ==
    [][\A f \in Fetch : (fetch[f].at = "queued" /\ fetch'[f].at = "page") =>
          \A b \in bans : mono >= b.ends \/ mono >= b.at + BanMax]_candlesVars

\* What is served from the cache past its time is a replay that saw the market touch
\* the stop, or the engine's word on a signal it calls closed; any other replay is read
\* anew within its time to live, and one made without candles as soon as Binance may
\* answer again (free_run.py:268-280).
StaleIsRefetched ==
    served.from = "cache" =>
        IF served.degraded THEN closed \/ served.age < Retry
        ELSE (served.hit /\ stopped) \/ served.age < ReplayTtl + FetchTime

\* "Don't cache degraded rows long - we want to retry once Binance is reachable again"
\* (free_run.py:274-275).
DegradedIsRetried == served.from = "cache" /\ served.degraded => served.age < Retry

CachedResult == [hit : BOOLEAN, degraded : BOOLEAN, data : Int, stamp : Int]
CandlesTypeOK ==
    /\ mono \in Nat /\ openUntil \in Nat /\ bans \subseteq [at : Nat, ends : Nat]
    /\ fetch \in [Fetch -> [at : {"idle", "queued", "page"}, since : Nat]]
    /\ stopped \in BOOLEAN /\ closed \in BOOLEAN /\ cache \in CachedResult
    /\ served \in [from : {"none", "cache", "fetch"}, age : Int, hit : BOOLEAN, degraded : BOOLEAN]
=============================================================================
