---------------------------- MODULE MeasureProofs ----------------------------
(***************************************************************************)
(* Proofs about the measuring side, for any bounds and any samples.        *)
(* Candles: no fetch begins inside an announced ban the breaker still      *)
(* holds to, and what the cache serves past its time saw the stop touched  *)
(* or is the engine's own word.                                            *)
(* LoopHealth: a loop that stopped is named, and one that advances is not. *)
(* Probing: each verdict was true at some moment of the load that drew it. *)
(* TrackRecord: the days of a report are whole, and the peak of the money  *)
(* out is the peak of a count.  DarkLedger, Profit and Structural: every   *)
(* row is in one part of each panel and on one page.                       *)
(***************************************************************************)
EXTENDS Measures, FiniteSetTheorems, SequenceTheorems, WellFoundedInduction, TLAPS

\* The breaker stays open at least as long as a ban says (note_ban).
LEMMA CooldownCovers ==
    ASSUME NEW ban \in BanFor
    PROVE  /\ CooldownOf(ban) \in Nat
           /\ CooldownOf(ban) >= AtMost(BanMax, IF ban = 0 THEN Cooldown ELSE ban)
BY CandlesAssumption DEF CooldownOf, AtLeast, AtMost

\* What a fallback, or a finished replay, is.
LEMMA FallbackTypes == ASSUME CandlesTypeOK PROVE Fallback \in CachedResult
BY CandlesAssumption DEF CandlesTypeOK, Fallback, CachedResult

LEMMA FinishTypes ==
    ASSUME CandlesTypeOK, NEW f \in Fetch, NEW result \in CachedResult, Finish(f, result)
    PROVE  /\ cache' \in CachedResult
           /\ fetch' \in [Fetch -> [at : {"idle", "queued", "page"}, since : Nat]]
           /\ served' \in [from : {"none", "cache", "fetch"}, age : Int, hit : BOOLEAN,
                           degraded : BOOLEAN]
BY DEF CandlesTypeOK, Finish, Serve, CachedResult, NoFetch

\* A page that was just answered, as a result.
LEMMA ReplayTypes ==
    ASSUME CandlesTypeOK, NEW f \in Fetch, Replayed(f)
    PROVE  \E read \in {fetch[f].since, mono}, hit \in {stopped, FALSE} :
              /\ [hit |-> hit, degraded |-> FALSE, data |-> read, stamp |-> mono] \in CachedResult
              /\ Finish(f, [hit |-> hit, degraded |-> FALSE, data |-> read, stamp |-> mono])
<1>1. PICK read \in {fetch[f].since, mono} : \E hit \in {stopped, stopped /\ read = mono} :
          Finish(f, [hit |-> hit, degraded |-> FALSE, data |-> read, stamp |-> mono])
  BY DEF Replayed
<1>2. {stopped, stopped /\ read = mono} \subseteq {stopped, FALSE}
  <2>1. CASE read = mono
    BY <2>1 DEF CandlesTypeOK
  <2>2. CASE read # mono
    BY <2>2
  <2> QED BY <2>1, <2>2
<1>3. PICK hit \in {stopped, FALSE} :
          Finish(f, [hit |-> hit, degraded |-> FALSE, data |-> read, stamp |-> mono])
  BY <1>1, <1>2
<1>4. read \in Int /\ mono \in Int
  BY DEF CandlesTypeOK
<1>5. hit \in BOOLEAN
  <2>1. stopped \in BOOLEAN
    BY DEF CandlesTypeOK
  <2> QED BY <2>1
<1> QED BY <1>3, <1>4, <1>5 DEF CachedResult

LEMMA CandlesInitTypes == CandlesInit => CandlesTypeOK
<1> SUFFICES ASSUME CandlesInit PROVE CandlesTypeOK
  OBVIOUS
<1>1. NoFetch \in [at : {"idle", "queued", "page"}, since : Nat]
  BY DEF NoFetch
<1>2. fetch \in [Fetch -> [at : {"idle", "queued", "page"}, since : Nat]]
  BY <1>1 DEF CandlesInit
<1>3. NoResult \in CachedResult
  <2>1. -1 \in Int
    OBVIOUS
  <2> QED BY <2>1 DEF NoResult, CachedResult
<1>4. Nothing \in [from : {"none", "cache", "fetch"}, age : Int, hit : BOOLEAN, degraded : BOOLEAN]
  BY DEF Nothing
<1> QED BY <1>2, <1>3, <1>4 DEF CandlesInit, CandlesTypeOK

LEMMA CandlesTypesKept == CandlesTypeOK /\ [CandlesNext]_candlesVars => CandlesTypeOK'
<1> SUFFICES ASSUME CandlesTypeOK, [CandlesNext]_candlesVars PROVE CandlesTypeOK'
  OBVIOUS
<1>1. ASSUME NEW f \in Fetch, Compute(f) PROVE CandlesTypeOK'
  BY <1>1 DEF Compute, Serve, CandlesTypeOK, CachedResult
<1>2. ASSUME NEW f \in Fetch, Begin(f) PROVE CandlesTypeOK'
  <2>1. CASE CircuitOpen
    BY <1>2, <2>1, FallbackTypes, FinishTypes DEF Begin, CandlesTypeOK
  <2>2. CASE ~CircuitOpen
    BY <1>2, <2>2 DEF Begin, CandlesTypeOK
  <2> QED BY <2>1, <2>2
<1>3. ASSUME NEW f \in Fetch, NextPage(f) PROVE CandlesTypeOK'
  BY <1>3 DEF NextPage, CandlesTypeOK
<1>4. ASSUME NEW f \in Fetch, Replayed(f) PROVE CandlesTypeOK'
  BY <1>4, ReplayTypes, FinishTypes DEF Replayed, CandlesTypeOK
<1>5. ASSUME NEW f \in Fetch, Banned(f) PROVE CandlesTypeOK'
  <2>1. PICK ban \in BanFor :
           /\ openUntil' = OpensUntil(ban)
           /\ bans' = {b \in bans : b.ends > mono} \cup {Announced(ban)}
    BY <1>5 DEF Banned
  <2>2. openUntil' \in Nat
    BY <2>1, CooldownCovers, CandlesAssumption DEF CandlesTypeOK, OpensUntil, AtLeast, AtMost
  <2>3. Announced(ban) \in [at : Nat, ends : Nat]
    BY CandlesAssumption DEF CandlesTypeOK, Announced
  <2>4. bans' \subseteq [at : Nat, ends : Nat]
    BY <2>1, <2>3 DEF CandlesTypeOK
  <2> QED BY <1>5, <2>2, <2>4, FallbackTypes, FinishTypes DEF Banned, CandlesTypeOK
<1>6. ASSUME NEW f \in Fetch, Failed(f) PROVE CandlesTypeOK'
  BY <1>6, FallbackTypes, FinishTypes DEF Failed, CandlesTypeOK
<1>7. CASE TouchStop
  BY <1>7 DEF TouchStop, CandlesTypeOK
<1>8. CASE CandlesTick
  BY <1>8 DEF CandlesTick, CandlesTypeOK
<1>9. CASE UNCHANGED candlesVars
  BY <1>9 DEF candlesVars, CandlesTypeOK
<1> QED BY <1>1, <1>2, <1>3, <1>4, <1>5, <1>6, <1>7, <1>8, <1>9 DEF CandlesNext

\* The types hold in every behaviour.
THEOREM CandlesTypeCorrect == CandlesSpec => []CandlesTypeOK
BY CandlesInitTypes, CandlesTypesKept, PTL DEF CandlesSpec

------------------------------------------------------------------------------
\* The breaker outlasts every ban announced so far, or its own limit on one.
Shut == \A b \in bans : AtMost(b.ends, b.at + BanMax) <= openUntil

LEMMA ShutKept ==
    ASSUME CandlesTypeOK, Shut, [CandlesNext]_candlesVars
    PROVE  Shut'
<1>1. ASSUME NEW f \in Fetch, Banned(f) PROVE Shut'
  <2>1. PICK ban \in BanFor :
           /\ openUntil' = OpensUntil(ban)
           /\ bans' = {b \in bans : b.ends > mono} \cup {Announced(ban)}
    BY <1>1 DEF Banned
  <2>2. ban \in Nat /\ mono \in Nat /\ openUntil \in Nat
    BY CandlesAssumption DEF CandlesTypeOK
  <2>3. openUntil' \in Nat /\ openUntil' >= openUntil /\ openUntil' >= mono + CooldownOf(ban)
    BY <2>1, <2>2, CooldownCovers DEF OpensUntil, AtLeast
  <2>4. /\ Announced(ban).at = mono
        /\ Announced(ban).ends = mono + IF ban = 0 THEN Cooldown ELSE ban
    BY DEF Announced
  <2>5. AtMost(Announced(ban).ends, Announced(ban).at + BanMax) <= openUntil'
    BY <2>2, <2>3, <2>4, CooldownCovers, CandlesAssumption DEF AtMost
  <2>6. ASSUME NEW b \in bans PROVE AtMost(b.ends, b.at + BanMax) <= openUntil'
    <3>1. b.at \in Nat /\ b.ends \in Nat
      BY DEF CandlesTypeOK
    <3> QED BY <2>2, <2>3, <3>1, CandlesAssumption DEF Shut, AtMost
  <2> QED BY <2>1, <2>5, <2>6 DEF Shut
<1>2. CASE UNCHANGED <<openUntil, bans>>
  BY <1>2 DEF Shut
<1> QED
  BY <1>1, <1>2 DEF CandlesNext, Compute, Begin, NextPage, Replayed, Failed, TouchStop,
                    CandlesTick, candlesVars

\* A fetch begins only where the breaker lets it through.
LEMMA BeginsOutside ==
    ASSUME CandlesTypeOK, Shut, [CandlesNext]_candlesVars, NEW f \in Fetch,
           fetch[f].at = "queued", fetch'[f].at = "page", NEW b \in bans
    PROVE  mono >= b.ends \/ mono >= b.at + BanMax
<1>1. Begin(f) /\ ~CircuitOpen
  <2>1. ASSUME NEW g \in Fetch, Compute(g) \/ NextPage(g) \/ Replayed(g) \/ Banned(g) \/ Failed(g)
        PROVE  FALSE
    BY <2>1 DEF Compute, NextPage, Replayed, Banned, Failed, Finish, NoFetch, CandlesTypeOK
  <2>2. ASSUME NEW g \in Fetch, Begin(g)
        PROVE  g = f /\ ~CircuitOpen
    BY <2>2 DEF Begin, Finish, NoFetch, CandlesTypeOK
  <2>3. fetch' # fetch
    OBVIOUS
  <2> QED BY <2>1, <2>2, <2>3 DEF CandlesNext, TouchStop, CandlesTick, candlesVars
<1>2. b.at \in Nat /\ b.ends \in Nat /\ mono \in Nat /\ openUntil \in Nat
  BY DEF CandlesTypeOK
<1>3. AtMost(b.ends, b.at + BanMax) <= mono
  BY <1>1, <1>2, CandlesAssumption DEF CircuitOpen, Shut, AtMost
<1> QED BY <1>2, <1>3, CandlesAssumption DEF AtMost

\* For any bans, of any length, told of in whatever order: a fetch begins inside none
\* of them, unless it was told of longer ago than the breaker's own limit.
THEOREM BansAreKept == CandlesSpec => NoFetchInsideABan
<1>1. CandlesInit => CandlesTypeOK /\ Shut
  BY CandlesInitTypes DEF CandlesInit, Shut
<1>2. CandlesTypeOK /\ Shut /\ [CandlesNext]_candlesVars
        => [\A f \in Fetch : (fetch[f].at = "queued" /\ fetch'[f].at = "page") =>
              \A b \in bans : mono >= b.ends \/ mono >= b.at + BanMax]_candlesVars
  BY BeginsOutside
<1>3. CandlesTypeOK /\ Shut /\ [CandlesNext]_candlesVars => Shut'
  BY ShutKept
<1> QED BY <1>1, <1>2, <1>3, CandlesTypesKept, PTL DEF CandlesSpec, NoFetchInsideABan

------------------------------------------------------------------------------
\* Why nothing old is served: a page is answered in time, and a cached result is no
\* older than its stamp says.
Dated ==
    /\ \A f \in Fetch : fetch[f].at = "page" => fetch[f].since <= mono
                                                /\ mono - fetch[f].since <= FetchTime
    /\ cache # NoResult =>
          IF cache.degraded
             THEN cache.stamp = cache.data - ReplayTtl + Retry /\ cache.hit = closed
             ELSE cache.stamp - cache.data <= FetchTime /\ (cache.hit => stopped)

LEMMA FinishKeepsDated ==
    ASSUME CandlesTypeOK, Dated, NEW f \in Fetch, NEW result \in CachedResult, Finish(f, result),
           UNCHANGED <<mono, stopped, closed>>,
           IF result.degraded
              THEN result.stamp = result.data - ReplayTtl + Retry /\ result.hit = closed
              ELSE result.stamp - result.data <= FetchTime /\ (result.hit => stopped)
    PROVE  Dated' /\ StaleIsRefetched'
<1>1. \A g \in Fetch : fetch'[g].at = "page" => fetch'[g] = fetch[g]
  BY DEF Finish, CandlesTypeOK, NoFetch
<1>2. cache' = result
  BY DEF Finish
<1>3. served'.from = "fetch"
  BY DEF Finish, Serve
<1>4. \A g \in Fetch : fetch'[g].at = "page" => fetch[g].at = "page"
  BY <1>1
<1>5. Dated'
  BY <1>1, <1>2, <1>4 DEF Dated
<1> QED BY <1>3, <1>5 DEF StaleIsRefetched

LEMMA FallbackKeepsDated ==
    ASSUME CandlesTypeOK, Dated, NEW f \in Fetch, Finish(f, Fallback),
           UNCHANGED <<mono, stopped, closed>>
    PROVE  Dated' /\ StaleIsRefetched'
<1>1. /\ Fallback.degraded /\ Fallback.stamp = Fallback.data - ReplayTtl + Retry
      /\ Fallback.hit = closed
  BY DEF Fallback
<1> QED BY <1>1, FallbackTypes, FinishKeepsDated

LEMMA DatedKept ==
    ASSUME CandlesTypeOK, Dated, StaleIsRefetched, [CandlesNext]_candlesVars
    PROVE  Dated' /\ StaleIsRefetched'
<1> USE CandlesAssumption
<1>1. ASSUME NEW f \in Fetch, Compute(f) PROVE Dated' /\ StaleIsRefetched'
  <2>1. CASE CacheAnswers
    <3>1. Dated'
      BY <1>1, <2>1 DEF Compute, Dated
    <3>2. served' = [from |-> "cache", age |-> mono - cache.data, hit |-> cache.hit,
                     degraded |-> cache.degraded]
      BY <1>1, <2>1 DEF Compute, Serve
    <3>3. IF cache.degraded THEN closed \/ mono - cache.data < Retry
          ELSE (cache.hit /\ stopped) \/ mono - cache.data < ReplayTtl + FetchTime
      BY <2>1 DEF CacheAnswers, Dated, CandlesTypeOK, CachedResult
    <3>4. UNCHANGED <<stopped, closed>>
      BY <1>1 DEF Compute
    <3> QED BY <3>1, <3>2, <3>3, <3>4 DEF StaleIsRefetched
  <2>2. CASE ~CacheAnswers
    <3>1. \A g \in Fetch : fetch'[g].at = "page" => fetch'[g] = fetch[g]
      BY <1>1, <2>2 DEF Compute, CandlesTypeOK
    <3>2. UNCHANGED <<mono, cache, served, stopped, closed>>
      BY <1>1, <2>2 DEF Compute
    <3>3. Dated'
      BY <3>1, <3>2 DEF Dated
    <3> QED BY <3>2, <3>3 DEF StaleIsRefetched
  <2> QED BY <2>1, <2>2
<1>2. ASSUME NEW f \in Fetch, Begin(f) PROVE Dated' /\ StaleIsRefetched'
  <2>1. CASE CircuitOpen
    BY <1>2, <2>1, FallbackKeepsDated DEF Begin
  <2>2. CASE ~CircuitOpen
    <3>1. \A g \in Fetch : IF g = f THEN fetch'[g] = [at |-> "page", since |-> mono]
                           ELSE fetch'[g] = fetch[g]
      BY <1>2, <2>2 DEF Begin, CandlesTypeOK
    <3>2. UNCHANGED <<mono, cache, served, stopped, closed>>
      BY <1>2, <2>2 DEF Begin
    <3>3. Dated'
      BY <3>1, <3>2 DEF Dated, CandlesTypeOK
    <3> QED BY <3>2, <3>3 DEF StaleIsRefetched
  <2> QED BY <2>1, <2>2
<1>3. ASSUME NEW f \in Fetch, NextPage(f) PROVE Dated' /\ StaleIsRefetched'
  <2>1. \A g \in Fetch : IF g = f THEN fetch'[g].since = mono ELSE fetch'[g] = fetch[g]
    BY <1>3 DEF NextPage, CandlesTypeOK
  <2>2. UNCHANGED <<mono, cache, served, stopped, closed>>
    BY <1>3 DEF NextPage
  <2>3. Dated'
    BY <2>1, <2>2 DEF Dated, CandlesTypeOK
  <2> QED BY <2>2, <2>3 DEF StaleIsRefetched
<1>4. ASSUME NEW f \in Fetch, Replayed(f) PROVE Dated' /\ StaleIsRefetched'
  <2>1. PICK read \in {fetch[f].since, mono}, hit \in {stopped, FALSE} :
           /\ [hit |-> hit, degraded |-> FALSE, data |-> read, stamp |-> mono] \in CachedResult
           /\ Finish(f, [hit |-> hit, degraded |-> FALSE, data |-> read, stamp |-> mono])
    BY <1>4, ReplayTypes
  <2>2. mono - read <= FetchTime
    BY <1>4 DEF Replayed, Dated, CandlesTypeOK
  <2>3. UNCHANGED <<mono, stopped, closed>>
    BY <1>4 DEF Replayed
  <2>4. hit => stopped
    BY DEF CandlesTypeOK
  <2> DEFINE result == [hit |-> hit, degraded |-> FALSE, data |-> read, stamp |-> mono]
  <2>5. ~result.degraded /\ result.stamp - result.data <= FetchTime /\ (result.hit => stopped)
    BY <2>2, <2>4
  <2>6. result \in CachedResult /\ Finish(f, result)
    BY <2>1
  <2> HIDE DEF result
  <2> QED BY <2>3, <2>5, <2>6, FinishKeepsDated
<1>5. ASSUME NEW f \in Fetch, Banned(f) \/ Failed(f) PROVE Dated' /\ StaleIsRefetched'
  BY <1>5, FallbackKeepsDated DEF Banned, Failed
<1>6. CASE TouchStop \/ UNCHANGED candlesVars
  BY <1>6 DEF TouchStop, candlesVars, Dated, StaleIsRefetched
<1>7. CASE CandlesTick
  BY <1>7 DEF CandlesTick, Dated, StaleIsRefetched, CandlesTypeOK
<1> QED BY <1>1, <1>2, <1>3, <1>4, <1>5, <1>6, <1>7 DEF CandlesNext

\* What the cache serves past its time is a replay that saw the stop touched, or the
\* engine's word on a signal it calls closed; that word may still differ from what the
\* candles would say, and it is never asked for again.
THEOREM StaleIsNotServed == CandlesSpec => []StaleIsRefetched
<1>1. CandlesInit => Dated /\ StaleIsRefetched /\ CandlesTypeOK
  BY CandlesInitTypes DEF CandlesInit, Dated, StaleIsRefetched, NoFetch, Nothing
<1>2. CandlesTypeOK /\ Dated /\ StaleIsRefetched /\ [CandlesNext]_candlesVars
        => Dated' /\ StaleIsRefetched'
  BY DatedKept
<1> QED BY <1>1, <1>2, CandlesTypesKept, PTL DEF CandlesSpec

------------------------------------------------------------------------------
\* The heartbeat a build publishes against the last unit that finished: the same
\* moment where the loop beats as it works, an older one elsewhere; there is one as
\* soon as a cycle has completed.
LoopInv ==
    /\ build \in Builds
    /\ flight \in Nat \cup {NotSent} /\ beat \in Nat \cup {NotSent} /\ idle \in Nat
    /\ tally.cycles \in Nat
    /\ tally.cycles > 0 => beat # NotSent
    /\ beat # NotSent => beat >= idle /\ (build.beats => beat = idle)

LEMMA LoopInvKept == ASSUME LoopInv, [LoopNext]_loopVars PROVE LoopInv'
<1> USE LoopAssumption DEF LoopInv, NotSent
<1>1. CASE StartCycle
  BY <1>1 DEF StartCycle
<1>2. CASE FinishUnit
  BY <1>2 DEF FinishUnit
<1>3. CASE FinishCycle
  <2>1. tally'.cycles = tally.cycles + 1
    BY <1>3 DEF FinishCycle
  <2>2. flight' = NotSent /\ beat' = 0 /\ idle' = 0 /\ build' = build
    BY <1>3 DEF FinishCycle
  <2> QED BY <2>1, <2>2
<1>4. CASE LoopTick
  BY <1>4 DEF LoopTick, Older
<1>5. CASE Restart
  BY <1>5 DEF Restart, NoTally
<1>6. CASE UNCHANGED loopVars
  BY <1>6 DEF loopVars
<1> QED BY <1>1, <1>2, <1>3, <1>4, <1>5, <1>6 DEF LoopNext

LEMMA LoopInvHolds == LoopSpec => []LoopInv
<1>1. LoopInit => LoopInv
  BY LoopAssumption DEF LoopInit, LoopInv, NoTally, NotSent
<1> QED BY <1>1, LoopInvKept, PTL DEF LoopSpec

\* What the card says of a build that reports, once a cycle has completed.
LEMMA CardState ==
    ASSUME LoopInv, Reported, tally.cycles > 0
    PROVE  /\ LoopCard.state = LoopState(Scan) /\ Scan.cycles = tally.cycles
           /\ Scan.kill = Kill /\ Scan.in_flight = flight /\ Scan.beat_age = beat
           /\ build.beats => Scan.beats
BY DEF LoopInv, Reported, LoopCard, Scan

\* The order in which the verdicts are tried, before the counters.
LEMMA VerdictOrder ==
    ASSUME NEW scan, scan.cycles # 0
    PROVE  /\ Hanging(scan) => LoopState(scan) = "hanging"
           /\ ~Hanging(scan) => LoopState(scan) # "hanging"
           /\ ~Hanging(scan) /\ Slow(scan) => LoopState(scan) = "slow"
<1>1. CASE Hanging(scan)
  BY <1>1 DEF LoopState
<1>2. CASE ~Hanging(scan)
  BY <1>2 DEF LoopState
<1> QED BY <1>1, <1>2

\* A loop that stopped reads as hanging on any build that reports, once a first cycle
\* has completed and whatever the counters say; one that still finishes units does
\* not, on a build that beats on progress.
THEOREM WorkDecides == LoopSpec => []VerdictFollowsWork
<1>1. LoopInv => VerdictFollowsWork
  <2> SUFFICES ASSUME LoopInv, Reported, tally.cycles > 0
               PROVE  /\ idle > Kill => LoopCard.state = "hanging"
                      /\ (build.beats /\ idle <= Kill) =>
                            /\ LoopCard.state # "hanging"
                            /\ flight > Kill => LoopCard.state = "slow"
    BY DEF VerdictFollowsWork
  <2>1. Scan.cycles # 0
    BY CardState DEF LoopInv
  <2>2. LoopCard.state = LoopState(Scan)
    BY CardState
  <2>3. ASSUME idle > Kill PROVE Hanging(Scan)
    <3>1. beat \in JudgedAges(Scan) /\ beat > Kill
      BY <2>3, CardState, LoopAssumption DEF LoopInv, JudgedAges, NotSent
    <3> QED BY <3>1, CardState, LoopAssumption DEF Hanging, NotSent
  <2>4. ASSUME build.beats, idle <= Kill PROVE ~Hanging(Scan)
    <3>1. beat = idle
      BY <2>4 DEF LoopInv
    <3> QED BY <2>4, <3>1, CardState, LoopAssumption DEF Hanging, JudgedAges, LoopInv
  <2>5. ASSUME build.beats, flight > Kill PROVE Slow(Scan)
    BY <2>5, CardState, LoopAssumption DEF Slow, NotSent
  <2> QED BY <2>1, <2>2, <2>3, <2>4, <2>5, VerdictOrder
<1> QED BY <1>1, LoopInvHolds, PTL

------------------------------------------------------------------------------
\* The box's report, whichever probe brings it, is one of the boxes there may be or
\* nothing.
Report == Boxes \cup {<<>>}

ProbingTypes ==
    /\ box \in Report /\ daemon \in BOOLEAN /\ serving \in {"yes", "loading", "hung"}
    /\ keys \in SUBSET Needed /\ api \in BOOLEAN
    /\ asked \in SUBSET Probes
    /\ told \in [inspect : Report, ps : Report,
                 ping : {"", "PONG", "LOADING", "exec_error", "timeout"},
                 census : {"", "exec_error", "timeout", "no_output"},
                 keys : SUBSET Needed, api : BOOLEAN]
    /\ seen \in [down : SUBSET Judged, up : SUBSET Judged, docker : SUBSET BOOLEAN]

\* What the load has watched includes the box as it is.
Watched == Down \subseteq seen.down /\ Judged \ Down \subseteq seen.up

\* Each answer is the box of some moment of the load.
Listing(report) ==
    DOMAIN report # {} =>
        /\ TRUE \in seen.docker
        /\ IF EngineBox \in DOMAIN report /\ report[EngineBox].status = "running"
              THEN "engine_container" \in seen.up ELSE "engine_container" \in seen.down
        /\ EngineBox \in DOMAIN report =>
              IF report[EngineBox].health = "unhealthy"
                 THEN "engine_healthcheck" \in seen.down ELSE "engine_healthcheck" \in seen.up

Pinged(ping) ==
    CASE ping = "PONG" -> /\ "redis_container" \in seen.up
                          /\ Needed = {} => "snapshot_keys" \in seen.up
      [] ping = "timeout" -> "redis_container" \in seen.down
      [] ping = "exec_error" -> "redis_container" \in seen.down \/ FALSE \in seen.docker
      [] OTHER -> TRUE

Counted(census, held) ==
    CASE census = "" -> "snapshot_keys" \in IF held = Needed THEN seen.up ELSE seen.down
      [] census = "no_output" -> Needed # {} => "snapshot_keys" \in seen.down
      [] OTHER -> TRUE

Witnessed ==
    /\ "inspect" \in asked => Listing(told.inspect)
    /\ "ps" \in asked => Listing(told.ps)
    /\ "ping" \in asked => Pinged(told.ping)
    /\ "census" \in asked => Counted(told.census, told.keys)
    /\ "api" \in asked => "api_reachable" \in IF told.api THEN seen.up ELSE seen.down

WitnessInv == ProbingTypes /\ Watched /\ Witnessed /\ BrokenWasDown

\* A container as docker reports it.
LEMMA BoxOf ==
    ASSUME NEW report \in Report, NEW c \in DOMAIN report
    PROVE  report[c] \in BoxStates
BY DEF Report, Boxes

\* What was down, or up, stays in the history.
LEMMA MoreIsSeen ==
    ASSUME ProbingTypes, ProbingTypes', seen.down \subseteq seen'.down, seen.up \subseteq seen'.up,
           seen.docker \subseteq seen'.docker
    PROVE  /\ \A report : Listing(report) => Listing(report)'
           /\ \A ping : Pinged(ping) => Pinged(ping)'
           /\ \A census, held : Counted(census, held) => Counted(census, held)'
BY DEF Listing, Pinged, Counted

LEMMA ProbingStarts == ASSUME ProbingInit PROVE WitnessInv
<1>1. Down \subseteq Judged
  BY DEF Down, Judged
<1>2. ProbingTypes
  BY <1>1 DEF ProbingInit, ProbingTypes, NothingTold, Report
<1>3. Watched /\ Witnessed /\ BrokenWasDown
  BY <1>1 DEF ProbingInit, Watched, Witnessed, BrokenWasDown, NoChain
<1> QED BY <1>2, <1>3 DEF WitnessInv

\* A probe leaves the box alone and adds to what was seen; the other answers stand.
LEMMA AskTypes ==
    ASSUME ProbingTypes, AskOne
    PROVE  /\ ProbingTypes'
           /\ seen'.down = seen.down /\ seen'.up = seen.up /\ seen.docker \subseteq seen'.docker
<1>1. UNCHANGED <<box, daemon, serving, keys, api, chain, moves>>
  BY DEF AskOne
<1>2. /\ seen' \in [down : SUBSET Judged, up : SUBSET Judged, docker : SUBSET BOOLEAN]
      /\ seen'.down = seen.down /\ seen'.up = seen.up /\ seen.docker \subseteq seen'.docker
  <2>1. Carried \/ UNCHANGED seen
    BY DEF AskOne, AskInspect, AskPs, AskPing, AskCensus, AskApi
  <2>2. CASE Carried
    BY <2>2 DEF Carried, ProbingTypes
  <2>3. CASE UNCHANGED seen
    BY <2>3 DEF ProbingTypes
  <2> QED BY <2>1, <2>2, <2>3
<1>3. asked' \in SUBSET Probes
  BY DEF AskOne, AskInspect, AskPs, AskPing, AskCensus, AskApi, Returned, ProbingTypes, Probes
<1>4. told' \in [inspect : Report, ps : Report,
                 ping : {"", "PONG", "LOADING", "exec_error", "timeout"},
                 census : {"", "exec_error", "timeout", "no_output"},
                 keys : SUBSET Needed, api : BOOLEAN]
  <2>1. Inspected(daemon, box) \in Report
    BY DEF ProbingTypes, Inspected, Report
  <2>2. CASE AskInspect
    BY <2>1, <2>2 DEF AskInspect, Returned, ProbingTypes
  <2>3. CASE AskPs
    BY <2>1, <2>3 DEF AskPs, Returned, ProbingTypes
  <2>4. CASE AskPing
    BY <2>4 DEF AskPing, Returned, ProbingTypes
  <2>5. CASE AskCensus
    BY <2>5 DEF AskCensus, Returned, ProbingTypes
  <2>6. CASE AskApi
    BY <2>6 DEF AskApi, Returned, ProbingTypes
  <2> QED BY <2>2, <2>3, <2>4, <2>5, <2>6 DEF AskOne
<1> QED BY <1>1, <1>2, <1>3, <1>4 DEF ProbingTypes

\* What an answer says of the box of its moment.
LEMMA ListingNow ==
    ASSUME ProbingTypes, Watched, Carried, NEW report, report = Inspected(daemon, box)
    PROVE  Listing(report)'
<1>1. seen'.down = seen.down /\ seen'.up = seen.up /\ seen'.docker = seen.docker \cup {daemon}
  BY DEF Carried, ProbingTypes
<1>2. SUFFICES ASSUME DOMAIN report # {} PROVE Listing(report)'
  BY DEF Listing
<1>3. daemon = TRUE /\ report = box
  <2>1. DOMAIN <<>> = {}
    OBVIOUS
  <2>2. CASE daemon = TRUE
    BY <2>2 DEF Inspected
  <2>3. CASE daemon = FALSE
    BY <1>2, <2>1, <2>3 DEF Inspected
  <2> QED BY <2>2, <2>3 DEF ProbingTypes
<1>4. IF EngineBox \in DOMAIN box /\ box[EngineBox].status = "running"
         THEN "engine_container" \in seen.up ELSE "engine_container" \in seen.down
  BY DEF Watched, Down, Judged, IsUp
<1>5. EngineBox \in DOMAIN box =>
         IF box[EngineBox].health = "unhealthy"
            THEN "engine_healthcheck" \in seen.down ELSE "engine_healthcheck" \in seen.up
  BY DEF Watched, Down, Judged, IsUp
<1> QED BY <1>1, <1>3, <1>4, <1>5 DEF Listing

LEMMA PingNow == ASSUME ProbingTypes, Watched, AskPing PROVE Pinged(told.ping)'
<1>1. seen'.down = seen.down /\ seen'.up = seen.up /\ seen'.docker = seen.docker \cup {daemon}
  BY DEF AskPing, Carried, ProbingTypes
<1>2. told'.ping = IF ~Exec THEN "exec_error"
                   ELSE CASE serving = "yes" -> "PONG" [] serving = "loading" -> "LOADING"
                          [] OTHER -> "timeout"
  BY DEF AskPing, Returned, ProbingTypes
<1>3. "redis_container" \in IF RedisAnswers THEN seen.up ELSE seen.down
  BY DEF Watched, Down, Judged
<1>4. RedisAnswers /\ Needed = {} => "snapshot_keys" \in seen.up
  BY DEF Watched, Down, Judged, ProbingTypes
<1>5. CASE ~Exec
  <2>1. ~RedisAnswers \/ daemon = FALSE
    BY <1>5 DEF Exec, RedisAnswers, ProbingTypes
  <2> QED BY <1>1, <1>2, <1>3, <1>5, <2>1 DEF Pinged
<1>6. CASE Exec /\ serving = "yes"
  <2>1. RedisAnswers
    BY <1>6 DEF Exec, RedisAnswers
  <2> QED BY <1>1, <1>2, <1>3, <1>4, <1>6, <2>1 DEF Pinged
<1>7. CASE Exec /\ serving = "loading"
  BY <1>2, <1>7 DEF Pinged
<1>8. CASE Exec /\ serving = "hung"
  <2>1. ~RedisAnswers
    BY <1>8 DEF RedisAnswers
  <2> QED BY <1>1, <1>2, <1>3, <1>8, <2>1 DEF Pinged
<1> QED BY <1>5, <1>6, <1>7, <1>8 DEF ProbingTypes

LEMMA CensusNow ==
    ASSUME ProbingTypes, Watched, AskCensus PROVE Counted(told.census, told.keys)'
<1>1. seen'.down = seen.down /\ seen'.up = seen.up
  BY DEF AskCensus, Carried, ProbingTypes
<1>2. told'.census = IF ~Exec THEN "exec_error" ELSE IF serving = "hung" THEN "timeout"
                     ELSE IF serving = "yes" /\ keys # {} THEN "" ELSE "no_output"
  BY DEF AskCensus, Returned, ProbingTypes
<1>3. told'.keys = IF Exec /\ serving = "yes" THEN keys ELSE {}
  BY DEF AskCensus, Returned, ProbingTypes
<1>4. "snapshot_keys" \in IF RedisAnswers /\ keys = Needed THEN seen.up ELSE seen.down
  BY DEF Watched, Down, Judged
<1>5. CASE ~Exec \/ serving = "hung"
  BY <1>2, <1>5 DEF Counted
<1>6. CASE Exec /\ serving = "loading"
  <2>1. ~RedisAnswers
    BY <1>6 DEF RedisAnswers
  <2> QED BY <1>1, <1>2, <1>4, <1>6, <2>1 DEF Counted
<1>7. CASE Exec /\ serving = "yes"
  <2>1. RedisAnswers
    BY <1>7 DEF Exec, RedisAnswers
  <2>2. CASE keys = {}
    BY <1>1, <1>2, <1>4, <1>7, <2>1, <2>2 DEF Counted
  <2>3. CASE keys # {}
    BY <1>1, <1>2, <1>3, <1>4, <1>7, <2>1, <2>3 DEF Counted
  <2> QED BY <2>2, <2>3
<1> QED BY <1>5, <1>6, <1>7 DEF ProbingTypes

\* Every probe returns the box of its moment, and the earlier answers stand.
LEMMA AskKeeps == ASSUME WitnessInv, AskOne PROVE WitnessInv'
<1>0. /\ ProbingTypes /\ Watched /\ Witnessed /\ BrokenWasDown
      /\ UNCHANGED <<box, daemon, serving, keys, api, chain, moves>>
  BY DEF WitnessInv, AskOne
<1>1. /\ ProbingTypes'
      /\ seen'.down = seen.down /\ seen'.up = seen.up /\ seen.docker \subseteq seen'.docker
  BY <1>0, AskTypes
<1>2. Watched'
  BY <1>0, <1>1 DEF Watched, Down, IsUp, RedisAnswers
<1>3. chain = NoChain
  BY DEF AskOne, AskInspect, AskPs, AskPing, AskCensus, AskApi, Loading
<1>4. BrokenWasDown'
  BY <1>0, <1>3 DEF BrokenWasDown
<1>5. /\ \A report : Listing(report) => Listing(report)'
      /\ \A ping : Pinged(ping) => Pinged(ping)'
      /\ \A census, held : Counted(census, held) => Counted(census, held)'
  BY <1>0, <1>1, MoreIsSeen
<1>6. Witnessed'
  <2>1. CASE AskInspect
    <3>1. /\ asked' = asked \cup {"inspect"} /\ told'.inspect = Inspected(daemon, box)
          /\ told'.ps = told.ps /\ told'.ping = told.ping /\ told'.census = told.census
          /\ told'.keys = told.keys /\ told'.api = told.api
      BY <1>0, <2>1 DEF AskInspect, Returned, ProbingTypes
    <3>2. Listing(Inspected(daemon, box))'
      BY <1>0, <2>1, ListingNow DEF AskInspect
    <3> QED BY <1>0, <1>1, <1>5, <3>1, <3>2 DEF Witnessed
  <2>2. CASE AskPs
    <3>1. /\ asked' = asked \cup {"ps"} /\ told'.ps = Inspected(daemon, box)
          /\ told'.inspect = told.inspect /\ told'.ping = told.ping
          /\ told'.census = told.census /\ told'.keys = told.keys /\ told'.api = told.api
      BY <1>0, <2>2 DEF AskPs, Returned, ProbingTypes
    <3>2. Listing(Inspected(daemon, box))'
      BY <1>0, <2>2, ListingNow DEF AskPs
    <3> QED BY <1>0, <1>1, <1>5, <3>1, <3>2 DEF Witnessed
  <2>3. CASE AskPing
    <3>1. /\ asked' = asked \cup {"ping"}
          /\ told'.inspect = told.inspect /\ told'.ps = told.ps
          /\ told'.census = told.census /\ told'.keys = told.keys /\ told'.api = told.api
      BY <1>0, <2>3 DEF AskPing, Returned, ProbingTypes
    <3>2. Pinged(told.ping)'
      BY <1>0, <2>3, PingNow
    <3> QED BY <1>0, <1>1, <1>5, <3>1, <3>2 DEF Witnessed
  <2>4. CASE AskCensus
    <3>1. /\ asked' = asked \cup {"census"}
          /\ told'.inspect = told.inspect /\ told'.ps = told.ps
          /\ told'.ping = told.ping /\ told'.api = told.api
      BY <1>0, <2>4 DEF AskCensus, Returned, ProbingTypes
    <3>2. Counted(told.census, told.keys)'
      BY <1>0, <2>4, CensusNow
    <3> QED BY <1>0, <1>1, <1>5, <3>1, <3>2 DEF Witnessed
  <2>5. CASE AskApi
    <3>1. /\ asked' = asked \cup {"api"} /\ told'.api = api
          /\ told'.inspect = told.inspect /\ told'.ps = told.ps
          /\ told'.ping = told.ping /\ told'.census = told.census /\ told'.keys = told.keys
      BY <1>0, <2>5 DEF AskApi, Returned, ProbingTypes
    <3>2. "api_reachable" \in IF api THEN seen.up ELSE seen.down
      BY <1>0 DEF Watched, Down, Judged
    <3> QED BY <1>0, <1>1, <1>5, <3>1, <3>2 DEF Witnessed
  <2> QED BY <2>1, <2>2, <2>3, <2>4, <2>5 DEF AskOne
<1> QED BY <1>1, <1>2, <1>4, <1>6 DEF WitnessInv

\* The box moves, and the move is seen.
LEMMA MovesKeep == ASSUME WitnessInv, BoxMoves PROVE WitnessInv'
<1>0. /\ ProbingTypes /\ Watched /\ Witnessed /\ BrokenWasDown
      /\ UNCHANGED <<asked, told, chain>>
  BY DEF WitnessInv, BoxMoves
<1>1. Down' \subseteq Judged
  BY DEF Down, Judged
<1>2. seen' = [seen EXCEPT !.down = @ \cup Down', !.up = @ \cup (Judged \ Down')]
  BY DEF BoxMoves
<1>3. /\ seen'.down = seen.down \cup Down' /\ seen'.up = seen.up \cup (Judged \ Down')
      /\ seen'.docker = seen.docker
      /\ seen' \in [down : SUBSET Judged, up : SUBSET Judged, docker : SUBSET BOOLEAN]
  <2> DEFINE downs == Down'
  <2>1. /\ seen' = [seen EXCEPT !.down = @ \cup downs, !.up = @ \cup (Judged \ downs)]
        /\ downs \subseteq Judged
    BY <1>1, <1>2
  <2> HIDE DEF downs
  <2>2. /\ seen'.down = seen.down \cup downs /\ seen'.up = seen.up \cup (Judged \ downs)
        /\ seen'.docker = seen.docker
        /\ seen' \in [down : SUBSET Judged, up : SUBSET Judged, docker : SUBSET BOOLEAN]
    BY <1>0, <2>1 DEF ProbingTypes
  <2> QED BY <2>2 DEF downs
<1>4. /\ box' \in Report /\ daemon' \in BOOLEAN /\ serving' \in {"yes", "loading", "hung"}
      /\ keys' \in SUBSET Needed /\ api' \in BOOLEAN
  BY <1>0 DEF BoxMoves, ProbingTypes, Report
<1>5. ProbingTypes'
  BY <1>0, <1>3, <1>4 DEF ProbingTypes
<1>6. Watched'
  BY <1>3 DEF Watched
<1>7. chain = NoChain
  BY DEF BoxMoves, Loading
<1>8. BrokenWasDown'
  BY <1>0, <1>7 DEF BrokenWasDown
<1>9. /\ \A report : Listing(report) => Listing(report)'
      /\ \A ping : Pinged(ping) => Pinged(ping)'
      /\ \A census, held : Counted(census, held) => Counted(census, held)'
  BY <1>0, <1>3, <1>5, MoreIsSeen
<1>10. Witnessed'
  BY <1>0, <1>3, <1>9 DEF Witnessed
<1> QED BY <1>5, <1>6, <1>8, <1>10 DEF WitnessInv

\* The verdicts on the engine's container and its healthcheck, from two listings.
LEMMA ContainerJudged ==
    ASSUME NEW inspected \in Report, NEW listed \in Report,
           Listing(inspected), Listing(listed),
           NEW containers, containers = CollectContainers(inspected, listed)
    PROVE  /\ ContainerStep(containers, EngineBox) = "broken" => "engine_container" \in seen.down
           /\ ContainerStep(containers, EngineBox) = "ok" => "engine_container" \in seen.up
           /\ HealthcheckStep(containers, EngineBox) = "broken" => "engine_healthcheck" \in seen.down
           /\ HealthcheckStep(containers, EngineBox) = "ok" => "engine_healthcheck" \in seen.up
           /\ ~containers.blind => TRUE \in seen.docker
<1>0. EngineBox \in DOMAIN Roster
  BY ProbingAssumption
<1>1. /\ containers.blind <=> DOMAIN inspected \cup DOMAIN listed = {}
      /\ containers.rows[EngineBox] = ContainerVerdict(EngineBox, inspected, listed)
      /\ containers.health[EngineBox] =
            IF EngineBox \in DOMAIN inspected THEN inspected[EngineBox].health ELSE "none"
  BY <1>0 DEF CollectContainers
<1>2. ~containers.blind => TRUE \in seen.docker
  BY <1>1 DEF Listing
<1>3. ASSUME ~containers.blind, EngineBox \notin DOMAIN inspected \cup DOMAIN listed
      PROVE  "engine_container" \in seen.down
  BY <1>1, <1>3 DEF Listing
<1>4. CASE containers.blind
  BY <1>1, <1>2, <1>4 DEF ContainerStep, HealthcheckStep
<1>5. CASE ~containers.blind /\ EngineBox \notin DOMAIN inspected \cup DOMAIN listed
  BY <1>1, <1>2, <1>3, <1>5 DEF ContainerStep, HealthcheckStep, ContainerVerdict
<1>6. CASE ~containers.blind /\ EngineBox \in DOMAIN inspected
  <2>1. DOMAIN inspected # {} /\ inspected[EngineBox] \in BoxStates
    BY <1>6, BoxOf
  <2>2. inspected[EngineBox].health \in {"none", "healthy", "starting", "unhealthy"}
    BY <2>1, ProbingAssumption
  <2>3. /\ IF inspected[EngineBox].status = "running"
              THEN "engine_container" \in seen.up ELSE "engine_container" \in seen.down
        /\ IF inspected[EngineBox].health = "unhealthy"
              THEN "engine_healthcheck" \in seen.down ELSE "engine_healthcheck" \in seen.up
    BY <1>6, <2>1 DEF Listing
  <2>4. /\ ContainerStep(containers, EngineBox) = "broken" => inspected[EngineBox].status # "running"
        /\ ContainerStep(containers, EngineBox) = "ok" => inspected[EngineBox].status = "running"
    BY <1>1, <1>6 DEF ContainerStep, ContainerVerdict
  <2>5. /\ HealthcheckStep(containers, EngineBox) = "broken" => inspected[EngineBox].health = "unhealthy"
        /\ HealthcheckStep(containers, EngineBox) = "ok" => inspected[EngineBox].health = "healthy"
    BY <1>1, <1>6, <2>2 DEF HealthcheckStep
  <2> QED BY <1>2, <2>3, <2>4, <2>5
<1>7. CASE ~containers.blind /\ EngineBox \notin DOMAIN inspected /\ EngineBox \in DOMAIN listed
  <2>1. IF listed[EngineBox].status = "running"
           THEN "engine_container" \in seen.up ELSE "engine_container" \in seen.down
    BY <1>7 DEF Listing
  <2>2. /\ ContainerStep(containers, EngineBox) = "broken" => listed[EngineBox].status # "running"
        /\ ContainerStep(containers, EngineBox) = "ok" => listed[EngineBox].status = "running"
    BY <1>1, <1>7 DEF ContainerStep, ContainerVerdict
  <2>3. HealthcheckStep(containers, EngineBox) = "unknown"
    BY <1>1, <1>7 DEF HealthcheckStep
  <2> QED BY <1>2, <2>1, <2>2, <2>3
<1> QED BY <1>4, <1>5, <1>6, <1>7

\* The verdicts on redis and its keys, from a PING and a census.
LEMMA RedisJudged ==
    ASSUME ProbingTypes, Pinged(told.ping), Counted(told.census, told.keys),
           NEW containers, ~containers.blind => TRUE \in seen.docker,
           NEW redis, redis = CollectRedis(told.ping, told.census, told.keys)
    PROVE  /\ RedisStep(containers, redis) = "broken" =>
                 "redis_container" \in seen.down \/ seen.docker = BOOLEAN
           /\ RedisStep(containers, redis) = "ok" => "redis_container" \in seen.up
           /\ KeysStep(containers, redis) = "broken" => "snapshot_keys" \in seen.down
           /\ KeysStep(containers, redis) = "ok" => "snapshot_keys" \in seen.up
<1>1. /\ redis.reachable <=> told.ping = "PONG"
      /\ redis.ping = told.ping
      /\ redis.census_ran <=> told.census \in {"", "no_output"}
      /\ redis.missing = IF told.census = "" THEN Needed \ told.keys ELSE Needed
  BY DEF CollectRedis
<1>2. RedisStep(containers, redis) = "ok" => "redis_container" \in seen.up
  BY <1>1 DEF RedisStep, Pinged
<1>3. RedisStep(containers, redis) = "broken" =>
         "redis_container" \in seen.down \/ seen.docker = BOOLEAN
  <2> SUFFICES ASSUME RedisStep(containers, redis) = "broken", "redis_container" \notin seen.down
               PROVE  seen.docker = BOOLEAN
    OBVIOUS
  <2>1. ~containers.blind /\ told.ping \in {"exec_error", "timeout"}
    BY <1>1 DEF RedisStep, ProbingTypes
  <2>2. TRUE \in seen.docker /\ FALSE \in seen.docker
    BY <2>1 DEF Pinged
  <2> QED BY <2>2 DEF ProbingTypes
<1>4. KeysStep(containers, redis) \in {"ok", "broken"} =>
         told.ping = "PONG" /\ told.census \in {"", "no_output"}
  BY <1>1 DEF KeysStep
<1>5. CASE told.census = ""
  <2>1. redis.missing = {} <=> told.keys = Needed
    BY <1>1, <1>5 DEF ProbingTypes
  <2> QED BY <1>2, <1>3, <1>5, <2>1 DEF KeysStep, Counted
<1>6. CASE told.census = "no_output"
  BY <1>1, <1>2, <1>3, <1>4, <1>6 DEF KeysStep, Counted, Pinged
<1> QED BY <1>2, <1>3, <1>4, <1>5, <1>6

\* The facts depend on the box, the answers and the history alone.
LEMMA RestKeepsWitness ==
    ASSUME ProbingTypes, Watched, Witnessed,
           UNCHANGED <<box, daemon, serving, keys, api, asked, told, seen>>
    PROVE  ProbingTypes' /\ Watched' /\ Witnessed'
<1>1. ProbingTypes'
  BY DEF ProbingTypes
<1>2. Watched'
  BY DEF Watched, Down, IsUp, RedisAnswers
<1>3. /\ Listing(told.inspect) => Listing(told.inspect)'
      /\ Listing(told.ps) => Listing(told.ps)'
      /\ Pinged(told.ping) => Pinged(told.ping)'
      /\ Counted(told.census, told.keys) => Counted(told.census, told.keys)'
  BY DEF Listing, Pinged, Counted
<1>4. Witnessed'
  BY <1>3 DEF Witnessed
<1> QED BY <1>1, <1>2, <1>4

\* The chain is drawn when every probe has returned.
LEMMA JudgeKeeps == ASSUME WitnessInv, Judge PROVE WitnessInv'
<1> DEFINE containers == CollectContainers(told.inspect, told.ps)
           redis == CollectRedis(told.ping, told.census, told.keys)
<1>0. /\ ProbingTypes /\ Watched /\ Witnessed /\ asked = Probes
      /\ UNCHANGED <<box, daemon, serving, keys, api, asked, told, moves, seen>>
  BY DEF WitnessInv, Judge
<1>1. ProbingTypes' /\ Watched' /\ Witnessed'
  BY <1>0, RestKeepsWitness
<1>2. /\ Listing(told.inspect) /\ Listing(told.ps) /\ Pinged(told.ping)
      /\ Counted(told.census, told.keys)
      /\ "api_reachable" \in IF told.api THEN seen.up ELSE seen.down
  BY <1>0 DEF Witnessed, Probes
<1>3. told.inspect \in Report /\ told.ps \in Report /\ told.api \in BOOLEAN
  BY <1>0 DEF ProbingTypes
<1>4. /\ chain'["engine_container"] = ContainerStep(containers, EngineBox)
      /\ chain'["engine_healthcheck"] = HealthcheckStep(containers, EngineBox)
      /\ chain'["redis_container"] = RedisStep(containers, redis)
      /\ chain'["snapshot_keys"] = KeysStep(containers, redis)
      /\ chain'["api_reachable"] = IF ~told.api THEN "broken" ELSE "ok"
  BY DEF Judge, BuildChain
<1> HIDE DEF containers, redis
<1>5. /\ ContainerStep(containers, EngineBox) = "broken" => "engine_container" \in seen.down
      /\ ContainerStep(containers, EngineBox) = "ok" => "engine_container" \in seen.up
      /\ HealthcheckStep(containers, EngineBox) = "broken" => "engine_healthcheck" \in seen.down
      /\ HealthcheckStep(containers, EngineBox) = "ok" => "engine_healthcheck" \in seen.up
      /\ ~containers.blind => TRUE \in seen.docker
  BY <1>2, <1>3, ContainerJudged DEF containers
<1>6. /\ RedisStep(containers, redis) = "broken" =>
            "redis_container" \in seen.down \/ seen.docker = BOOLEAN
      /\ RedisStep(containers, redis) = "ok" => "redis_container" \in seen.up
      /\ KeysStep(containers, redis) = "broken" => "snapshot_keys" \in seen.down
      /\ KeysStep(containers, redis) = "ok" => "snapshot_keys" \in seen.up
  BY <1>0, <1>2, <1>5, RedisJudged DEF redis
<1>7. ASSUME NEW step \in Judged
      PROVE  /\ chain'[step] = "broken" => \/ step \in seen.down
                                           \/ step = "redis_container" /\ seen.docker = BOOLEAN
             /\ chain'[step] = "ok" => step \in seen.up
  BY <1>2, <1>3, <1>4, <1>5, <1>6, <1>7 DEF Judged
<1>8. BrokenWasDown'
  BY <1>0, <1>7 DEF BrokenWasDown
<1> QED BY <1>1, <1>8 DEF WitnessInv

LEMMA WitnessKept == ASSUME WitnessInv, [ProbingNext]_probingVars PROVE WitnessInv'
<1>1. CASE UNCHANGED probingVars
  <2>1. ProbingTypes' /\ Watched' /\ Witnessed'
    BY <1>1, RestKeepsWitness DEF WitnessInv, probingVars
  <2>2. BrokenWasDown'
    BY <1>1 DEF WitnessInv, probingVars, BrokenWasDown
  <2> QED BY <2>1, <2>2 DEF WitnessInv
<1> QED BY <1>1, AskKeeps, JudgeKeeps, MovesKeep DEF ProbingNext

\* Whatever the box does while a page loads, and in whatever order its probes
\* return: what the chain calls broken was down at some moment of the load, what it
\* calls ok was up (system_health.py, build_chain).
THEOREM VerdictsAreWitnessed == ProbingSpec => []BrokenWasDown
<1>1. ProbingInit => WitnessInv
  BY ProbingStarts
<1>2. WitnessInv /\ [ProbingNext]_probingVars => WitnessInv'
  BY WitnessKept
<1>3. WitnessInv => BrokenWasDown
  BY DEF WitnessInv
<1> QED BY <1>1, <1>2, <1>3, PTL DEF ProbingSpec

------------------------------------------------------------------------------
\* Every set of numbers has a least one, and a finite set of integers a greatest.
LEMMA HasLeast ==
    ASSUME NEW T \in SUBSET Nat, T # {}
    PROVE  \E k \in T : \A m \in T : k <= m
<1> DEFINE Less == OpToRel(<, Nat)
<1>1. IsWellFoundedOn(Less, Nat)
  BY NatLessThanWellFounded
<1>2. \A x, y \in Nat : <<y, x>> \in Less <=> y < x
  BY DEF OpToRel
<1> HIDE DEF Less
<1>3. PICK k \in T : \A m \in T : ~(<<m, k>> \in Less)
  BY <1>1, WFMin
<1>4. ASSUME NEW m \in T PROVE k <= m
  <2>1. m \in Nat /\ k \in Nat /\ ~(m < k)
    BY <1>2, <1>3
  <2> QED BY <2>1
<1> QED BY <1>4

LEMMA HasGreatest ==
    ASSUME NEW S \in SUBSET Int, IsFiniteSet(S), S # {}
    PROVE  \E x \in S : \A y \in S : y <= x
<1> DEFINE Above(x) == {y \in S : x < y}
           T == {Cardinality(Above(x)) : x \in S}
<1>1. \A x : IsFiniteSet(Above(x)) /\ Cardinality(Above(x)) \in Nat
  <2> TAKE x
  <2>1. Above(x) \in SUBSET S
    OBVIOUS
  <2>2. IsFiniteSet(Above(x))
    BY <2>1, FS_Subset
  <2> QED BY <2>2, FS_CardinalityType
<1>2. \A x, y \in S : x < y => Cardinality(Above(y)) < Cardinality(Above(x))
  <2> SUFFICES ASSUME NEW x \in S, NEW y \in S, x < y
               PROVE  Cardinality(Above(y)) < Cardinality(Above(x))
    OBVIOUS
  <2>1. Above(y) \in SUBSET Above(x)
    <3>1. \A z \in S : y < z => x < z
      OBVIOUS
    <3> QED BY <3>1
  <2>2. y \in Above(x) /\ y \notin Above(y)
    OBVIOUS
  <2> HIDE DEF Above
  <2>3. /\ Cardinality(Above(y)) <= Cardinality(Above(x))
        /\ Cardinality(Above(x)) = Cardinality(Above(y)) => Above(x) = Above(y)
    BY <1>1, <2>1, FS_Subset
  <2> QED BY <1>1, <2>2, <2>3
<1> HIDE DEF Above
<1>3. T \in SUBSET Nat /\ T # {}
  BY <1>1
<1>4. PICK k \in T : \A m \in T : k <= m
  <2> HIDE DEF T
  <2> QED BY <1>3, HasLeast
<1>5. PICK x \in S : k = Cardinality(Above(x))
  BY <1>4
<1>6. ASSUME NEW y \in S PROVE y <= x
  <2>1. Cardinality(Above(y)) \in T
    OBVIOUS
  <2>2. ~(Cardinality(Above(y)) < Cardinality(Above(x)))
    BY <1>1, <1>4, <1>5, <2>1
  <2> QED BY <1>2, <2>2
<1> QED BY <1>6

\* Max and Min are what their names say where there is one.
LEMMA MaxIs ==
    ASSUME NEW S \in SUBSET Int, NEW x \in S, \A y \in S : y <= x
    PROVE  Max(S) = x
<1>1. Max(S) \in S /\ \A y \in S : Max(S) >= y
  <2>1. \E z \in S : \A y \in S : z >= y
    <3>1. \A y \in S : x >= y
      OBVIOUS
    <3> QED BY <3>1
  <2> QED BY <2>1 DEF Max
<1>2. Max(S) <= x /\ Max(S) >= x /\ Max(S) \in Int /\ x \in Int
  BY <1>1
<1> QED BY <1>2

LEMMA MinIs ==
    ASSUME NEW S \in SUBSET Int, NEW x \in S, \A y \in S : x <= y
    PROVE  Min(S) = x
<1>1. Min(S) \in S /\ \A y \in S : Min(S) <= y
  <2>1. \E z \in S : \A y \in S : z <= y
    <3>1. \A y \in S : x <= y
      OBVIOUS
    <3> QED BY <3>1
  <2> QED BY <2>1 DEF Min
<1>2. Min(S) <= x /\ Min(S) >= x /\ Min(S) \in Int /\ x \in Int
  BY <1>1
<1> QED BY <1>2

\* What a function makes of a finite set is finite.
LEMMA FiniteRange ==
    ASSUME NEW S, IsFiniteSet(S), NEW f, f = [x \in S |-> f[x]]
    PROVE  IsFiniteSet({f[x] : x \in S})
<1> DEFINE T == {f[x] : x \in S}
<1>1. f \in Surjection(S, T)
  <2>1. f \in [S -> T]
    OBVIOUS
  <2>2. \A t \in T : \E s \in S : f[s] = t
    OBVIOUS
  <2> QED BY <2>1, <2>2 DEF Surjection
<1> HIDE DEF T
<1>2. IsFiniteSet(T)
  BY <1>1, FS_Surjection
<1> QED BY <1>2 DEF T

\* A table as the panels meet it: finitely many numbered rows, whose times are moments
\* or missing, on a calendar that goes on, and whose delivery state has a name.
Numbered(table) == DOMAIN table \subseteq Int /\ IsFiniteSet(DOMAIN table)
Readable(table) ==
    /\ Numbered(table)
    /\ \A i \in DOMAIN table :
          /\ {table[i].opened, table[i].closed} \subseteq Nat \cup {Undated}
          /\ \E day \in Begins["day"] : table[i].closed < day
          /\ table[i].emitted \in Nat \cup {None} /\ table[i].delivery # All

\* The rows opened by an instant, those closed by it, and those open at it.
OpenedBy(table, t) == {i \in Spanned(table) : table[i].opened <= t}
ClosedBy(table, t) == {i \in Spanned(table) : table[i].closed <= t}
OpenAt(table, t) == {i \in Spanned(table) : table[i].opened <= t /\ t < table[i].closed}

\* How many are open at an instant is how many opened less how many closed.
LEMMA OpenAtCounts ==
    ASSUME NEW table, Readable(table), NEW t \in Int
    PROVE  /\ Cardinality(OpenAt(table, t)) =
                Cardinality(OpenedBy(table, t)) - Cardinality(ClosedBy(table, t))
           /\ Cardinality(OpenAt(table, t)) \in Nat
           /\ IsFiniteSet(OpenedBy(table, t)) /\ Cardinality(OpenedBy(table, t)) \in Nat
           /\ IsFiniteSet(ClosedBy(table, t)) /\ Cardinality(ClosedBy(table, t)) \in Nat
<1> DEFINE S == Spanned(table)
<1>1. S \in SUBSET DOMAIN table /\ IsFiniteSet(S)
  <2>1. S \in SUBSET DOMAIN table
    BY DEF Spanned, TradeRows
  <2> QED BY <2>1, FS_Subset DEF Readable, Numbered
<1>2. \A i \in S : /\ table[i].opened \in Int /\ table[i].closed \in Int
                 /\ table[i].opened <= table[i].closed
  BY DEF Readable, Undated, Spanned, TradeRows
<1>3. OpenedBy(table, t) \in SUBSET S /\ ClosedBy(table, t) \in SUBSET S
  BY DEF OpenedBy, ClosedBy
<1>4. ClosedBy(table, t) \subseteq OpenedBy(table, t)
  BY <1>2 DEF OpenedBy, ClosedBy
<1>5. OpenAt(table, t) = OpenedBy(table, t) \ ClosedBy(table, t)
  BY <1>2 DEF OpenedBy, ClosedBy, OpenAt
<1> HIDE DEF S
<1>6. IsFiniteSet(OpenedBy(table, t)) /\ IsFiniteSet(ClosedBy(table, t))
  BY <1>1, <1>3, FS_Subset
<1>7. /\ IsFiniteSet(OpenAt(table, t))
      /\ Cardinality(OpenAt(table, t)) = Cardinality(OpenedBy(table, t)) -
            Cardinality(OpenedBy(table, t) \cap ClosedBy(table, t))
  BY <1>5, <1>6, FS_Difference
<1>8. OpenedBy(table, t) \cap ClosedBy(table, t) = ClosedBy(table, t)
  BY <1>4
<1> QED BY <1>6, <1>7, <1>8, FS_CardinalityType

\* The highest count of the sweep is the most rows ever open at one instant: it is
\* reached at the last open of an instant, when every close of it has made room.
LEMMA SweepFindsThePeak ==
    ASSUME NEW table, Readable(table)
    PROVE  PeakConcurrency(table).peak =
              Max({0} \cup {Cardinality(OpenAt(table, table[i].opened)) : i \in Spanned(table)})
<1> DEFINE S == Spanned(table)
           open(i) == [at |-> table[i].opened, step |-> 1, row |-> i]
           close(i) == [at |-> table[i].closed, step |-> -1, row |-> i]
           swept(f, e) == ClosesFirst(f, e) \/ (f.at = e.at /\ f.step = e.step /\ f.row <= e.row)
           opens(e) == {i \in S : swept(open(i), e)}
           closes(e) == {i \in S : swept(close(i), e)}
           live(e) == Cardinality(opens(e)) - Cardinality(closes(e))
           lives == {0} \cup {live(open(i)) : i \in S} \cup {live(close(i)) : i \in S}
           at(i) == Cardinality(OpenAt(table, table[i].opened))
           truth == {0} \cup {at(i) : i \in S}
<1>1. PeakConcurrency(table).peak = Max(lives)
  BY DEF PeakConcurrency
<1>2. S \in SUBSET DOMAIN table /\ IsFiniteSet(S) /\ S \subseteq Int
  <2>1. S \in SUBSET DOMAIN table
    BY DEF Spanned, TradeRows
  <2> QED BY <2>1, FS_Subset DEF Readable, Numbered
<1>3. \A i \in S : table[i].opened \in Int /\ table[i].closed \in Int
  BY DEF Readable, Undated, Spanned, TradeRows
\* What the sweep has counted when it comes to an open or a close.
<1>4. ASSUME NEW i \in S
      PROVE  /\ opens(open(i)) =
                  {j \in S : table[j].opened < table[i].opened
                             \/ (table[j].opened = table[i].opened /\ j <= i)}
             /\ closes(open(i)) = ClosedBy(table, table[i].opened)
  <2>1. \A j \in S : swept(open(j), open(i)) <=>
            (table[j].opened < table[i].opened
             \/ (table[j].opened = table[i].opened /\ j <= i))
    BY <1>2, <1>3 DEF ClosesFirst
  <2>2. \A j \in S : swept(close(j), open(i)) <=> table[j].closed <= table[i].opened
    BY <1>2, <1>3 DEF ClosesFirst
  <2> HIDE DEF swept, open, close
  <2> QED BY <2>1, <2>2 DEF ClosedBy
<1>5. ASSUME NEW i \in S
      PROVE  /\ opens(close(i)) = {j \in S : table[j].opened < table[i].closed}
             /\ {j \in S : table[j].closed < table[i].closed} \subseteq closes(close(i))
  <2>1. \A j \in S : swept(open(j), close(i)) <=> table[j].opened < table[i].closed
    BY <1>2, <1>3 DEF ClosesFirst
  <2>2. \A j \in S : table[j].closed < table[i].closed => swept(close(j), close(i))
    BY <1>2, <1>3 DEF ClosesFirst
  <2> HIDE DEF swept, open, close
  <2> QED BY <2>1, <2>2
<1>6. \A e : /\ IsFiniteSet(opens(e)) /\ Cardinality(opens(e)) \in Nat
             /\ IsFiniteSet(closes(e)) /\ Cardinality(closes(e)) \in Nat
  <2> TAKE e
  <2>1. opens(e) \in SUBSET S /\ closes(e) \in SUBSET S
    OBVIOUS
  <2> HIDE DEF opens, closes, S
  <2>2. IsFiniteSet(opens(e)) /\ IsFiniteSet(closes(e))
    BY <1>2, <2>1, FS_Subset
  <2> QED BY <2>2, FS_CardinalityType
<1>7. \A i \in S : at(i) \in Nat
  BY <1>3, OpenAtCounts
<1> HIDE DEF swept, open, close, opens, closes
\* The sweep never counts more than are open at some opening, or none.
<1>8. ASSUME NEW i \in S PROVE live(open(i)) <= at(i)
  <2>1. opens(open(i)) \in SUBSET OpenedBy(table, table[i].opened)
    BY <1>3, <1>4 DEF OpenedBy
  <2>2. Cardinality(opens(open(i))) <= Cardinality(OpenedBy(table, table[i].opened))
    BY <1>3, <2>1, OpenAtCounts, FS_Subset
  <2>3. closes(open(i)) = ClosedBy(table, table[i].opened)
    BY <1>4
  <2> QED BY <1>3, <1>6, <2>2, <2>3, OpenAtCounts
<1>9. ASSUME NEW i \in S PROVE live(close(i)) <= 0 \/ \E k \in S : live(close(i)) <= at(k)
  <2>1. CASE opens(close(i)) = {}
    <3>1. Cardinality(opens(close(i))) = 0
      BY <2>1, FS_EmptySet
    <3> QED BY <1>6, <3>1
  <2>2. CASE opens(close(i)) # {}
    <3> DEFINE starts == {table[j].opened : j \in opens(close(i))}
    <3>1. starts \in SUBSET Int /\ starts # {}
      BY <1>3, <1>5, <2>2
    <3>2. IsFiniteSet(starts)
      <4> DEFINE f == [j \in opens(close(i)) |-> table[j].opened]
      <4>1. f = [j \in opens(close(i)) |-> f[j]] /\ starts = {f[j] : j \in opens(close(i))}
        OBVIOUS
      <4> HIDE DEF f, starts
      <4> QED BY <1>6, <4>1, FiniteRange
    <3>3. PICK t \in starts : \A s \in starts : s <= t
      <4> HIDE DEF starts
      <4> QED BY <3>1, <3>2, HasGreatest
    <3>4. PICK k \in opens(close(i)) : t = table[k].opened
      BY <3>3
    <3>5. k \in S /\ table[k].opened < table[i].closed
      BY <1>5, <3>4
    <3>6. opens(close(i)) \in SUBSET OpenedBy(table, t)
      <4>1. \A j \in opens(close(i)) : j \in S /\ table[j].opened <= t
        BY <1>5, <3>3
      <4> QED BY <4>1 DEF OpenedBy
    <3>7. ClosedBy(table, t) \in SUBSET closes(close(i))
      <4>1. \A j \in S : table[j].closed <= t => table[j].closed < table[i].closed
        BY <1>3, <3>4, <3>5
      <4> QED BY <1>5, <4>1 DEF ClosedBy
    <3>8. t \in Int
      BY <3>1, <3>3
    <3>9. /\ Cardinality(opens(close(i))) <= Cardinality(OpenedBy(table, t))
          /\ Cardinality(ClosedBy(table, t)) <= Cardinality(closes(close(i)))
      BY <1>6, <3>6, <3>7, <3>8, OpenAtCounts, FS_Subset
    <3>10. live(close(i)) <= at(k)
      BY <1>6, <3>4, <3>8, <3>9, OpenAtCounts
    <3> QED BY <3>5, <3>10
  <2> QED BY <2>1, <2>2
\* At the last open of an instant the sweep counts exactly what is open at it.
<1>10. ASSUME NEW i \in S PROVE \E k \in S : live(open(k)) = at(i)
  <2> DEFINE same == {j \in S : table[j].opened = table[i].opened}
  <2>1. same \in SUBSET S /\ i \in same
    OBVIOUS
  <2>2. PICK k \in same : \A j \in same : j <= k
    <3> HIDE DEF same, S
    <3>1. IsFiniteSet(same) /\ same \in SUBSET Int /\ same # {}
      BY <1>2, <2>1, FS_Subset
    <3> QED BY <3>1, HasGreatest
  <2>3. k \in S /\ table[k].opened = table[i].opened
    OBVIOUS
  <2>4. opens(open(k)) = OpenedBy(table, table[i].opened)
    <3>1. \A j \in S : table[j].opened <= table[i].opened <=>
             (table[j].opened < table[k].opened
              \/ (table[j].opened = table[k].opened /\ j <= k))
      BY <1>2, <1>3, <2>2, <2>3
    <3> QED BY <1>4, <2>3, <3>1 DEF OpenedBy
  <2>5. closes(open(k)) = ClosedBy(table, table[i].opened)
    BY <1>4, <2>3
  <2> QED BY <1>3, <2>3, <2>4, <2>5, OpenAtCounts
<1>11. PICK top \in truth : \A x \in truth : x <= top
  <2>1. truth \in SUBSET Int /\ truth # {}
    BY <1>7
  <2>2. IsFiniteSet({at(i) : i \in S})
    <3> DEFINE f == [i \in S |-> at(i)]
    <3>1. f = [i \in S |-> f[i]] /\ {at(i) : i \in S} = {f[i] : i \in S}
      OBVIOUS
    <3> HIDE DEF at, S, f
    <3> QED BY <1>2, <3>1, FiniteRange
  <2>3. IsFiniteSet(truth)
    <3> HIDE DEF at, S
    <3> QED BY <2>2, FS_Singleton, FS_Union
  <2> HIDE DEF truth
  <2> QED BY <2>1, <2>3, HasGreatest
<1>12. lives \in SUBSET Int /\ top \in Int
  <2>1. \A e : live(e) \in Int
    BY <1>6
  <2> HIDE DEF live
  <2> QED BY <1>7, <1>11, <2>1
<1>13. top \in lives
  <2>1. CASE top = 0
    BY <2>1
  <2>2. CASE \E i \in S : top = at(i)
    <3> HIDE DEF live, at
    <3> QED BY <1>10, <2>2
  <2> QED BY <1>11, <2>1, <2>2
<1>14. \A x \in lives : x <= top
  <2>1. 0 <= top /\ \A i \in S : at(i) <= top
    BY <1>11
  <2>2. \A e : live(e) \in Int
    BY <1>6
  <2> HIDE DEF live, at
  <2> QED BY <1>7, <1>8, <1>9, <1>12, <2>1, <2>2
<1>15. Max(lives) = top
  <2> HIDE DEF lives
  <2> QED BY <1>12, <1>13, <1>14, MaxIs
<1>16. Max(truth) = top
  <2>1. truth \in SUBSET Int
    BY <1>7
  <2> HIDE DEF truth
  <2> QED BY <1>11, <2>1, MaxIs
<1> QED BY <1>1, <1>15, <1>16

\* The day a moment is in: the last that has begun.
LEMMA DayOf ==
    ASSUME NEW when \in Nat
    PROVE  /\ BucketKey(when, "day") \in Begins["day"]
           /\ BucketKey(when, "day") <= when
           /\ \A b \in Begins["day"] : b <= when => b <= BucketKey(when, "day")
<1> DEFINE begun == {b \in Begins["day"] : b <= when}
<1>1. 0 \in Begins["day"] /\ Begins["day"] \subseteq Nat
  BY CalendarAssumption DEF Granularity
<1>2. begun \in SUBSET Nat /\ begun # {} /\ \A b \in begun : b <= when
  BY <1>1
<1>3. PICK key \in begun : \A b \in begun : b <= key
  <2> HIDE DEF begun
  <2>1. IsFiniteSet(begun) /\ begun \in SUBSET Int
    BY <1>2, FS_BoundedSetOfNaturals
  <2> QED BY <1>2, <2>1, HasGreatest
<1>4. BucketKey(when, "day") = key
  <2>1. BucketKey(when, "day") = Max(begun)
    BY DEF BucketKey
  <2>2. begun \in SUBSET Int
    BY <1>2
  <2> HIDE DEF begun
  <2> QED BY <1>3, <2>1, <2>2, MaxIs
<1> QED BY <1>3, <1>4

\* Where a day ends: the first that begins after it, if one does.
LEMMA EndOfDay ==
    ASSUME NEW day \in Begins["day"], \E b \in Begins["day"] : day < b
    PROVE  /\ BucketEnd(day, "day") \in Begins["day"] /\ day < BucketEnd(day, "day")
           /\ \A b \in Begins["day"] : day < b => BucketEnd(day, "day") <= b
<1> DEFINE after == {b \in Begins["day"] : b > day}
<1>1. Begins["day"] \subseteq Nat
  BY CalendarAssumption DEF Granularity
<1>2. after \in SUBSET Nat /\ after # {}
  BY <1>1
<1>3. PICK end \in after : \A b \in after : end <= b
  <2> HIDE DEF after
  <2> QED BY <1>2, HasLeast
<1>4. BucketEnd(day, "day") = end
  <2>1. BucketEnd(day, "day") = Min(after)
    BY DEF BucketEnd
  <2>2. after \in SUBSET Int
    BY <1>2
  <2> HIDE DEF after
  <2> QED BY <1>3, <2>1, <2>2, MinIs
<1> QED BY <1>1, <1>3, <1>4

\* A window of whole days: each end open, or at a midnight.
WholeDays(range) ==
    /\ range.start = Undated \/ range.start \in Begins["day"]
    /\ range.end = Undated \/ \E to \in Begins["day"] : range.end = to + DayTicks

LEMMA WindowsAreWholeDays ==
    ASSUME NEW moment \in Nat, NEW range \in Windows(moment)
    PROVE  WholeDays(range)
<1>1. CASE \E days \in Presets : range = PresetRange(days, moment)
  <2>1. PICK days \in Presets : range = PresetRange(days, moment)
    BY <1>1
  <2>2. days \in Nat /\ DayTicks \in Nat /\ days * DayTicks \in Nat
    BY CalendarAssumption
  <2>3. WindowStart(days, moment) \in Begins["day"]
    <3> DEFINE back == days * DayTicks
    <3>1. WindowStart(days, moment) =
             IF moment < back THEN 0 ELSE BucketKey(moment - back, "day")
      BY DEF WindowStart
    <3>2. back \in Nat
      BY <2>2
    <3> HIDE DEF back
    <3>3. CASE moment < back
      BY <3>1, <3>3, CalendarAssumption DEF Granularity
    <3>4. CASE ~(moment < back)
      <4>1. moment - back \in Nat
        BY <3>2, <3>4
      <4> QED BY <3>1, <3>4, <4>1, DayOf
    <3> QED BY <3>3, <3>4
  <2> QED BY <2>1, <2>3 DEF PresetRange, WholeDays
<1>2. CASE range = AllTime
  BY <1>2 DEF AllTime, WholeDays
<1>3. CASE \E from, to \in Begins["day"] \cup {Undated} : range = CustomRange(from, to)
  BY <1>3 DEF CustomRange, WholeDays
<1> QED BY <1>1, <1>2, <1>3 DEF Windows

\* A day a window of whole days shows a row of ends inside the window, and began in it.
LEMMA DayInWindow ==
    ASSUME NEW range, WholeDays(range), NEW when \in Nat, InRange(when, range),
           \E b \in Begins["day"] : when < b
    PROVE  LET day == BucketKey(when, "day")
           IN /\ range.start = Undated \/ (range.start \in Nat /\ range.start <= day)
              /\ range.end = Undated \/ (range.end \in Nat /\ BucketEnd(day, "day") <= range.end)
<1> DEFINE day == BucketKey(when, "day")
<1>1. Begins["day"] \subseteq Nat /\ DayTicks \in Nat \ {0} /\ Undated = -1
  BY CalendarAssumption DEF Granularity, Undated
<1>2. /\ day \in Begins["day"] /\ day <= when
      /\ \A b \in Begins["day"] : b <= when => b <= day
  BY DayOf
<1> HIDE DEF day
<1>3. PICK later \in Begins["day"] : when < later
  OBVIOUS
<1>4. day < later
  BY <1>1, <1>2, <1>3
<1>5. \A b \in Begins["day"] : day < b => BucketEnd(day, "day") <= b
  BY <1>2, <1>3, <1>4, EndOfDay
<1>6. BucketEnd(day, "day") \in Nat
  BY <1>1, <1>2, <1>3, <1>4, EndOfDay
<1>7. range.start = Undated \/ (range.start \in Nat /\ range.start <= day)
  BY <1>1, <1>2 DEF WholeDays, InRange
<1>8. ASSUME range.end # Undated
      PROVE  range.end \in Nat /\ BucketEnd(day, "day") <= range.end
  <2>1. PICK to \in Begins["day"] : range.end = to + DayTicks
    BY <1>8 DEF WholeDays
  <2>2. when < to + DayTicks
    BY <1>8, <2>1 DEF InRange
  <2>3. ~(to < day)
    <3>1. to < day => to + DayTicks <= day
      BY <1>2, CalendarAssumption
    <3> QED BY <1>1, <1>2, <2>2, <3>1
  <2>4. CASE day < to
    BY <1>1, <1>2, <1>5, <1>6, <2>1, <2>4
  <2>5. CASE day = to
    <3>1. day + DayTicks \in Begins["day"]
      BY <1>2, <1>4, CalendarAssumption
    <3>2. day < day + DayTicks
      BY <1>1, <1>2
    <3> QED BY <1>1, <1>5, <2>1, <2>5, <3>1, <3>2
  <2>6. to \in Nat /\ day \in Nat
    BY <1>1, <1>2
  <2> QED BY <2>3, <2>4, <2>5, <2>6
<1>9. /\ range.start = Undated \/ (range.start \in Nat /\ range.start <= day)
      /\ range.end = Undated \/ (range.end \in Nat /\ BucketEnd(day, "day") <= range.end)
  BY <1>7, <1>8
<1> QED BY <1>9 DEF day

\* Fields of a period's record.
LEMMA SummaryRows == \A table, which : SummarizeTrades(table, which).rows = which
BY DEF SummarizeTrades

LEMMA PartialIs ==
    \A key, g, range, moment :
        Completeness(key, g, range, moment).partial =
            IF (range.start # Undated /\ range.start > key)
               \/ (range.end # Undated /\ range.end < BucketEnd(key, g)) THEN "window_cut"
            ELSE IF key <= moment /\ moment < BucketEnd(key, g) THEN "in_progress" ELSE ""
BY DEF Completeness

\* The days a page shows of the chosen rows.
DaysOf(table, chosen, range, moment) ==
    BucketRows(table, {i \in chosen : InRange(table[i].closed, range)}, "day", range, moment)

\* Every day of the table, seen through a window of whole days, is whole.
LEMMA DaysOfTable ==
    ASSUME NEW table, Readable(table), NEW moment \in Nat, NEW range \in Windows(moment),
           NEW chosen \in SUBSET DOMAIN table,
           NEW day \in DOMAIN DaysOf(table, chosen, range, moment)
    PROVE  /\ DaysOf(table, chosen, range, moment)[day].complete.partial # "window_cut"
           /\ DaysOf(table, chosen, range, moment)[day].summary.rows =
                 {i \in chosen : /\ table[i].closed # Undated
                                 /\ BucketKey(table[i].closed, "day") = day}
<1> DEFINE shown == {i \in chosen : InRange(table[i].closed, range)}
           dated == {i \in shown : table[i].closed # Undated}
           key(i) == BucketKey(table[i].closed, "day")
           of(k) == {i \in dated : key(i) = k}
           days == DaysOf(table, chosen, range, moment)
<1>1. /\ day \in DOMAIN days /\ DOMAIN days = {key(i) : i \in dated}
      /\ days[day].summary = SummarizeTrades(table, of(day))
      /\ days[day].complete = Completeness(day, "day", range, moment)
  BY DEF BucketRows, DaysOf
<1> HIDE DEF days
<1>2. PICK i \in dated : day = key(i)
  BY <1>1
<1>3. ASSUME NEW j \in chosen, table[j].closed # Undated
      PROVE  /\ table[j].closed \in Nat
             /\ \E b \in Begins["day"] : table[j].closed < b
  BY <1>3 DEF Readable
<1>4. WholeDays(range)
  BY WindowsAreWholeDays
<1>5. /\ range.start = Undated \/ (range.start \in Nat /\ range.start <= day)
      /\ range.end = Undated \/ (range.end \in Nat /\ BucketEnd(day, "day") <= range.end)
  BY <1>2, <1>3, <1>4, DayInWindow
<1>6. /\ day \in Nat /\ day \in Begins["day"]
      /\ \E b \in Begins["day"] : day < b
  <2>1. day \in Begins["day"] /\ day <= table[i].closed /\ table[i].closed \in Nat
    BY <1>2, <1>3, DayOf
  <2>2. Begins["day"] \subseteq Nat
    BY CalendarAssumption DEF Granularity
  <2>3. PICK b \in Begins["day"] : table[i].closed < b
    BY <1>2, <1>3
  <2>4. day < b
    BY <2>1, <2>2, <2>3
  <2> QED BY <2>1, <2>2, <2>4
<1>7. BucketEnd(day, "day") \in Nat
  <2>1. Begins["day"] \subseteq Nat
    BY CalendarAssumption DEF Granularity
  <2> QED BY <1>6, <2>1, EndOfDay
<1>8. days[day].complete.partial # "window_cut"
  <2>1. ~((range.start # Undated /\ range.start > day)
          \/ (range.end # Undated /\ range.end < BucketEnd(day, "day")))
    BY <1>5, <1>6, <1>7
  <2>2. Completeness(day, "day", range, moment).partial =
           IF (range.start # Undated /\ range.start > day)
              \/ (range.end # Undated /\ range.end < BucketEnd(day, "day")) THEN "window_cut"
           ELSE IF day <= moment /\ moment < BucketEnd(day, "day") THEN "in_progress" ELSE ""
    BY PartialIs
  <2>3. "in_progress" # "window_cut" /\ "" # "window_cut"
    OBVIOUS
  <2> QED BY <1>1, <2>1, <2>2, <2>3
<1>9. ASSUME NEW j \in chosen, table[j].closed # Undated, key(j) = day
      PROVE  j \in dated
  <2>1. table[j].closed \in Nat /\ day <= table[j].closed
    BY <1>3, <1>9, DayOf
  <2>2. table[j].closed < BucketEnd(day, "day")
    <3>1. BucketEnd(day, "day") \in Begins["day"] /\ day < BucketEnd(day, "day")
      BY <1>6, EndOfDay
    <3>2. BucketEnd(day, "day") <= table[j].closed => BucketEnd(day, "day") <= day
      BY <1>9, <2>1, <3>1, DayOf
    <3> QED BY <1>6, <1>7, <2>1, <3>1, <3>2
  <2>3. InRange(table[j].closed, range)
    BY <1>5, <1>6, <1>7, <1>9, <2>1, <2>2 DEF InRange
  <2> QED BY <1>9, <2>3
<1>10. days[day].summary.rows = of(day)
  BY <1>1, SummaryRows
<1>11. of(day) = {j \in chosen : /\ table[j].closed # Undated
                                 /\ BucketKey(table[j].closed, "day") = day}
  BY <1>9
<1> QED BY <1>8, <1>10, <1>11 DEF days

\* A quotient, by what it means.
LEMMA QuotientIs ==
    ASSUME NEW a \in Nat, NEW d \in Nat \ {0}
    PROVE  /\ a \div d \in Nat
           /\ (a \div d) * d <= a /\ a < (a \div d + 1) * d
BY Z3

LEMMA QuotientBelow ==
    ASSUME NEW a \in Nat, NEW n \in Nat, NEW d \in Nat \ {0}, a < n
    PROVE  a \div d + 1 <= (n + d - 1) \div d
<1> DEFINE q == a \div d
           r == (n + d - 1) \div d
<1>1. q \in Nat /\ r \in Nat /\ n + d - 1 \in Nat
  BY QuotientIs
<1>2. q * d <= a
  BY QuotientIs
<1>3. n + d - 1 < (r + 1) * d
  BY <1>1, QuotientIs
<1> HIDE DEF q, r
<1>4. (r + 1) * d = r * d + d
  BY <1>1
<1>5. q * d < r * d
  <2>1. q * d \in Nat /\ r * d \in Nat
    BY <1>1
  <2> QED BY <1>2, <1>3, <1>4, <2>1
<1>6. ~(r <= q)
  <2>1. r <= q => r * d <= q * d
    BY <1>1
  <2> QED BY <1>1, <1>5, <2>1
<1> QED BY <1>1, <1>6 DEF q, r

\* Where a row stands among those of its set, and so its page, is within the last.
Standing(which, i) == Cardinality({j \in which : j < i})
LastPage(which, size) == (Cardinality(which) + size - 1) \div size

LEMMA PageOfRow ==
    ASSUME NEW which \in SUBSET Int, IsFiniteSet(which), NEW size \in Nat \ {0}, NEW i \in which
    PROVE  /\ Cardinality(which) \in Nat \ {0} /\ LastPage(which, size) \in Nat
           /\ Standing(which, i) \div size + 1 \in 1..LastPage(which, size)
<1> DEFINE ahead == {j \in which : j < i}
<1>1. ahead \in SUBSET which /\ i \notin ahead
  BY SMT
<1>2. /\ IsFiniteSet(ahead) /\ Cardinality(ahead) \in Nat /\ Cardinality(which) \in Nat
      /\ Cardinality(ahead) < Cardinality(which)
  <2> HIDE DEF ahead
  <2>1. /\ IsFiniteSet(ahead) /\ Cardinality(ahead) <= Cardinality(which)
        /\ Cardinality(which) = Cardinality(ahead) => which = ahead
    BY <1>1, FS_Subset
  <2>2. Cardinality(ahead) \in Nat /\ Cardinality(which) \in Nat
    BY <2>1, FS_CardinalityType
  <2> QED BY <1>1, <2>1, <2>2
<1>3. Standing(which, i) = Cardinality(ahead)
  BY DEF Standing
<1> HIDE DEF ahead
<1>4. Standing(which, i) \div size \in Nat
  BY <1>2, <1>3, QuotientIs
<1>5. Standing(which, i) \div size + 1 <= LastPage(which, size)
  BY <1>2, <1>3, QuotientBelow DEF LastPage
<1>6. LastPage(which, size) \in Nat
  <2>1. Cardinality(which) + size - 1 \in Nat
    BY <1>2
  <2> QED BY <2>1, QuotientIs DEF LastPage
<1> QED BY <1>2, <1>4, <1>5, <1>6

\* Pages of one size divide the rows they are cut from.
PageOf(which, size, n) == {i \in which : Standing(which, i) \div size = n - 1}

LEMMA PagesOfOneSize ==
    ASSUME NEW which \in SUBSET Int, IsFiniteSet(which), NEW size \in Nat \ {0},
           NEW last \in Nat \ {0}, which # {} => last = LastPage(which, size)
    PROVE  /\ \A i \in which : \E n \in 1..last : i \in PageOf(which, size, n)
           /\ \A n, m \in 1..last : n # m => PageOf(which, size, n) \cap PageOf(which, size, m) = {}
<1>1. ASSUME NEW i \in which PROVE \E n \in 1..last : i \in PageOf(which, size, n)
  <2> DEFINE n == Standing(which, i) \div size + 1
  <2>1. n \in 1..last
    BY PageOfRow
  <2>2. Standing(which, i) \div size \in Nat
    <3>1. Standing(which, i) \in Nat
      <4>1. {j \in which : j < i} \in SUBSET which
        OBVIOUS
      <4>2. IsFiniteSet({j \in which : j < i})
        BY <4>1, FS_Subset
      <4> QED BY <4>2, FS_CardinalityType DEF Standing
    <3> QED BY <3>1, QuotientIs
  <2>3. Standing(which, i) \div size = n - 1
    BY <2>2
  <2> HIDE DEF n
  <2> QED BY <2>1, <2>3 DEF PageOf
<1>2. ASSUME NEW n \in 1..last, NEW m \in 1..last, n # m
      PROVE  PageOf(which, size, n) \cap PageOf(which, size, m) = {}
  <2>1. n - 1 # m - 1
    BY <1>2
  <2> QED BY <2>1 DEF PageOf
<1> QED BY <1>1, <1>2

\* The pages of the closed signals, and those of the profit page.
LEMMA DarkPagesDivide ==
    ASSUME NEW table, Numbered(table)
    PROVE  Divides([n \in 1..TotalPages(table) |-> Paginate(table, n) \cap ClosedTrades(table)],
                   ClosedTrades(table))
<1> DEFINE which == ClosedTrades(table)
           last == TotalPages(table)
           parts == [n \in 1..last |-> Paginate(table, n) \cap which]
<1>1. which \in SUBSET Int /\ which \in SUBSET DOMAIN table /\ IsFiniteSet(which)
  <2>1. which \in SUBSET DOMAIN table
    BY DEF ClosedTrades, Rows
  <2> QED BY <2>1, FS_Subset DEF Numbered
<1>2. PageSize \in Nat \ {0}
  BY DarkLedgerAssumption
<1>3. Cardinality(which) \in Nat /\ (Cardinality(which) = 0 <=> which = {})
  BY <1>1, FS_CardinalityType, FS_EmptySet
<1>4. last \in Nat \ {0} /\ (which # {} => last = LastPage(which, PageSize))
  <2>1. last = IF Cardinality(which) = 0 THEN 1 ELSE LastPage(which, PageSize)
    BY DEF TotalPages, LastPage
  <2> HIDE DEF last, which
  <2>2. CASE which = {}
    BY <1>3, <2>1, <2>2
  <2>3. CASE which # {}
    <3>1. PICK i \in which : TRUE
      BY <2>3
    <3>2. LastPage(which, PageSize) \in Nat /\ 1..LastPage(which, PageSize) # {}
      BY <1>1, <1>2, <3>1, PageOfRow
    <3>3. LastPage(which, PageSize) # 0
      BY <3>2
    <3> QED BY <1>3, <2>1, <2>3, <3>2, <3>3
  <2> QED BY <2>2, <2>3
<1>5. ASSUME NEW n \in 1..last
      PROVE  Paginate(table, n) \cap which = PageOf(which, PageSize, n)
  <2>1. Min({n, last}) = n
    <3> HIDE DEF last
    <3>1. {n, last} \in SUBSET Int /\ n \in {n, last} /\ \A y \in {n, last} : n <= y
      BY <1>4
    <3> QED BY <3>1, MinIs
  <2>2. Paginate(table, n) =
           IF n = 1 THEN PageOf(which, PageSize, n) \cup (DOMAIN table \ which)
           ELSE PageOf(which, PageSize, n)
    BY <2>1 DEF Paginate, PageOf, Standing
  <2>3. PageOf(which, PageSize, n) \subseteq which
    BY DEF PageOf
  <2> QED BY <2>2, <2>3
<1> HIDE DEF which, last
<1>6. /\ \A i \in which : \E n \in 1..last : i \in PageOf(which, PageSize, n)
      /\ \A n, m \in 1..last :
            n # m => PageOf(which, PageSize, n) \cap PageOf(which, PageSize, m) = {}
  BY <1>1, <1>2, <1>4, PagesOfOneSize
<1>7. Divides(parts, which)
  <2>1. which = UNION {parts[n] : n \in DOMAIN parts}
    BY <1>5, <1>6
  <2>2. \A n, m \in DOMAIN parts : n # m => parts[n] \cap parts[m] = {}
    BY <1>5, <1>6
  <2> QED BY <2>1, <2>2 DEF Divides
<1> QED BY <1>7 DEF which, last

LEMMA ProfitPagesDivide ==
    ASSUME NEW table, Numbered(table)
    PROVE  Divides([n \in 1..ProfitPages(table) |-> ProfitPaginate(table, n)], DOMAIN table)
<1> DEFINE which == ProfitRows(table, LAMBDA r : ~r.active)
           last == ProfitPages(table)
           parts == [n \in 1..last |-> ProfitPaginate(table, n)]
<1>1. which \in SUBSET Int /\ which \in SUBSET DOMAIN table /\ IsFiniteSet(which)
  <2>1. which \in SUBSET DOMAIN table
    BY DEF ProfitRows
  <2> QED BY <2>1, FS_Subset DEF Numbered
<1>2. ProfitPage \in Nat \ {0}
  BY ProfitAssumption
<1>3. Cardinality(which) \in Nat
  BY <1>1, FS_CardinalityType
<1>4. last \in Nat \ {0} /\ (which # {} => last = LastPage(which, ProfitPage))
  <2>1. last = Max({1, LastPage(which, ProfitPage)})
    BY DEF ProfitPages, LastPage
  <2> HIDE DEF last, which
  <2>2. LastPage(which, ProfitPage) \in Nat
    <3>1. Cardinality(which) + ProfitPage - 1 \in Nat
      BY <1>2, <1>3
    <3> QED BY <1>2, <3>1, QuotientIs DEF LastPage
  <2>3. CASE LastPage(which, ProfitPage) <= 1
    <3>1. last = 1
      <4>1. \A y \in {1, LastPage(which, ProfitPage)} : y <= 1
        BY <2>3
      <4> QED BY <2>1, <2>2, <4>1, MaxIs
    <3>2. ASSUME which # {} PROVE LastPage(which, ProfitPage) = 1
      <4>1. PICK i \in which : TRUE
        BY <3>2
      <4>2. 1..LastPage(which, ProfitPage) # {}
        BY <1>1, <1>2, <4>1, PageOfRow
      <4> QED BY <2>2, <2>3, <4>2
    <3> QED BY <3>1, <3>2
  <2>4. CASE ~(LastPage(which, ProfitPage) <= 1)
    <3>1. \A y \in {1, LastPage(which, ProfitPage)} : y <= LastPage(which, ProfitPage)
      BY <2>2, <2>4
    <3>2. last = LastPage(which, ProfitPage)
      BY <2>1, <2>2, <3>1, MaxIs
    <3> QED BY <2>2, <2>4, <3>2
  <2> QED BY <2>3, <2>4
<1>5. ASSUME NEW n \in 1..last
      PROVE  ProfitPaginate(table, n) =
                IF n = 1 THEN PageOf(which, ProfitPage, n) \cup (DOMAIN table \ which)
                ELSE PageOf(which, ProfitPage, n)
  <2>1. Min({n, last}) = n
    <3> HIDE DEF last
    <3>1. {n, last} \in SUBSET Int /\ n \in {n, last} /\ \A y \in {n, last} : n <= y
      BY <1>4
    <3> QED BY <3>1, MinIs
  <2>2. Max({1, n}) = n
    <3>1. {1, n} \in SUBSET Int /\ n \in {1, n} /\ \A y \in {1, n} : y <= n
      BY <1>4
    <3> QED BY <3>1, MaxIs
  <2> QED BY <2>1, <2>2 DEF ProfitPaginate, PageOf, Standing
<1> HIDE DEF which, last
<1>6. /\ \A i \in which : \E n \in 1..last : i \in PageOf(which, ProfitPage, n)
      /\ \A n, m \in 1..last :
            n # m => PageOf(which, ProfitPage, n) \cap PageOf(which, ProfitPage, m) = {}
  BY <1>1, <1>2, <1>4, PagesOfOneSize
<1>7. \A n : PageOf(which, ProfitPage, n) \subseteq which
  BY DEF PageOf
<1>8. Divides(parts, DOMAIN table)
  <2>1. DOMAIN table = UNION {parts[n] : n \in DOMAIN parts}
    <3>1. UNION {parts[n] : n \in DOMAIN parts} \subseteq DOMAIN table
      BY <1>1, <1>5, <1>7
    <3>2. ASSUME NEW i \in DOMAIN table PROVE \E n \in DOMAIN parts : i \in parts[n]
      <4>1. CASE i \in which
        BY <1>5, <1>6, <4>1
      <4>2. CASE i \notin which
        <5>1. 1 \in 1..last
          BY <1>4
        <5> QED BY <1>5, <4>2, <5>1
      <4> QED BY <4>1, <4>2
    <3> QED BY <3>1, <3>2
  <2>2. \A n, m \in DOMAIN parts : n # m => parts[n] \cap parts[m] = {}
    BY <1>5, <1>6, <1>7
  <2> QED BY <2>1, <2>2 DEF Divides
<1> QED BY <1>8 DEF last

\* The selection with one more choice made.
Choosing(filter, s, o) == [filter EXCEPT ![s] = o]

\* A selector's count, over the rows the other selectors leave, is what choosing the
\* option shows.
LEMMA CountIsShown ==
    ASSUME NEW table, Readable(table), NEW filter, DOMAIN filter = Selector,
           NEW s \in Selector, NEW o \in Options(table, s)
    PROVE  OptionCount(table, filter, s, o) = FilterRows(table, Choosing(filter, s, o))
<1>1. o # All
  <2>1. CASE s = "delivery"
    BY <2>1 DEF Readable, Options, Value
  <2>2. CASE s # "delivery"
    BY <2>2 DEF Options
  <2> QED BY <2>1, <2>2
<1>2. FilterRows(table, [filter EXCEPT ![s] = o]) =
         {i \in DOMAIN table :
            \A t \in Selector \ {s} : filter[t] = All \/ Picks(table[i], t, filter[t])}
            \cap {i \in DOMAIN table : Picks(table[i], s, o)}
  <2>1. \A t \in Selector : [filter EXCEPT ![s] = o][t] = IF t = s THEN o ELSE filter[t]
    OBVIOUS
  <2> DEFINE chosen == [filter EXCEPT ![s] = o]
  <2>2. \A t \in Selector : chosen[t] = IF t = s THEN o ELSE filter[t]
    BY <2>1
  <2> HIDE DEF chosen
  <2>3. FilterRows(table, chosen) =
           {i \in DOMAIN table :
              \A t \in Selector : chosen[t] = All \/ Picks(table[i], t, chosen[t])}
    BY DEF FilterRows, Rows
  <2>4. FilterRows(table, chosen) =
         {i \in DOMAIN table :
            \A t \in Selector \ {s} : filter[t] = All \/ Picks(table[i], t, filter[t])}
            \cap {i \in DOMAIN table : Picks(table[i], s, o)}
    BY <1>1, <2>2, <2>3
  <2> QED BY <2>4 DEF chosen
<1>3. Scoped(table, filter, s) =
         {i \in DOMAIN table :
            \A t \in Selector \ {s} : filter[t] = All \/ Picks(table[i], t, filter[t])}
  <2> DEFINE scope == [filter EXCEPT ![s] = All]
  <2>1. \A t \in Selector : scope[t] = IF t = s THEN All ELSE filter[t]
    OBVIOUS
  <2>2. Scoped(table, filter, s) = FilterRows(table, scope)
    BY DEF Scoped
  <2> HIDE DEF scope
  <2>3. FilterRows(table, scope) =
           {i \in DOMAIN table :
              \A t \in Selector : scope[t] = All \/ Picks(table[i], t, scope[t])}
    BY DEF FilterRows, Rows
  <2> QED BY <2>1, <2>2, <2>3
<1> QED BY <1>2, <1>3 DEF OptionCount, Choosing

\* Two stamps are in one run if neither way meets a gap: the ways compose.
LEMMA WaysCompose ==
    ASSUME NEW stamps \in SUBSET Int, NEW a \in Int, NEW b \in Int, NEW c \in Int,
           Follows(stamps, a, b), Follows(stamps, b, c)
    PROVE  Follows(stamps, a, c)
<1> SUFFICES ASSUME NEW s \in stamps, a <= s, s < c
             PROVE  \E t \in stamps : s < t /\ t - s < RunGap
  BY DEF Follows
<1>1. CASE s < b
  BY <1>1 DEF Follows
<1>2. CASE ~(s < b)
  BY <1>2 DEF Follows
<1> QED BY <1>1, <1>2

\* Runs divide the rows, and each is part of one campaign.
LEMMA RunsDivide ==
    ASSUME NEW table, Readable(table)
    PROVE  /\ UNION Runs(table) = DOMAIN table
           /\ \A run, other \in Runs(table) : run = other \/ run \cap other = {}
           /\ \A run \in Runs(table) : \E c \in Campaigns(table) : run \subseteq c
<1> DEFINE dated(i) == {j \in Campaign(table, i) : table[j].emitted # None}
           stamps(i) == {table[j].emitted : j \in dated(i)}
           at(j) == table[j].emitted
           linked(i, j) == Follows(stamps(i), at(i), at(j)) /\ Follows(stamps(i), at(j), at(i))
           near(i) == {j \in dated(i) : i \in dated(i) /\ linked(i, j)}
<1>1. \A i \in DOMAIN table : RunOf(table, i) = {i} \cup near(i)
  BY DEF RunOf
<1>2. \A i \in DOMAIN table : i \in Campaign(table, i) /\ Campaign(table, i) \subseteq DOMAIN table
  BY DEF Campaign, Rows
<1>3. \A i \in DOMAIN table : \A j \in Campaign(table, i) : Campaign(table, j) = Campaign(table, i)
  BY DEF Campaign, Rows
<1>4. \A i \in DOMAIN table : near(i) \subseteq dated(i) /\ dated(i) \subseteq Campaign(table, i)
  OBVIOUS
<1>5. \A i \in DOMAIN table : i \in dated(i) => at(i) \in Int
  BY <1>2 DEF Readable
\* To be in one run is symmetric and transitive.
<1>6. ASSUME NEW i \in DOMAIN table, NEW j \in near(i)
      PROVE  j \in DOMAIN table /\ near(j) = near(i) /\ i \in near(j)
  <2>1. /\ j \in DOMAIN table /\ dated(j) = dated(i) /\ stamps(j) = stamps(i)
        /\ j \in dated(i) /\ i \in dated(i)
    <3>1. j \in dated(i) /\ i \in dated(i) /\ j \in Campaign(table, i)
      BY <1>4
    <3>2. Campaign(table, j) = Campaign(table, i)
      BY <1>3, <3>1
    <3>3. j \in DOMAIN table
      BY <1>2, <3>1
    <3> QED BY <3>1, <3>2, <3>3
  <2>2. \A k \in dated(i) : at(k) \in Int
    BY <1>2, <1>4 DEF Readable
  <2>3. stamps(i) \in SUBSET Int
    BY <2>2
  <2>4. linked(i, j)
    OBVIOUS
  <2> DEFINE S == stamps(i)
             D == dated(i)
  <2>5. /\ Follows(S, at(i), at(j)) /\ Follows(S, at(j), at(i))
        /\ i \in D /\ j \in D /\ S \in SUBSET Int /\ \A k \in D : at(k) \in Int
    BY <2>1, <2>2, <2>3, <2>4
  <2>6. near(j) = {k \in D : Follows(S, at(j), at(k)) /\ Follows(S, at(k), at(j))}
    BY <2>1
  <2>7. near(i) = {k \in D : Follows(S, at(i), at(k)) /\ Follows(S, at(k), at(i))}
    BY <2>1
  <2> HIDE DEF S, D, at, near
  <2>8. ASSUME NEW k \in D
        PROVE  (Follows(S, at(j), at(k)) /\ Follows(S, at(k), at(j)))
               <=> (Follows(S, at(i), at(k)) /\ Follows(S, at(k), at(i)))
    <3>1. at(k) \in Int /\ at(i) \in Int /\ at(j) \in Int
      BY <2>5
    <3> QED BY <2>5, <3>1, WaysCompose
  <2>9. near(j) = near(i)
    BY <2>6, <2>7, <2>8
  <2>10. i \in near(j)
    BY <2>5, <2>6
  <2> QED BY <2>1, <2>9, <2>10
<1> HIDE DEF near, dated
<1>7. ASSUME NEW i \in DOMAIN table, NEW j \in RunOf(table, i)
      PROVE  j \in DOMAIN table /\ RunOf(table, j) = RunOf(table, i)
  <2>1. CASE j = i
    BY <2>1
  <2>2. CASE j \in near(i)
    <3>1. j \in DOMAIN table /\ near(j) = near(i) /\ i \in near(j) /\ j \in near(j)
      BY <1>6, <2>2
    <3> QED BY <1>1, <3>1
  <2> QED BY <1>1, <2>1, <2>2
<1>8. UNION Runs(table) = DOMAIN table
  <2>1. \A i \in DOMAIN table : i \in RunOf(table, i) /\ RunOf(table, i) \subseteq DOMAIN table
    BY <1>1, <1>7
  <2> QED BY <2>1 DEF Runs
<1>9. \A run, other \in Runs(table) : run = other \/ run \cap other = {}
  <2> SUFFICES ASSUME NEW i \in DOMAIN table, NEW j \in DOMAIN table,
                      RunOf(table, i) \cap RunOf(table, j) # {}
               PROVE  RunOf(table, i) = RunOf(table, j)
    BY DEF Runs
  <2>1. PICK k : k \in RunOf(table, i) /\ k \in RunOf(table, j)
    OBVIOUS
  <2> QED BY <1>7, <2>1
<1>10. \A run \in Runs(table) : \E c \in Campaigns(table) : run \subseteq c
  <2> SUFFICES ASSUME NEW i \in DOMAIN table
               PROVE  \E c \in Campaigns(table) : RunOf(table, i) \subseteq c
    BY DEF Runs
  <2>1. RunOf(table, i) \subseteq Campaign(table, i)
    BY <1>1, <1>2, <1>4
  <2> QED BY <2>1 DEF Campaigns
<1> QED BY <1>8, <1>9, <1>10

\* What it takes to divide a set in two or in four.
LEMMA DividesTwo ==
    ASSUME NEW a, NEW b, NEW whole, whole = a \cup b, a \cap b = {}
    PROVE  Divides(<<a, b>>, whole)
<1> DEFINE parts == <<a, b>>
<1>1. DOMAIN parts = {1, 2} /\ parts[1] = a /\ parts[2] = b
  OBVIOUS
<1> HIDE DEF parts
<1>2. Divides(parts, whole)
  BY <1>1 DEF Divides
<1> QED BY <1>2 DEF parts

LEMMA DividesFour ==
    ASSUME NEW a, NEW b, NEW c, NEW d, NEW whole, whole = a \cup b \cup c \cup d,
           a \cap b = {}, a \cap c = {}, a \cap d = {}, b \cap c = {}, b \cap d = {}, c \cap d = {}
    PROVE  Divides(<<a, b, c, d>>, whole)
<1> DEFINE parts == <<a, b, c, d>>
<1>1. /\ DOMAIN parts = {1, 2, 3, 4}
      /\ parts[1] = a /\ parts[2] = b /\ parts[3] = c /\ parts[4] = d
  OBVIOUS
<1> HIDE DEF parts
<1>2. whole = UNION {parts[k] : k \in DOMAIN parts}
  BY <1>1
<1>3. \A k, l \in DOMAIN parts : k # l => parts[k] \cap parts[l] = {}
  BY <1>1
<1> QED BY <1>2, <1>3 DEF Divides, parts

\* The panels, one by one: each divides the rows it reduces.
LEMMA SummaryDivides ==
    ASSUME NEW table
    PROVE  LET sum == Summarize(table)
           IN /\ DOMAIN table = UNION {sum[p].rows : p \in DOMAIN sum}
              /\ \A p \in DOMAIN sum :
                   Divides(<<sum[p].open, sum[p].partial_window, sum[p].no_walk, sum[p].resolved>>,
                           sum[p].rows)
<1> DEFINE sum == Summarize(table)
           of(p) == Rows(table, LAMBDA r : r.path = p)
           with(p, status) == {i \in of(p) : table[i].status = status}
<1>1. DOMAIN sum = {table[i].path : i \in DOMAIN table}
  BY DEF Summarize
<1>2. ASSUME NEW p \in DOMAIN sum
      PROVE  /\ sum[p].rows = of(p) /\ sum[p].open = with(p, "OPEN")
             /\ sum[p].partial_window = {i \in with(p, "INSUFFICIENT") : table[i].partial}
             /\ sum[p].no_walk = {i \in with(p, "INSUFFICIENT") : ~table[i].partial}
             /\ sum[p].resolved = of(p) \ (with(p, "OPEN") \cup with(p, "INSUFFICIENT"))
  BY <1>1 DEF Summarize
<1>3. \A p : of(p) = {i \in DOMAIN table : table[i].path = p}
  BY DEF Rows
<1> HIDE DEF sum, of
<1>4. DOMAIN table = UNION {sum[p].rows : p \in DOMAIN sum}
  <2>1. \A p \in DOMAIN sum : sum[p].rows \subseteq DOMAIN table
    BY <1>2, <1>3
  <2>2. \A i \in DOMAIN table : table[i].path \in DOMAIN sum /\ i \in sum[table[i].path].rows
    BY <1>1, <1>2, <1>3
  <2> QED BY <2>1, <2>2
<1>5. ASSUME NEW p \in DOMAIN sum
      PROVE  Divides(<<sum[p].open, sum[p].partial_window, sum[p].no_walk, sum[p].resolved>>,
                     sum[p].rows)
  <2>1. "OPEN" # "INSUFFICIENT"
    OBVIOUS
  <2> QED BY <1>2, <2>1, DividesFour
<1> QED BY <1>4, <1>5 DEF sum

LEMMA ReductionsDivide ==
    ASSUME NEW table
    PROVE  /\ Divides(<<ReduceRows(table), ReduceLaneRows(table)>>, DOMAIN table)
           /\ Divides(<<SummarizeOpen(table).unmarked, SummarizeOpen(table).all_marked>>,
                      SummarizeOpen(table).open)
           /\ Divides([b \in Buckets |-> HoldCoverage(table).counts[b]], DOMAIN table)
           /\ Divides(SplitRows(table), DOMAIN table)
           /\ LET arms == AnchorCounts(table)
              IN Divides(<<arms.clean, arms.replayed, arms.suspect, arms.unverified>>, DOMAIN table)
<1>1. Divides(<<ReduceRows(table), ReduceLaneRows(table)>>, DOMAIN table)
  BY DividesTwo DEF ReduceRows, ReduceLaneRows, Rows
<1>2. Divides(<<SummarizeOpen(table).unmarked, SummarizeOpen(table).all_marked>>,
              SummarizeOpen(table).open)
  <2> DEFINE open == Rows(table, LAMBDA r : r.status = "OPEN")
             marked == {i \in open : Marked(table[i])}
  <2>1. /\ SummarizeOpen(table).unmarked = open \ marked
        /\ SummarizeOpen(table).all_marked = marked /\ SummarizeOpen(table).open = open
    BY DEF SummarizeOpen
  <2> HIDE DEF open
  <2> QED BY <2>1, DividesTwo
<1>3. Divides([b \in Buckets |-> HoldCoverage(table).counts[b]], DOMAIN table)
  <2>1. \A b \in Buckets : HoldCoverage(table).counts[b] = {i \in DOMAIN table : Bucket(table[i]) = b}
    BY DEF HoldCoverage
  <2>2. \A i \in DOMAIN table : Bucket(table[i]) \in Buckets
    BY DEF Bucket, Buckets
  <2> DEFINE parts == [b \in Buckets |-> HoldCoverage(table).counts[b]]
  <2>3. DOMAIN parts = Buckets /\ \A b \in Buckets : parts[b] = {i \in DOMAIN table : Bucket(table[i]) = b}
    BY <2>1
  <2> HIDE DEF parts
  <2>4. DOMAIN table = UNION {parts[b] : b \in DOMAIN parts}
    BY <2>2, <2>3
  <2>5. \A a, b \in DOMAIN parts : a # b => parts[a] \cap parts[b] = {}
    BY <2>3
  <2>6. Divides(parts, DOMAIN table)
    BY <2>4, <2>5 DEF Divides
  <2> QED BY <2>6 DEF parts
<1>4. Divides(SplitRows(table), DOMAIN table)
  <2>1. /\ DOMAIN SplitRows(table) = Splits
        /\ \A s \in Splits : SplitRows(table)[s] = {i \in DOMAIN table : SplitOf(table[i]) = s}
    BY DEF SplitRows
  <2>2. \A i \in DOMAIN table : SplitOf(table[i]) \in Splits
    BY DEF SplitOf, Splits
  <2>3. DOMAIN table = UNION {SplitRows(table)[s] : s \in DOMAIN SplitRows(table)}
    BY <2>1, <2>2
  <2>4. \A s, t \in DOMAIN SplitRows(table) : s # t => SplitRows(table)[s] \cap SplitRows(table)[t] = {}
    BY <2>1
  <2> QED BY <2>3, <2>4 DEF Divides
<1>5. LET arms == AnchorCounts(table)
      IN Divides(<<arms.clean, arms.replayed, arms.suspect, arms.unverified>>, DOMAIN table)
  <2> DEFINE of(verdict) == {i \in DOMAIN table : AnchorVerdict(table[i]) = verdict}
  <2>1. /\ AnchorCounts(table).clean = of("clean") /\ AnchorCounts(table).replayed = of("replayed")
        /\ AnchorCounts(table).suspect = of("suspect")
        /\ AnchorCounts(table).unverified = of("unverified")
    BY DEF AnchorCounts, SarRows
  <2>2. \A i \in DOMAIN table : AnchorVerdict(table[i]) \in {"clean", "replayed", "suspect", "unverified"}
    BY DEF AnchorVerdict
  <2>3. Divides(<<of("clean"), of("replayed"), of("suspect"), of("unverified")>>, DOMAIN table)
    <3>1. DOMAIN table = of("clean") \cup of("replayed") \cup of("suspect") \cup of("unverified")
      BY <2>2
    <3> QED BY <3>1, DividesFour
  <2> QED BY <2>1, <2>3
<1> QED BY <1>1, <1>2, <1>3, <1>4, <1>5

LEMMA ComparedOrExcluded ==
    ASSUME NEW table
    PROVE  LET compared == CompareStrategies(table)
           IN DOMAIN table = compared.paired
                \cup UNION {compared.excluded[r] : r \in DOMAIN compared.excluded}
<1> DEFINE why == {Excluded(table[i]) : i \in DOMAIN table} \ {""}
<1>1. /\ CompareStrategies(table).paired = Paired(table)
      /\ CompareStrategies(table).excluded =
            [reason \in why |-> {i \in DOMAIN table : Excluded(table[i]) = reason}]
  BY DEF CompareStrategies
<1>2. Paired(table) = {i \in DOMAIN table : Excluded(table[i]) = ""}
  BY DEF Paired
<1> DEFINE paired == CompareStrategies(table).paired
           excluded == CompareStrategies(table).excluded
<1>3. /\ DOMAIN excluded = why
      /\ \A r \in why : excluded[r] = {i \in DOMAIN table : Excluded(table[i]) = r}
  BY <1>1
<1>4. paired = {i \in DOMAIN table : Excluded(table[i]) = ""}
  BY <1>1, <1>2
<1>5. \A i \in DOMAIN table : Excluded(table[i]) # "" => Excluded(table[i]) \in why
  OBVIOUS
<1> HIDE DEF paired, excluded, why
<1>6. \A i \in DOMAIN table : i \in paired \/ \E r \in DOMAIN excluded : i \in excluded[r]
  BY <1>3, <1>4, <1>5
<1>7. paired \subseteq DOMAIN table /\ \A r \in DOMAIN excluded : excluded[r] \subseteq DOMAIN table
  BY <1>3, <1>4
<1>8. DOMAIN table = paired \cup UNION {excluded[r] : r \in DOMAIN excluded}
  BY <1>6, <1>7
<1> QED BY <1>8 DEF paired, excluded

\* Rows counted by state: the promoted ones are those of a named promoted state and
\* those of one this build has no name for.
LEMMA DeliveriesAddUp ==
    ASSUME NEW table, Readable(table)
    PROVE  LET lanes == DeliverySplit(table)
               count(states) == Cardinality(InState(table, states))
           IN /\ lanes.promoted + count({"dark", "unstamped"})
                 + Cardinality({i \in DOMAIN table : /\ table[i].delivery \notin Named
                                                     /\ ~Promoted(table[i].delivery)})
                   = Cardinality(DOMAIN table)
              /\ lanes.awaiting = count({"promoted_enqueued"})
<1> DEFINE state(i) == table[i].delivery
           all == DOMAIN table
           promoted == PromotedRows(table)
           quiet == InState(table, {"dark", "unstamped"})
           other == {i \in all : state(i) \notin Named /\ ~Promoted(state(i))}
           unnamed == {i \in promoted : state(i) \notin Named}
           queued == InState(table, {"promoted_enqueued"})
           sent == InState(table, {"promoted_delivered"})
           dropped == InState(table, {"promoted_dropped"})
<1>1. /\ DeliverySplit(table).promoted = Cardinality(promoted)
      /\ DeliverySplit(table).awaiting =
            Cardinality(promoted) - Cardinality(sent) - Cardinality(dropped) - Cardinality(unnamed)
  BY DEF DeliverySplit
<1>2. \A i \in all : /\ i \in promoted <=> Promoted(state(i))
                     /\ i \in quiet <=> state(i) \in {"dark", "unstamped"}
                     /\ i \in queued <=> state(i) = "promoted_enqueued"
                     /\ i \in sent <=> state(i) = "promoted_delivered"
                     /\ i \in dropped <=> state(i) = "promoted_dropped"
  BY DEF PromotedRows, InState
<1>3. /\ promoted \in SUBSET all /\ quiet \in SUBSET all /\ other \in SUBSET all
      /\ unnamed \in SUBSET promoted
      /\ queued \in SUBSET all /\ sent \in SUBSET all /\ dropped \in SUBSET all
  BY DEF PromotedRows, InState
<1>4. /\ all = (promoted \cup quiet) \cup other
      /\ promoted \cap quiet = {} /\ (promoted \cup quiet) \cap other = {}
  BY <1>2, <1>3 DEF Promoted, Named, NamedPromoted
<1>5. /\ promoted = ((queued \cup sent) \cup dropped) \cup unnamed
      /\ queued \cap sent = {} /\ (queued \cup sent) \cap dropped = {}
      /\ ((queued \cup sent) \cup dropped) \cap unnamed = {}
  BY <1>2, <1>3 DEF Promoted, Named, NamedPromoted
<1> HIDE DEF promoted, quiet, other, unnamed, queued, sent, dropped, all
<1>6. IsFiniteSet(all)
  BY DEF Readable, Numbered, all
<1>7. \A S \in SUBSET all : IsFiniteSet(S) /\ Cardinality(S) \in Nat
  BY <1>6, FS_Subset, FS_CardinalityType
<1>8. \A S, T \in SUBSET all :
         S \cap T = {} => Cardinality(S \cup T) = Cardinality(S) + Cardinality(T)
  <2> SUFFICES ASSUME NEW S \in SUBSET all, NEW T \in SUBSET all, S \cap T = {}
               PROVE  Cardinality(S \cup T) = Cardinality(S) + Cardinality(T)
    OBVIOUS
  <2>1. Cardinality(S \cup T) = Cardinality(S) + Cardinality(T) - Cardinality(S \cap T)
    BY <1>7, FS_Union
  <2>2. Cardinality(S \cap T) = 0
    BY FS_EmptySet
  <2> QED BY <1>7, <2>1, <2>2
<1>9. Cardinality(all) = Cardinality(promoted) + Cardinality(quiet) + Cardinality(other)
  <2>1. promoted \cup quiet \in SUBSET all
    BY <1>3
  <2> QED BY <1>3, <1>4, <1>8, <2>1
<1>10. Cardinality(promoted) = Cardinality(queued) + Cardinality(sent) + Cardinality(dropped)
                               + Cardinality(unnamed)
  <2>1. queued \cup sent \in SUBSET all /\ (queued \cup sent) \cup dropped \in SUBSET all
        /\ unnamed \in SUBSET all
    BY <1>3
  <2>2. Cardinality(promoted) = Cardinality((queued \cup sent) \cup dropped) + Cardinality(unnamed)
    BY <1>5, <1>8, <2>1
  <2>3. Cardinality((queued \cup sent) \cup dropped) = Cardinality(queued \cup sent) + Cardinality(dropped)
    BY <1>3, <1>5, <1>8, <2>1
  <2>4. Cardinality(queued \cup sent) = Cardinality(queued) + Cardinality(sent)
    BY <1>3, <1>5, <1>8
  <2> QED BY <2>2, <2>3, <2>4
<1>11. DeliverySplit(table).awaiting = Cardinality(queued)
  <2>1. unnamed \in SUBSET all
    BY <1>3
  <2> QED BY <1>1, <1>3, <1>7, <1>10, <2>1
<1> QED BY <1>1, <1>9, <1>11 DEF all, quiet, other, queued

------------------------------------------------------------------------------
\* What is sampled of a trade, a chart or a table is what the constants allow.
Sampled ==
    /\ part = "trade" => sample \in Seq(Bars)
    /\ part = "chart" => sample \in Seq(ChartBars)
    /\ part = "table" => sample \in Seq(RowChoices)

LEMMA SamplesStart == Init => Sampled
BY DEF Init, Sampled

LEMMA SamplesGrow ==
    ASSUME Sampled, [Next]_measuresVars PROVE Sampled'
<1>1. CASE Grow
  BY <1>1, AppendProperties DEF Grow, Sampled
<1>2. CASE FetchCandles \/ ProbeBox \/ RunLoop \/ UNCHANGED measuresVars
  <2>1. UNCHANGED <<part, sample>>
    BY <1>2 DEF FetchCandles, ProbeBox, RunLoop, measuresVars
  <2> QED BY <2>1 DEF Sampled
<1> QED BY <1>1, <1>2 DEF Next

LEMMA SamplesAreRows == Spec => []Sampled
<1>1. Sampled /\ [Next]_measuresVars => Sampled'
  BY SamplesGrow
<1> QED BY <1>1, SamplesStart, PTL DEF Spec

LEMMA SampleReadable ==
    ASSUME Sampled, part = "table"
    PROVE  Readable(sample) /\ Cardinality(DOMAIN sample) = Len(sample)
<1>1. sample \in Seq(RowChoices)
  BY DEF Sampled
<1>2. /\ DOMAIN sample = 1..Len(sample) /\ Len(sample) \in Nat
      /\ \A i \in DOMAIN sample : sample[i] \in RowChoices
  BY <1>1
<1>3. IsFiniteSet(1..Len(sample)) /\ Cardinality(1..Len(sample)) = Len(sample)
  BY <1>2, FS_Interval
<1> QED BY <1>2, <1>3, SampleAssumption DEF Readable, Numbered

\* Whichever window is chosen and whenever the page is opened, a day it shows is the
\* whole of that day and is not marked as cut.
THEOREM DaysShownAreWhole == Spec => []DaysAreWhole
<1>1. Sampled => DaysAreWhole
  <2> SUFFICES ASSUME Sampled, part = "table", NEW moment \in Moments, NEW range \in Windows(moment)
               PROVE  LET chosen == TradeRows(sample, LAMBDA r : r.closed <= moment)
                          shown == {i \in chosen : InRange(sample[i].closed, range)}
                          days == BucketRows(sample, shown, "day", range, moment)
                      IN \A day \in DOMAIN days :
                            /\ days[day].complete.partial # "window_cut"
                            /\ days[day].summary.rows =
                                  {i \in chosen : sample[i].closed # Undated
                                                  /\ BucketKey(sample[i].closed, "day") = day}
    BY DEF DaysAreWhole
  <2> DEFINE chosen == TradeRows(sample, LAMBDA r : r.closed <= moment)
  <2>1. chosen \in SUBSET DOMAIN sample
    BY DEF TradeRows
  <2>2. moment \in Nat /\ Readable(sample)
    BY SampleAssumption, SampleReadable
  <2> HIDE DEF chosen
  <2>3. \A day \in DOMAIN DaysOf(sample, chosen, range, moment) :
           /\ DaysOf(sample, chosen, range, moment)[day].complete.partial # "window_cut"
           /\ DaysOf(sample, chosen, range, moment)[day].summary.rows =
                 {i \in chosen : sample[i].closed # Undated
                                 /\ BucketKey(sample[i].closed, "day") = day}
    BY <2>1, <2>2, DaysOfTable
  <2> QED BY <2>3 DEF DaysOf, chosen
<1> QED BY <1>1, SamplesAreRows, PTL

\* The most money a book is said to need is what was really out at one instant: of a
\* close and an open of one instant, the close makes room first.
THEOREM PeakWasOpen == Spec => []PeakIsFunded
<1>1. Sampled => PeakIsFunded
  <2> SUFFICES ASSUME Sampled, part = "table"
               PROVE  PeakConcurrency(sample).peak =
                         Max({0} \cup {Cardinality(OpenAt(sample, sample[i].opened)) :
                                          i \in Spanned(sample)})
    BY DEF PeakIsFunded, OpenAt
  <2> QED BY SampleReadable, SweepFindsThePeak
<1> QED BY <1>1, SamplesAreRows, PTL

\* Every row is accounted for: in what a selector counts, once in each panel, and on
\* one page.
LEMMA EverySelectionCounts == ASSUME Readable(sample) PROVE CountsAreShown
<1>1. ASSUME NEW filter \in Filters PROVE DOMAIN filter = Selector
  <2>1. CASE filter \in [Selector -> {All}]
    BY <2>1
  <2>2. CASE filter \notin [Selector -> {All}]
    <3>1. PICK s \in Selector, t \in Selector :
             filter \in {[NoFilter EXCEPT ![s] = o, ![t] = p] :
                           o \in Options(sample, s), p \in Options(sample, t) \cup {All}}
      BY <2>2 DEF Filters
    <3>2. PICK o, p : filter = [NoFilter EXCEPT ![s] = o, ![t] = p]
      BY <3>1
    <3>3. DOMAIN NoFilter = Selector
      BY DEF NoFilter
    <3> QED BY <3>2, <3>3
  <2> QED BY <2>1, <2>2
<1>2. SUFFICES ASSUME NEW filter \in Filters, NEW s \in Selector, NEW o \in Options(sample, s)
               PROVE  OptionCount(sample, filter, s, o)
                         = FilterRows(sample, [filter EXCEPT ![s] = o])
  BY Zenon DEF CountsAreShown
<1>3. DOMAIN filter = Selector
  BY <1>1, Zenon
<1>4. OptionCount(sample, filter, s, o) = FilterRows(sample, Choosing(filter, s, o))
  BY <1>3, CountIsShown
<1> QED BY <1>4 DEF Choosing

LEMMA EveryPanelDivides ==
    ASSUME Readable(sample), Cardinality(DOMAIN sample) = Len(sample)
    PROVE  PanelsDivide
BY SummaryDivides, ReductionsDivide, ComparedOrExcluded, RunsDivide, DeliveriesAddUp
   DEF PanelsDivide

LEMMA EveryPageDivides == ASSUME Readable(sample) PROVE PagesDivide
BY DarkPagesDivide, ProfitPagesDivide DEF PagesDivide, Readable

\* No row of the file disappears between the panels that count it, whatever states,
\* paths, stamps and page sizes there are.
THEOREM RowsAreAccountedFor == Spec => []NoRowIsLost
<1>1. Sampled => NoRowIsLost
  BY SampleReadable, EverySelectionCounts, EveryPanelDivides, EveryPageDivides DEF NoRowIsLost
<1> QED BY <1>1, SamplesAreRows, PTL
=============================================================================
