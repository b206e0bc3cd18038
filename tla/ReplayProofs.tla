---------------------------- MODULE ReplayProofs -----------------------------
(***************************************************************************)
(* Proofs about what the replay pages make of a trade and of a chart: for    *)
(* any stop, targets and bars, a counterfactual says of a trade what its     *)
(* bars say, or less, and the SAR stop of a bar is made of the bars before   *)
(* it.                                                                       *)
(***************************************************************************)
EXTENDS MeasureProofs

\* The bars of a sampled trade.
Traded == sample \in Seq(Bars)

LEMMA TradedBars ==
    ASSUME Traded
    PROVE  /\ DOMAIN sample = 1..Len(sample) /\ Len(sample) \in Nat
           /\ IsFiniteSet(DOMAIN sample)
           /\ \A i \in DOMAIN sample :
                 /\ sample[i].low \in Int /\ sample[i].high \in Int /\ sample[i].close \in Int
                 /\ sample[i].low <= sample[i].close /\ sample[i].close <= sample[i].high
                 /\ sample[i].close # None
<1>1. /\ DOMAIN sample = 1..Len(sample) /\ Len(sample) \in Nat
      /\ \A i \in DOMAIN sample : sample[i] \in Bars
  BY DEF Traded
<1>2. IsFiniteSet(1..Len(sample))
  BY <1>1, FS_Interval
<1>3. \A b \in Bars : /\ b.low \in Int /\ b.high \in Int /\ b.close \in Int
                      /\ b.low <= b.close /\ b.close <= b.high /\ b.close # None
  BY BarAssumption
<1> QED BY <1>1, <1>2, <1>3

\* A set of indices that is not empty has a first.
LEMMA FirstIs ==
    ASSUME NEW S \in SUBSET Nat, S # {}
    PROVE  Min(S) \in S /\ \A i \in S : Min(S) <= i
<1>1. PICK k \in S : \A i \in S : k <= i
  BY HasLeast
<1>2. Min(S) = k
  BY <1>1, MinIs
<1> QED BY <1>1, <1>2

\* Some bar of the trade touches the stop.
Hit == \E i \in DOMAIN sample : sample[i].low <= Stop

LEMMA LastBarIs ==
    ASSUME Traded
    PROVE  /\ LastBar \in 1..(Len(sample) + 1)
           /\ LastBar <= Len(sample) <=> Hit
           /\ Hit => LastBar = Min({i \in DOMAIN sample : sample[i].low <= Stop})
<1> DEFINE S == {i \in DOMAIN sample : sample[i].low <= Stop}
<1>1. LastBar = IF S = {} THEN Len(sample) + 1 ELSE Min(S)
  BY DEF LastBar, FirstOf
<1>2. S \in SUBSET Nat /\ S \in SUBSET (1..Len(sample)) /\ Len(sample) \in Nat
  BY TradedBars
<1>3. Hit <=> S # {}
  BY DEF Hit
<1> HIDE DEF S
<1>4. S # {} => Min(S) \in 1..Len(sample)
  BY <1>2, FirstIs
<1>5. CASE S = {}
  BY <1>1, <1>2, <1>3, <1>5
<1>6. CASE S # {}
  <2>1. LastBar \in 1..Len(sample)
    BY <1>1, <1>4, <1>6
  <2> QED BY <1>1, <1>2, <1>3, <1>6, <2>1 DEF S
<1> QED BY <1>5, <1>6

\* The greatest of some figures and zero reaches a positive one if some figure does.
LEMMA GreatestReaches ==
    ASSUME NEW V \in SUBSET Int, IsFiniteSet(V)
    PROVE  /\ Max({0} \cup V) \in Nat
           /\ \A x \in Nat \ {0} : Max({0} \cup V) >= x <=> \E v \in V : v >= x
<1>1. IsFiniteSet({0} \cup V)
  BY FS_AddElement
<1>2. PICK m \in {0} \cup V : \A v \in {0} \cup V : v <= m
  BY <1>1, HasGreatest
<1>3. Max({0} \cup V) = m
  BY <1>2, MaxIs
<1>4. m \in Int /\ m >= 0
  BY <1>2
<1>5. ASSUME NEW x \in Nat \ {0} PROVE m >= x <=> \E v \in V : v >= x
  BY <1>2, <1>4
<1> QED BY <1>3, <1>4, <1>5

LEMMA HighestReaches ==
    ASSUME NEW V \in SUBSET Int, IsFiniteSet(V)
    PROVE  /\ Highest(V) \in Nat
           /\ \A x \in Nat \ {0} : Highest(V) >= x <=> \E v \in V : v >= x
<1>1. CASE V = {}
  BY <1>1 DEF Highest
<1>2. CASE V # {}
  <2>1. V \cup {0} = {0} \cup V
    OBVIOUS
  <2>2. Highest(V) = Max({0} \cup V)
    BY <1>2, <2>1 DEF Highest
  <2> QED BY <2>2, GreatestReaches
<1> QED BY <1>1, <1>2

\* The highest target a set of prices reached.
LEMMA LevelReached ==
    ASSUME NEW V \in SUBSET Int
    PROVE  LET hit == Max({0} \cup {k \in Level : \E v \in V : v >= Tp(k)})
           IN  /\ hit \in Nat
               /\ \A k \in Level : hit >= k <=> \E v \in V : v >= Tp(k)
<1> DEFINE S == {k \in Level : \E v \in V : v >= Tp(k)}
           hit == Max({0} \cup S)
<1>1. Tp(1) \in Nat \ {0} /\ Tp(2) \in Nat \ {0} /\ Tp(3) \in Nat \ {0}
      /\ Tp(1) <= Tp(2) /\ Tp(2) <= Tp(3)
  BY ExitSimAssumption DEF Level, Tp
<1>2. \A j, k \in Level : j <= k => Tp(j) <= Tp(k)
  BY <1>1 DEF Level
<1>3. \A j, k \in Level : j <= k /\ k \in S => j \in S
  BY <1>1, <1>2 DEF Level
<1>4. S \in SUBSET (1..3) /\ S \in SUBSET Int
  BY DEF Level
<1> HIDE DEF S
<1>5. IsFiniteSet(S)
  <2>1. \A m \in Nat : IsFiniteSet(1..m)
    BY FS_Interval
  <2>2. IsFiniteSet(1..3)
    BY <2>1
  <2> QED BY <1>4, <2>2, FS_Subset
<1>6. hit \in Nat /\ \A k \in Nat \ {0} : hit >= k <=> \E j \in S : j >= k
  BY <1>4, <1>5, GreatestReaches
<1>7. \A k \in Level : hit >= k <=> k \in S
  BY <1>3, <1>4, <1>6 DEF Level
<1> QED BY <1>6, <1>7 DEF S

\* The prices of the bars, or of some of them.
Prices(S, f) == {sample[i][f] : i \in S}

LEMMA PricesAre ==
    ASSUME Traded, NEW S \in SUBSET DOMAIN sample, NEW f \in {"low", "high"}
    PROVE  Prices(S, f) \in SUBSET Int /\ IsFiniteSet(Prices(S, f))
<1> DEFINE g == [i \in S |-> sample[i][f]]
<1>1. Prices(S, f) \in SUBSET Int
  BY TradedBars DEF Prices
<1>2. IsFiniteSet(S)
  BY TradedBars, FS_Subset
<1>3. g = [i \in S |-> g[i]] /\ Prices(S, f) = {g[i] : i \in S}
  BY DEF Prices
<1> HIDE DEF g
<1> QED BY <1>1, <1>2, <1>3, FiniteRange

\* The engine's record of the trade, as the sums and orders the replay reads off it.
LEMMA RecordSays ==
    ASSUME Traded, NEW stamped \in BOOLEAN, NEW flagged \in BOOLEAN
    PROVE  LET row == EngineRow(stamped, flagged)
           IN  /\ row.levels = Level
               /\ StopHit(row) <=> Hit
               /\ SlReturn(row) = Stop
               /\ row.mfe \in Nat
               /\ \A x \in Nat \ {0} : row.mfe >= x <=> Touched(x, Len(sample))
               /\ row.hit_tp \in Nat
               /\ \A k \in Level : row.hit_tp >= k <=> Touched(Tp(k), Len(sample))
               /\ row.tp_touch # None /\ row.sl_touch # None /\ row.tp_touch <= row.sl_touch
                     => (Hit => Touched(Tp(1), LastBar))
               /\ row.pnl \in Int /\ row.pnl # None
               /\ ~Hit => row.pnl = ReplayTail
<1> DEFINE row == EngineRow(stamped, flagged)
           n == Len(sample)
           all == DOMAIN sample
<1>1. /\ row.levels = Level /\ row.original_sl = Stop
      /\ row.hit_sl = IF flagged THEN IF LastBar <= n THEN "yes" ELSE "no" ELSE "unknown"
      /\ row.mae = Max({0} \cup {-low : low \in Lows}) /\ row.mfe = Highest(Highs)
      /\ row.hit_tp = Max({0} \cup {k \in Level : \E high \in Highs : high >= Tp(k)})
      /\ row.pnl = IF sample = <<>> THEN 0 ELSE sample[n].close
      /\ row.stop_loss = 0 /\ row.sl = None
  BY DEF EngineRow
<1>2. row.tp_touch = IF stamped THEN LET at == {i \in all : sample[i].high >= Tp(1)}
                                     IN IF at = {} THEN None ELSE Min(at)
                     ELSE None
  BY DEF EngineRow, FirstTouch
<1>3. row.sl_touch = IF stamped THEN LET at == {i \in all : sample[i].low <= Stop}
                                     IN IF at = {} THEN None ELSE Min(at)
                     ELSE None
  BY DEF EngineRow, FirstTouch
<1> HIDE DEF row
<1>4. /\ all = 1..n /\ n \in Nat
      /\ \A i \in all : sample[i].low \in Int /\ sample[i].high \in Int /\ sample[i].close \in Int
                        /\ sample[i].close # None
  BY TradedBars
<1>5. SlReturn(row) = Stop
  <2> DEFINE stops == <<row.original_sl, row.stop_loss, row.sl>>
             known == {i \in 1..3 : stops[i] # None}
  <2>1. stops[1] = Stop /\ Stop # None
    BY <1>1, ExitSimAssumption
  <2>2. known \in SUBSET Int /\ 1 \in known /\ \A i \in known : 1 <= i
    BY <2>1
  <2>3. OriginalStop(row) = IF known = {} THEN None ELSE stops[Min(known)]
    BY DEF OriginalStop
  <2> HIDE DEF known, stops
  <2>4. Min(known) = 1
    BY <2>2, MinIs
  <2> QED BY <2>1, <2>2, <2>3, <2>4 DEF SlReturn
<1>6. Highs = Prices(all, "high") /\ Lows = Prices(all, "low")
  BY DEF Highs, Lows, Prices
<1>7. /\ Highs \in SUBSET Int /\ IsFiniteSet(Highs) /\ Lows \in SUBSET Int /\ IsFiniteSet(Lows)
  BY <1>6, PricesAre
<1>8. \A x : (\E high \in Highs : high >= x) <=> Touched(x, n)
  BY <1>4, <1>6 DEF Prices, Touched
<1>9. StopHit(row) <=> Hit
  <2> DEFINE depth == [low \in Lows |-> -low]
             depths == {depth[low] : low \in Lows}
  <2>1. depth = [low \in Lows |-> depth[low]] /\ {-low : low \in Lows} = depths
    OBVIOUS
  <2>2. depths \in SUBSET Int
    BY <1>7
  <2>3. (\E d \in depths : d >= -Stop) <=> \E low \in Lows : low <= Stop
    BY <1>7, ExitSimAssumption
  <2>4. (\E low \in Lows : low <= Stop) <=> Hit
    BY <1>6 DEF Prices, Hit
  <2> HIDE DEF depth
  <2>5. IsFiniteSet(depths)
    BY <1>7, <2>1, FiniteRange
  <2> HIDE DEF depths
  <2>6. -Stop \in Nat \ {0}
    BY ExitSimAssumption
  <2>7. row.mae \in Nat /\ (row.mae >= -Stop <=> Hit)
    BY <1>1, <2>1, <2>2, <2>3, <2>4, <2>5, <2>6, GreatestReaches
  <2>8. row.mae # None
    BY <2>7 DEF None
  <2>9. LastBar <= n <=> Hit
    BY LastBarIs
  <2> QED BY <1>1, <1>5, <2>7, <2>8, <2>9 DEF StopHit
<1>10. row.mfe \in Nat /\ \A x \in Nat \ {0} : row.mfe >= x <=> Touched(x, n)
  BY <1>1, <1>7, <1>8, HighestReaches
<1>11. row.hit_tp \in Nat /\ \A k \in Level : row.hit_tp >= k <=> Touched(Tp(k), n)
  BY <1>1, <1>7, <1>8, LevelReached
<1>12. ASSUME row.tp_touch # None, row.sl_touch # None, row.tp_touch <= row.sl_touch, Hit
       PROVE  Touched(Tp(1), LastBar)
  <2> DEFINE tps == {i \in all : sample[i].high >= Tp(1)}
             sls == {i \in all : sample[i].low <= Stop}
  <2>1. row.tp_touch = Min(tps) /\ tps # {} /\ row.sl_touch = Min(sls)
    BY <1>2, <1>3, <1>12
  <2>2. row.sl_touch = LastBar
    BY <1>12, <2>1, LastBarIs
  <2>3. tps \in SUBSET Nat
    BY <1>4
  <2> HIDE DEF tps, sls
  <2>4. Min(tps) \in tps
    BY <2>1, <2>3, FirstIs
  <2> QED BY <1>12, <2>1, <2>2, <2>4 DEF tps, Touched
<1>13. row.pnl \in Int /\ row.pnl # None
  <2>1. sample # <<>> => n \in all
    BY <1>4
  <2> QED BY <1>1, <1>4, <2>1 DEF None
<1>14. ~Hit => row.pnl = ReplayTail
  BY <1>1, LastBarIs DEF ReplayTail
<1> QED BY <1>1, <1>5, <1>9, <1>10, <1>11, <1>12, <1>13, <1>14 DEF row

\* A leg's target is one of the levels or the fixed one.
LEMMA LadderLegs ==
    \A key \in DOMAIN Catalog : \A i \in DOMAIN Catalog[key] :
        \/ Catalog[key][i].kind = "level" /\ Catalog[key][i].value \in Level
        \/ Catalog[key][i].kind = "fixed" /\ Catalog[key][i].value = FixedPct
<1> SUFFICES ASSUME NEW key \in DOMAIN Catalog, NEW i \in DOMAIN Catalog[key]
             PROVE  \/ Catalog[key][i].kind = "level" /\ Catalog[key][i].value \in Level
                    \/ Catalog[key][i].kind = "fixed" /\ Catalog[key][i].value = FixedPct
  OBVIOUS
<1>1. key \in {"tp1", "be_tp1", "flat", "tp1_tp2", "flat_tp1", "tp1_tp2_tp3"}
  BY DEF Catalog
<1>2. CASE key = "tp1" \/ key = "be_tp1"
  BY <1>2 DEF Catalog, ForLevel, Level
<1>3. CASE key = "flat"
  BY <1>3 DEF Catalog, ForFixed
<1>4. CASE key = "tp1_tp2"
  BY <1>4 DEF Catalog, ForLevel, Level
<1>5. CASE key = "flat_tp1"
  BY <1>5 DEF Catalog, ForLevel, ForFixed, Level
<1>6. CASE key = "tp1_tp2_tp3"
  BY <1>6 DEF Catalog, ForLevel, Level
<1> QED BY <1>1, <1>2, <1>3, <1>4, <1>5, <1>6


\* A leg filled by the record is one the replay believes in; without a stop the legs
\* filled by the record are those it believes in.
Trusted(leg) ==
    \/ Touched(Aim(leg), LastBar)
    \/ Aim(leg) > Tp(1) /\ Touched(Tp(1), LastBar) /\ Touched(Aim(leg), Len(sample))

LEMMA LegFills ==
    ASSUME Traded, NEW stamped \in BOOLEAN, NEW flagged \in BOOLEAN, NEW leg,
           \/ leg.kind = "level" /\ leg.value \in Level
           \/ leg.kind = "fixed" /\ leg.value = FixedPct
    PROVE  LET row == EngineRow(stamped, flagged)
               first == TargetBeforeStop(row, Reached(row, leg), Near(row, leg))
           IN  /\ first => Trusted(leg)
               /\ ~Hit => (first <=> Trusted(leg))
               /\ LegReturn(row, leg) = Aim(leg) /\ Aim(leg) \in Nat \ {0}
<1> DEFINE row == EngineRow(stamped, flagged)
           first == TargetBeforeStop(row, Reached(row, leg), Near(row, leg))
<1>1. /\ row.levels = Level /\ (StopHit(row) <=> Hit)
      /\ row.mfe \in Nat /\ \A x \in Nat \ {0} : row.mfe >= x <=> Touched(x, Len(sample))
      /\ row.hit_tp \in Nat /\ \A k \in Level : row.hit_tp >= k <=> Touched(Tp(k), Len(sample))
      /\ row.tp_touch # None /\ row.sl_touch # None /\ row.tp_touch <= row.sl_touch
            => (Hit => Touched(Tp(1), LastBar))
  BY RecordSays
<1> HIDE DEF row
<1>2. /\ FixedPct \in Nat \ {0} /\ 1 \in Level
      /\ \A k \in Level : Tp(k) \in Nat \ {0}
  BY ExitSimAssumption DEF Tp, Level
<1>3. \/ leg.kind = "level" /\ leg.value \in Level /\ Aim(leg) = Tp(leg.value)
      \/ leg.kind = "fixed" /\ leg.value = FixedPct /\ Aim(leg) = FixedPct
  BY DEF Aim
<1>4. Aim(leg) \in Nat \ {0}
  BY <1>2, <1>3
<1>5. Reached(row, leg) <=> Touched(Aim(leg), Len(sample))
  <2>1. row.mfe # None
    BY <1>1 DEF None
  <2>2. CASE leg.kind = "fixed" /\ leg.value = FixedPct /\ Aim(leg) = FixedPct
    BY <1>1, <1>2, <2>1, <2>2 DEF Reached
  <2>3. CASE leg.kind = "level" /\ leg.value \in Level /\ Aim(leg) = Tp(leg.value)
    BY <1>1, <1>2, <2>1, <2>3 DEF Reached
  <2> QED BY <1>3, <2>2, <2>3
<1>6. Aim(leg) <= Tp(1) => \A last : Touched(Tp(1), last) => Touched(Aim(leg), last)
  BY <1>2, <1>4, TradedBars DEF Touched
<1>7. ~Hit => \A x : Touched(x, Len(sample)) <=> Touched(x, LastBar)
  <2> SUFFICES ASSUME ~Hit PROVE \A x : Touched(x, Len(sample)) <=> Touched(x, LastBar)
    OBVIOUS
  <2>1. LastBar = Len(sample) + 1
    BY LastBarIs, TradedBars
  <2> QED BY <2>1, TradedBars DEF Touched
<1>8. first => Touched(Aim(leg), Len(sample)) /\ (Hit => Touched(Tp(1), LastBar))
  BY <1>1, <1>5 DEF TargetBeforeStop
<1>9. first => Trusted(leg)
  BY <1>2, <1>4, <1>6, <1>7, <1>8 DEF Trusted
<1>10. ~Hit => (first <=> Trusted(leg))
  BY <1>1, <1>5, <1>7, <1>9 DEF TargetBeforeStop, Trusted
<1>11. LegReturn(row, leg) = Aim(leg)
  BY <1>1, <1>2, <1>3 DEF LegReturn, TpReturn
<1> QED BY <1>4, <1>9, <1>10, <1>11 DEF row

\* What a ladder makes of a trade, some legs filled and the rest at the tail.
Worth(legs, which, tail) ==
    Over([i \in which |-> legs[i].share * Aim(legs[i])]) + (Whole - Share(legs, which)) * tail


\* A ladder of one leg, and one of two halves, price each share at its aim or at the tail.
LEMMA OneLegWorth ==
    ASSUME NEW leg, leg.share = 6, Aim(leg) \in Int, NEW tail \in Int, NEW A \in SUBSET {1}
    PROVE  Worth(<<leg>>, A, tail) = IF 1 \in A THEN 6 * Aim(leg) ELSE 6 * tail
<1> DEFINE legs == <<leg>>
<1>1. legs[1] = leg /\ 2 \notin A /\ 3 \notin A
  OBVIOUS
<1>2. Over([i \in A |-> legs[i].share * Aim(legs[i])]) = IF 1 \in A THEN 6 * Aim(leg) ELSE 0
  BY <1>1 DEF Over, Level
<1>3. Share(legs, A) = IF 1 \in A THEN 6 ELSE 0
  BY <1>1 DEF Share, Over, Level
<1> HIDE DEF legs
<1>4. Worth(legs, A, tail) = (IF 1 \in A THEN 6 * Aim(leg) ELSE 0)
                             + (6 - (IF 1 \in A THEN 6 ELSE 0)) * tail
  BY <1>2, <1>3 DEF Worth, Whole
<1>5. CASE 1 \in A
  BY <1>4, <1>5 DEF legs
<1>6. CASE 1 \notin A
  BY <1>4, <1>6 DEF legs
<1> QED BY <1>5, <1>6

LEMMA TwoLegsWorth ==
    ASSUME NEW one, NEW two, one.share = 3, two.share = 3, Aim(one) \in Int, Aim(two) \in Int,
           NEW tail \in Int, NEW A \in SUBSET {1, 2}
    PROVE  Worth(<<one, two>>, A, tail) =
              3 * (IF 1 \in A THEN Aim(one) ELSE tail) + 3 * (IF 2 \in A THEN Aim(two) ELSE tail)
<1> DEFINE legs == <<one, two>>
<1>1. legs[1] = one /\ legs[2] = two /\ 3 \notin A
  OBVIOUS
<1>2. Over([i \in A |-> legs[i].share * Aim(legs[i])]) =
         (IF 1 \in A THEN 3 * Aim(one) ELSE 0) + (IF 2 \in A THEN 3 * Aim(two) ELSE 0)
  BY <1>1 DEF Over, Level
<1>3. Share(legs, A) = (IF 1 \in A THEN 3 ELSE 0) + (IF 2 \in A THEN 3 ELSE 0)
  BY <1>1 DEF Share, Over, Level
<1> HIDE DEF legs
<1>4. Worth(legs, A, tail) =
         (IF 1 \in A THEN 3 * Aim(one) ELSE 0) + (IF 2 \in A THEN 3 * Aim(two) ELSE 0)
         + (6 - ((IF 1 \in A THEN 3 ELSE 0) + (IF 2 \in A THEN 3 ELSE 0))) * tail
  BY <1>2, <1>3 DEF Worth, Whole
<1>5. CASE 1 \in A /\ 2 \in A
  BY <1>4, <1>5 DEF legs
<1>6. CASE 1 \in A /\ 2 \notin A
  BY <1>4, <1>6 DEF legs
<1>7. CASE 1 \notin A /\ 2 \in A
  BY <1>4, <1>7 DEF legs
<1>8. CASE 1 \notin A /\ 2 \notin A
  BY <1>4, <1>8 DEF legs
<1> QED BY <1>5, <1>6, <1>7, <1>8

LEMMA ThreeLegsWorth ==
    ASSUME NEW one, NEW two, NEW three, one.share = 2, two.share = 2, three.share = 2,
           Aim(one) \in Int, Aim(two) \in Int, Aim(three) \in Int,
           NEW tail \in Int, NEW A \in SUBSET {1, 2, 3}
    PROVE  Worth(<<one, two, three>>, A, tail) =
              2 * (IF 1 \in A THEN Aim(one) ELSE tail) + 2 * (IF 2 \in A THEN Aim(two) ELSE tail)
              + 2 * (IF 3 \in A THEN Aim(three) ELSE tail)
<1> DEFINE legs == <<one, two, three>>
           n(i) == IF i \in A THEN 2 ELSE 0
<1>1. legs[1] = one /\ legs[2] = two /\ legs[3] = three
  OBVIOUS
<1>2. Over([i \in A |-> legs[i].share * Aim(legs[i])]) =
         (IF 1 \in A THEN 2 * Aim(one) ELSE 0) + (IF 2 \in A THEN 2 * Aim(two) ELSE 0)
         + (IF 3 \in A THEN 2 * Aim(three) ELSE 0)
  BY <1>1 DEF Over, Level
<1>3. Share(legs, A) = n(1) + n(2) + n(3)
  BY <1>1 DEF Share, Over, Level
<1> HIDE DEF legs
<1>4. Worth(legs, A, tail) =
         (IF 1 \in A THEN 2 * Aim(one) ELSE 0) + (IF 2 \in A THEN 2 * Aim(two) ELSE 0)
         + (IF 3 \in A THEN 2 * Aim(three) ELSE 0) + (6 - (n(1) + n(2) + n(3))) * tail
  BY <1>2, <1>3 DEF Worth, Whole
<1>5. (6 - (n(1) + n(2) + n(3))) * tail =
         (IF 1 \in A THEN 0 ELSE 2 * tail) + (IF 2 \in A THEN 0 ELSE 2 * tail)
         + (IF 3 \in A THEN 0 ELSE 2 * tail)
  OBVIOUS
<1> QED BY <1>4, <1>5 DEF legs

LEMMA LaddersAre ==
    /\ DOMAIN Catalog = {"tp1", "be_tp1", "flat", "tp1_tp2", "flat_tp1", "tp1_tp2_tp3"}
    /\ Catalog["tp1"] = <<ForLevel(1, 6)>> /\ Catalog["be_tp1"] = <<ForLevel(1, 6)>>
    /\ Catalog["flat"] = <<ForFixed(6)>>
    /\ Catalog["flat_tp1"] = <<ForFixed(3), ForLevel(1, 3)>>
    /\ Catalog["tp1_tp2"] = <<ForLevel(1, 3), ForLevel(2, 3)>>
    /\ Catalog["tp1_tp2_tp3"] = <<ForLevel(1, 2), ForLevel(2, 2), ForLevel(3, 2)>>
    /\ \A share : ForFixed(share).share = share /\ \A k : ForLevel(k, share).share = share
BY DEF Catalog, ForLevel, ForFixed

\* More legs filled are worth more, whatever the loss the rest is closed at.
LEMMA FillingPays ==
    ASSUME NEW key \in DOMAIN Catalog, NEW A, NEW B \in SUBSET DOMAIN Catalog[key], A \subseteq B,
           NEW tail \in Int, tail < 0 \/ A = B,
           \A i \in DOMAIN Catalog[key] : Aim(Catalog[key][i]) \in Nat
    PROVE  Worth(Catalog[key], A, tail) <= Worth(Catalog[key], B, tail)
<1>1. CASE key \in {"tp1", "be_tp1", "flat"}
  <2>1. PICK leg : Catalog[key] = <<leg>> /\ leg.share = 6
    BY <1>1, LaddersAre
  <2>2. DOMAIN Catalog[key] = {1} /\ Aim(leg) \in Nat
    BY <2>1
  <2>3. A \in SUBSET {1} /\ B \in SUBSET {1}
    BY <2>2
  <2>4. /\ Worth(<<leg>>, A, tail) = IF 1 \in A THEN 6 * Aim(leg) ELSE 6 * tail
        /\ Worth(<<leg>>, B, tail) = IF 1 \in B THEN 6 * Aim(leg) ELSE 6 * tail
    BY <2>1, <2>2, <2>3, OneLegWorth
  <2> QED BY <2>1, <2>2, <2>4
<1>2. CASE key \in {"flat_tp1", "tp1_tp2"}
  <2>1. PICK one, two : Catalog[key] = <<one, two>> /\ one.share = 3 /\ two.share = 3
    BY <1>2, LaddersAre
  <2>2. DOMAIN Catalog[key] = {1, 2} /\ Aim(one) \in Nat /\ Aim(two) \in Nat
    BY <2>1
  <2>3. A \in SUBSET {1, 2} /\ B \in SUBSET {1, 2}
    BY <2>2
  <2>4. \A C \in SUBSET {1, 2} : Worth(<<one, two>>, C, tail) =
           3 * (IF 1 \in C THEN Aim(one) ELSE tail) + 3 * (IF 2 \in C THEN Aim(two) ELSE tail)
    BY <2>1, <2>2, TwoLegsWorth
  <2>5. \A C \in SUBSET {1, 2} : Worth(Catalog[key], C, tail) =
           3 * (IF 1 \in C THEN Aim(one) ELSE tail) + 3 * (IF 2 \in C THEN Aim(two) ELSE tail)
    BY <2>1, <2>4
  <2> QED BY <2>2, <2>3, <2>5
<1>3. CASE key = "tp1_tp2_tp3"
  <2>1. PICK one, two, three : /\ Catalog[key] = <<one, two, three>>
                               /\ one.share = 2 /\ two.share = 2 /\ three.share = 2
    BY <1>3, LaddersAre
  <2>2. DOMAIN Catalog[key] = {1, 2, 3} /\ Aim(one) \in Nat /\ Aim(two) \in Nat /\ Aim(three) \in Nat
    BY <2>1
  <2>3. A \in SUBSET {1, 2, 3} /\ B \in SUBSET {1, 2, 3}
    BY <2>2
  <2>4. \A C \in SUBSET {1, 2, 3} : Worth(<<one, two, three>>, C, tail) =
           2 * (IF 1 \in C THEN Aim(one) ELSE tail) + 2 * (IF 2 \in C THEN Aim(two) ELSE tail)
           + 2 * (IF 3 \in C THEN Aim(three) ELSE tail)
    BY <2>1, <2>2, ThreeLegsWorth
  <2>5. \A C \in SUBSET {1, 2, 3} : Worth(Catalog[key], C, tail) =
           2 * (IF 1 \in C THEN Aim(one) ELSE tail) + 2 * (IF 2 \in C THEN Aim(two) ELSE tail)
           + 2 * (IF 3 \in C THEN Aim(three) ELSE tail)
    BY <2>1, <2>4
  <2> QED BY <2>2, <2>3, <2>5
<1> QED BY <1>1, <1>2, <1>3, LaddersAre

LEMMA MadeIsWorth == \A legs, filled : Made(legs, filled) = Worth(legs, filled, ReplayTail)
BY DEF Made, Worth

LEMMA ReplayWorth == \A key, last :
    LET legs == Catalog[key]
    IN Replay(legs, last) =
          Worth(legs, {i \in DOMAIN legs : Touched(Aim(legs[i]), last)}, ReplayTail)
BY DEF Replay, Made, Worth

\* The legs a record fills are worth no more than those the replay believes in.
LEMMA EvaluateIsModest ==
    ASSUME Traded, NEW stamped \in BOOLEAN, NEW flagged \in BOOLEAN, NEW key \in DOMAIN Catalog,
           Evaluate(EngineRow(stamped, flagged), key).value # None
    PROVE  Evaluate(EngineRow(stamped, flagged), key).value
              <= Made(Catalog[key], Believed(Catalog[key]))
<1> DEFINE row == EngineRow(stamped, flagged)
           legs == Catalog[key]
           filled == Filled(row, legs)
           believed == Believed(legs)
           tail == IF StopHit(row) THEN SlReturn(row) ELSE IF row.pnl = None THEN 0 ELSE row.pnl
<1>1. \A i \in DOMAIN legs : \/ legs[i].kind = "level" /\ legs[i].value \in Level
                             \/ legs[i].kind = "fixed" /\ legs[i].value = FixedPct
  BY LadderLegs
<1>2. /\ (StopHit(row) <=> Hit) /\ SlReturn(row) = Stop /\ row.pnl \in Int /\ row.pnl # None
      /\ ~Hit => row.pnl = ReplayTail
  BY RecordSays
<1>3. Evaluate(row, key).value =
         Over([i \in filled |-> legs[i].share * LegReturn(row, legs[i])])
         + (Whole - Share(legs, filled)) * tail
  BY DEF Evaluate
<1> HIDE DEF row, legs
<1>4. \A i \in DOMAIN legs :
         /\ LegReturn(row, legs[i]) = Aim(legs[i]) /\ Aim(legs[i]) \in Nat \ {0}
         /\ i \in filled => i \in believed
         /\ ~Hit => (i \in filled <=> i \in believed)
  <2> SUFFICES ASSUME NEW i \in DOMAIN legs
               PROVE  /\ LegReturn(row, legs[i]) = Aim(legs[i]) /\ Aim(legs[i]) \in Nat \ {0}
                      /\ i \in filled => i \in believed
                      /\ ~Hit => (i \in filled <=> i \in believed)
    OBVIOUS
  <2>1. /\ TargetBeforeStop(row, Reached(row, legs[i]), Near(row, legs[i])) => Trusted(legs[i])
        /\ ~Hit => (TargetBeforeStop(row, Reached(row, legs[i]), Near(row, legs[i]))
                       <=> Trusted(legs[i]))
        /\ LegReturn(row, legs[i]) = Aim(legs[i]) /\ Aim(legs[i]) \in Nat \ {0}
    BY <1>1, LegFills DEF row
  <2>2. LegReturn(row, legs[i]) # None
    BY <2>1 DEF None
  <2>3. i \in believed <=> Trusted(legs[i])
    BY DEF Believed, Trusted
  <2> QED BY <2>1, <2>2, <2>3 DEF Filled
<1>5. filled \subseteq DOMAIN legs /\ believed \subseteq DOMAIN legs
  BY DEF Filled, Believed
<1>6. Over([i \in filled |-> legs[i].share * LegReturn(row, legs[i])]) =
         Over([i \in filled |-> legs[i].share * Aim(legs[i])])
  BY <1>4, <1>5 DEF Over
<1>7. Evaluate(row, key).value = Worth(legs, filled, tail)
  BY <1>3, <1>6 DEF Worth
<1>8. Made(legs, believed) = Worth(legs, believed, ReplayTail)
  BY MadeIsWorth
<1>9. \A i \in DOMAIN legs : Aim(legs[i]) \in Nat
  BY <1>4
<1>10. CASE Hit
  <2>1. tail = Stop /\ ReplayTail = Stop
    BY <1>2, <1>10, LastBarIs DEF ReplayTail
  <2>2. filled \subseteq believed /\ believed \in SUBSET DOMAIN legs
    BY <1>4, <1>5
  <2> HIDE DEF filled, believed, tail
  <2>3. Worth(legs, filled, Stop) <= Worth(legs, believed, Stop)
    BY <1>9, <2>2, FillingPays, ExitSimAssumption DEF legs
  <2> QED BY <1>7, <1>8, <2>1, <2>3 DEF row, legs, believed
<1>11. CASE ~Hit
  <2>1. tail = ReplayTail
    BY <1>2, <1>11
  <2>2. filled = believed
    BY <1>4, <1>5, <1>11
  <2>3. ReplayTail \in Int /\ believed \in SUBSET DOMAIN legs
    BY <1>2, <1>5, <1>11
  <2> HIDE DEF filled, believed, tail
  <2>4. Worth(legs, believed, ReplayTail) <= Worth(legs, believed, ReplayTail)
    BY <1>9, <2>3, FillingPays DEF legs
  <2> QED BY <1>7, <1>8, <2>1, <2>2, <2>4 DEF row, legs, believed
<1> QED BY <1>10, <1>11

LEMMA NoWinIsInvented == ASSUME Traded PROVE NoInventedWin
<1> SUFFICES ASSUME NEW stamped \in BOOLEAN, NEW flagged \in BOOLEAN, NEW key \in DOMAIN Catalog,
                    Exact(Shown(EngineRow(stamped, flagged), key))
             PROVE  \/ Shown(EngineRow(stamped, flagged), key).value
                          <= Made(Catalog[key], Believed(Catalog[key]))
                    \/ /\ key = "be_tp1" /\ Shown(EngineRow(stamped, flagged), key).value = 0
                       /\ Touched(FixedPct, Len(sample))
  BY DEF NoInventedWin
<1> DEFINE row == EngineRow(stamped, flagged)
<1>1. \/ Shown(row, key) = Evaluate(row, key)
      \/ /\ key = "be_tp1" /\ Shown(row, key) = Scratch /\ row.mfe >= FixedPct
  BY DEF Shown, EvaluateBe
<1>2. row.mfe >= FixedPct => Touched(FixedPct, Len(sample))
  BY RecordSays, ExitSimAssumption
<1>3. CASE Shown(row, key) = Evaluate(row, key)
  <2>1. Evaluate(row, key).value # None
    BY <1>3 DEF Exact
  <2> HIDE DEF row
  <2>2. Evaluate(row, key).value <= Made(Catalog[key], Believed(Catalog[key]))
    BY <2>1, EvaluateIsModest DEF row
  <2> QED BY <1>3, <2>2 DEF row
<1>4. CASE key = "be_tp1" /\ Shown(row, key) = Scratch /\ row.mfe >= FixedPct
  <2>1. Scratch.value = 0
    BY DEF Scratch
  <2> HIDE DEF row
  <2> QED BY <1>2, <1>4, <2>1 DEF row
<1> QED BY <1>1, <1>3, <1>4

------------------------------------------------------------------------------
\* What the engine stamps of the held arm.
LEMMA HeldSays ==
    ASSUME Traded, sample # <<>>
    PROVE  /\ HeldRow.levels = Level
           /\ HeldRow.hold = IF Hit THEN "HOLD_SL" ELSE "HOLD_EXPIRED"
           /\ HeldRow.hold_result = ReplayTail /\ ReplayTail # None
           /\ Hit => ReplayTail = Stop
           /\ HeldRow.hold_mfe # None
           /\ \A x \in Nat \ {0} : HeldRow.hold_mfe >= x <=> Touched(x, LastBar - 1)
           /\ HeldRow.hold_hit_tp \in Nat
           /\ \A k \in Level : HeldRow.hold_hit_tp >= k <=> Touched(Tp(k), LastBar - 1)
<1> DEFINE n == Len(sample)
           before == {sample[i].high : i \in 1..(LastBar - 1)}
<1>1. /\ HeldRow.levels = Level
      /\ HeldRow.hold = IF LastBar <= n THEN "HOLD_SL" ELSE "HOLD_EXPIRED"
      /\ HeldRow.hold_result = ReplayTail
      /\ HeldRow.hold_mfe = Highest(before)
      /\ HeldRow.hold_hit_tp = Max({0} \cup {k \in Level : \E high \in before : high >= Tp(k)})
  BY DEF HeldRow
<1>2. /\ DOMAIN sample = 1..n /\ n \in Nat /\ n \in DOMAIN sample
      /\ \A i \in DOMAIN sample : sample[i].high \in Int /\ sample[i].close # None
  <2>1. n # 0
    BY DEF Traded
  <2> QED BY <2>1, TradedBars
<1>3. LastBar \in 1..(n + 1) /\ (LastBar <= n <=> Hit)
  BY LastBarIs
<1>4. 1..(LastBar - 1) \subseteq DOMAIN sample
  BY <1>2, <1>3
<1>5. before = Prices(1..(LastBar - 1), "high")
  BY DEF Prices
<1>6. before \in SUBSET Int /\ IsFiniteSet(before)
  BY <1>4, <1>5, PricesAre
<1>7. \A x : (\E high \in before : high >= x) <=> Touched(x, LastBar - 1)
  BY <1>2, <1>3, <1>4 DEF Touched
<1> HIDE DEF before
<1>8. /\ Highest(before) \in Nat
      /\ \A x \in Nat \ {0} : Highest(before) >= x <=> Touched(x, LastBar - 1)
  BY <1>6, <1>7, HighestReaches
<1>9. /\ HeldRow.hold_hit_tp \in Nat
      /\ \A k \in Level : HeldRow.hold_hit_tp >= k <=> Touched(Tp(k), LastBar - 1)
  BY <1>1, <1>6, <1>7, LevelReached
<1>10. ReplayTail # None /\ (Hit => ReplayTail = Stop)
  BY <1>2, <1>3, ExitSimAssumption DEF ReplayTail
<1> QED BY <1>1, <1>3, <1>8, <1>9, <1>10 DEF None

LEMMA PriceHeldIs ==
    ASSUME NEW row, NEW key, SkipReason(row) = "", key # "hold",
           ~(key = "be_tp1" /\ HoldScratched(row)), ~Unstamped(row, DarkCatalog[key])
    PROVE  PriceHeld(row, key).value =
              Worth(DarkCatalog[key],
                    {i \in DOMAIN DarkCatalog[key] : HoldHit(row, DarkCatalog[key][i])},
                    IF row.hold = "HOLD_SL" THEN Stop ELSE row.hold_result)
<1> DEFINE legs == DarkCatalog[key]
           filled == {i \in DOMAIN legs : HoldHit(row, legs[i])}
           tail == IF row.hold = "HOLD_SL" THEN Stop ELSE row.hold_result
           worth == Over([i \in filled |-> legs[i].share * Aim(legs[i])])
                           + (Whole - Share(legs, filled)) * tail
<1>1. PriceHeld(row, key) =
        CASE SkipReason(row) # "" -> Skipped(SkipReason(row))
         [] SkipReason(row) = "" /\ key = "hold" -> Result(Whole * row.hold_result)
         [] SkipReason(row) = "" /\ key = "be_tp1" /\ HoldScratched(row) -> Result(0)
         [] SkipReason(row) = "" /\ key # "hold" /\ ~(key = "be_tp1" /\ HoldScratched(row)) ->
               IF Unstamped(row, legs) THEN Skipped("level_not_stamped") ELSE Result(worth)
  BY DEF PriceHeld
<1>2. worth = Worth(legs, filled, tail)
  BY DEF Worth
<1>4. (IF Unstamped(row, legs) THEN Skipped("level_not_stamped") ELSE Result(worth)) = Result(worth)
  OBVIOUS
<1>5. /\ ~(SkipReason(row) # "")
      /\ ~(SkipReason(row) = "" /\ key = "hold")
      /\ ~(SkipReason(row) = "" /\ key = "be_tp1" /\ HoldScratched(row))
      /\ SkipReason(row) = "" /\ key # "hold" /\ ~(key = "be_tp1" /\ HoldScratched(row))
  OBVIOUS
<1> HIDE DEF worth, legs
<1>3. PriceHeld(row, key) = Result(worth)
  BY <1>1, <1>4, <1>5, Zenon
<1>6. Result(worth).value = worth
  BY DEF Result
<1>7. PriceHeld(row, key).value = Worth(legs, filled, tail)
  BY <1>2, <1>3, <1>6
<1> QED BY <1>7 DEF legs

LEMMA LaddersPriced == ASSUME Traded PROVE LaddersAreExact
<1> SUFFICES ASSUME sample # <<>>
             PROVE  /\ \A key \in DOMAIN Catalog \ {"be_tp1"} :
                          PriceHeld(HeldRow, key).value = Strict(key)
                    /\ PriceHeld(HeldRow, "be_tp1").value >= Strict("be_tp1")
                    /\ PriceHeld(HeldRow, "hold").value = Whole * SimulateToStop(sample).result
  BY DEF LaddersAreExact
<1>1. SkipReason(HeldRow) = ""
  <2>1. HeldRow.hold \in Decided /\ HeldRow.hold_result # None
        /\ HeldRow.hold # "" /\ HeldRow.hold # "HOLD_INSUFFICIENT"
    BY HeldSays DEF Decided
  <2> QED BY <2>1 DEF SkipReason
<1>2. \A key \in DOMAIN Catalog :
         /\ DarkCatalog[key] = Catalog[key] /\ key # "hold"
         /\ ~Unstamped(HeldRow, Catalog[key])
         /\ \A i \in DOMAIN Catalog[key] : HoldHit(HeldRow, Catalog[key][i])
                                            <=> Touched(Aim(Catalog[key][i]), LastBar - 1)
  <2> SUFFICES ASSUME NEW key \in DOMAIN Catalog
               PROVE  /\ DarkCatalog[key] = Catalog[key] /\ key # "hold"
                      /\ ~Unstamped(HeldRow, Catalog[key])
                      /\ \A i \in DOMAIN Catalog[key] :
                            HoldHit(HeldRow, Catalog[key][i])
                               <=> Touched(Aim(Catalog[key][i]), LastBar - 1)
    OBVIOUS
  <2>1. key # "hold" /\ DarkCatalog[key] = Catalog[key]
    BY DEF DarkCatalog, Catalog
  <2> DEFINE legs == Catalog[key]
  <2>2. \A i \in DOMAIN legs : \/ legs[i].kind = "level" /\ legs[i].value \in Level
                               \/ legs[i].kind = "fixed" /\ legs[i].value = FixedPct
    BY LadderLegs
  <2> HIDE DEF legs
  <2>3. ~Unstamped(HeldRow, legs)
    BY <2>2, HeldSays DEF Unstamped
  <2>4. \A i \in DOMAIN legs : HoldHit(HeldRow, legs[i]) <=> Touched(Aim(legs[i]), LastBar - 1)
    BY <2>2, HeldSays, ExitSimAssumption DEF HoldHit, Aim
  <2> QED BY <2>1, <2>3, <2>4 DEF legs
<1> DEFINE tail == IF HeldRow.hold = "HOLD_SL" THEN Stop ELSE HeldRow.hold_result
           scratched(key) == key = "be_tp1" /\ HoldScratched(HeldRow)
<1>4. tail = ReplayTail
  BY HeldSays
<1>5. \A key \in DOMAIN Catalog :
         ~scratched(key) => PriceHeld(HeldRow, key).value = Strict(key)
  <2> SUFFICES ASSUME NEW key \in DOMAIN Catalog, ~scratched(key)
               PROVE  PriceHeld(HeldRow, key).value = Strict(key)
    OBVIOUS
  <2> DEFINE legs == Catalog[key]
             held == {i \in DOMAIN legs : HoldHit(HeldRow, legs[i])}
             touched == {i \in DOMAIN legs : Touched(Aim(legs[i]), LastBar - 1)}
  <2>1. /\ SkipReason(HeldRow) = "" /\ key # "hold" /\ ~(key = "be_tp1" /\ HoldScratched(HeldRow))
        /\ ~Unstamped(HeldRow, DarkCatalog[key]) /\ DarkCatalog[key] = legs
    BY <1>1, <1>2
  <2>2. PriceHeld(HeldRow, key).value = Worth(legs, held, tail)
    BY <2>1, PriceHeldIs
  <2>3. held = touched
    BY <1>2
  <2>4. Strict(key) = Worth(legs, touched, ReplayTail)
    BY ReplayWorth DEF Strict
  <2> HIDE DEF held, touched, tail
  <2> QED BY <1>4, <2>2, <2>3, <2>4
<1>9. "be_tp1" \in DOMAIN Catalog
  BY DEF Catalog
<1>6. PriceHeld(HeldRow, "be_tp1").value >= Strict("be_tp1")
  <2> DEFINE leg == ForLevel(1, 6)
             touched == {i \in DOMAIN <<leg>> : Touched(Aim(<<leg>>[i]), LastBar - 1)}
  <2>1. Catalog["be_tp1"] = <<leg>> /\ leg.share = 6 /\ Aim(leg) = Tp(1) /\ Tp(1) \in Int
    BY ExitSimAssumption DEF Catalog, ForLevel, Aim, Tp, Level
  <2>2. Strict("be_tp1") = Worth(<<leg>>, touched, ReplayTail)
    BY <2>1, ReplayWorth DEF Strict
  <2>3. touched \in SUBSET {1} /\ (1 \in touched <=> Touched(Tp(1), LastBar - 1))
    BY <2>1
  <2>4. ReplayTail \in Int
    <3>1. sample[Len(sample)].close \in Int
      BY TradedBars
    <3> QED BY <3>1, ExitSimAssumption DEF ReplayTail
  <2> HIDE DEF leg, touched
  <2>5. Strict("be_tp1") = IF 1 \in touched THEN 6 * Tp(1) ELSE 6 * ReplayTail
    BY <2>1, <2>2, <2>3, <2>4, OneLegWorth
  <2>6. CASE HoldScratched(HeldRow)
    <3>1. PriceHeld(HeldRow, "be_tp1") = Result(0)
      BY <1>1, <2>6 DEF PriceHeld
    <3>2. ~Touched(Tp(1), LastBar - 1) /\ ReplayTail = Stop
      BY <2>6, HeldSays DEF HoldScratched, Level
    <3>7. Result(0).value = 0
      BY DEF Result
    <3>3. PriceHeld(HeldRow, "be_tp1").value = 0
      BY <3>1, <3>7
    <3>4. Strict("be_tp1") = 6 * Stop
      BY <2>3, <2>5, <3>2
    <3>5. Stop \in Int /\ Stop < 0
      BY ExitSimAssumption
    <3>6. 0 >= 6 * Stop
      BY <3>5
    <3> QED BY <3>3, <3>4, <3>6
  <2>7. CASE ~HoldScratched(HeldRow)
    <3>1. PriceHeld(HeldRow, "be_tp1").value = Strict("be_tp1")
      BY <1>5, <1>9, <2>7
    <3>2. Strict("be_tp1") \in Int
      BY <2>1, <2>4, <2>5
    <3> QED BY <3>1, <3>2
  <2> QED BY <2>6, <2>7
<1>8. PriceHeld(HeldRow, "hold").value = Whole * SimulateToStop(sample).result
  <2>1. PriceHeld(HeldRow, "hold").value = Whole * ReplayTail
    BY <1>1, HeldSays DEF PriceHeld, Result
  <2>2. Stopped(sample) <=> LastBar <= Len(sample)
    BY DEF Stopped, StopBar, LastBar
  <2>3. SimulateToStop(sample).result = ReplayTail
    BY <2>2 DEF SimulateToStop, ReplayTail
  <2> QED BY <2>1, <2>3
<1> QED
  <2>1. \A key \in DOMAIN Catalog \ {"be_tp1"} : PriceHeld(HeldRow, key).value = Strict(key)
    BY <1>5
  <2> QED BY <1>6, <1>8, <2>1

------------------------------------------------------------------------------
\* A close that ends the trade: at the stop or beyond, or at the target or beyond.
Ends(i, tp, sl) == Close(i) <= -sl \/ Close(i) >= tp

LEMMA ExitIs ==
    ASSUME Traded, NEW c \in DOMAIN sample, NEW tp, NEW sl
    PROVE  /\ ExitBar(c, tp, sl) \in 1..c
           /\ \A i \in 1..(ExitBar(c, tp, sl) - 1) : ~Ends(i, tp, sl)
           /\ ExitBar(c, tp, sl) = c \/ Ends(ExitBar(c, tp, sl), tp, sl)
<1> DEFINE S == {i \in DOMAIN sample : Ends(i, tp, sl)} \cup {c}
<1>1. ExitBar(c, tp, sl) = Min(S)
  BY DEF ExitBar, Ends
<1>2. DOMAIN sample = 1..Len(sample) /\ Len(sample) \in Nat
  BY TradedBars
<1>3. S \in SUBSET Nat /\ S # {} /\ c \in S /\ S \in SUBSET DOMAIN sample
  BY <1>2
<1>4. \A i \in DOMAIN sample : i \in S <=> i = c \/ Ends(i, tp, sl)
  OBVIOUS
<1> HIDE DEF S
<1>5. Min(S) \in S /\ \A i \in S : Min(S) <= i
  BY <1>3, FirstIs
<1>6. Min(S) \in DOMAIN sample /\ Min(S) <= c
  BY <1>3, <1>5
<1>7. \A i \in 1..(Min(S) - 1) : i \notin S /\ i \in DOMAIN sample
  BY <1>2, <1>5, <1>6
<1> QED BY <1>1, <1>2, <1>4, <1>5, <1>6, <1>7

LEMMA ExitAt ==
    ASSUME Traded, NEW c \in DOMAIN sample, NEW tp, NEW sl, NEW j \in 1..c,
           \A i \in 1..(j - 1) : ~Ends(i, tp, sl), j = c \/ Ends(j, tp, sl)
    PROVE  ExitBar(c, tp, sl) = j
<1>1. DOMAIN sample = 1..Len(sample) /\ Len(sample) \in Nat
  BY TradedBars
<1>2. /\ ExitBar(c, tp, sl) \in 1..c
      /\ \A i \in 1..(ExitBar(c, tp, sl) - 1) : ~Ends(i, tp, sl)
      /\ ExitBar(c, tp, sl) = c \/ Ends(ExitBar(c, tp, sl), tp, sl)
  BY ExitIs
<1> QED BY <1>1, <1>2

\* The peak and the drawdown of a closed record reach what some close up to its exit did.
LEMMA ClosedSays ==
    ASSUME Traded, NEW c \in DOMAIN sample, NEW tp, NEW sl
    PROVE  LET out == ExitBar(c, tp, sl)
               rec == ClosedRecord(c, tp, sl)
           IN  /\ rec.pnl = ExitValue(out, tp, sl)
               /\ \A x \in Nat \ {0} : rec.mfe >= x <=> \E i \in 1..out : Close(i) >= x
               /\ \A x \in Nat \ {0} : rec.mae >= x <=> \E i \in 1..out : Close(i) <= -x
               /\ rec.mfe \in Nat /\ rec.mae \in Nat
<1> DEFINE out == ExitBar(c, tp, sl)
           rec == ClosedRecord(c, tp, sl)
           up == [i \in 1..out |-> Close(i)]
           down == [i \in 1..out |-> -Close(i)]
           ups == {up[i] : i \in 1..out}
           downs == {down[i] : i \in 1..out}
<1>1. /\ rec.pnl = ExitValue(out, tp, sl)
      /\ rec.mfe = Max({0} \cup {Close(i) : i \in 1..out})
      /\ rec.mae = Max({0} \cup {-Close(i) : i \in 1..out})
  BY DEF ClosedRecord
<1>2. {Close(i) : i \in 1..out} = ups /\ {-Close(i) : i \in 1..out} = downs
  OBVIOUS
<1>3. out \in 1..c
  BY ExitIs
<1>4. 1..out \subseteq DOMAIN sample /\ out \in Nat
  BY <1>3, TradedBars
<1>5. \A i \in 1..out : Close(i) \in Int
  BY <1>4, TradedBars DEF Close
<1>6. ups \in SUBSET Int /\ downs \in SUBSET Int
  BY <1>5
<1>7. \A x \in Nat \ {0} : /\ (\E v \in ups : v >= x) <=> \E i \in 1..out : Close(i) >= x
                           /\ (\E v \in downs : v >= x) <=> \E i \in 1..out : Close(i) <= -x
  BY <1>5
<1>8. IsFiniteSet(1..out)
  BY <1>4, FS_Interval
<1>9. up = [i \in 1..out |-> up[i]] /\ down = [i \in 1..out |-> down[i]]
  OBVIOUS
<1> HIDE DEF up, down, out, rec
<1>10. IsFiniteSet(ups) /\ IsFiniteSet(downs)
  BY <1>8, <1>9, FiniteRange
<1> HIDE DEF ups, downs
<1>11. /\ Max({0} \cup ups) \in Nat /\ Max({0} \cup downs) \in Nat
       /\ \A x \in Nat \ {0} : Max({0} \cup ups) >= x <=> \E v \in ups : v >= x
       /\ \A x \in Nat \ {0} : Max({0} \cup downs) >= x <=> \E v \in downs : v >= x
  BY <1>6, <1>10, GreatestReaches
<1>12. rec.mfe = Max({0} \cup ups) /\ rec.mae = Max({0} \cup downs)
  BY <1>1, <1>2
<1> QED BY <1>1, <1>7, <1>11, <1>12 DEF out, rec

\* What the two arms say of a record, where they decide.
LEMMA ArmsSay ==
    ASSUME NEW rec, NEW arith \in Int, NEW new \in Int
    PROVE  /\ Tp1Arm(rec, arith, new).verdict = "decided"
                 => /\ new # arith
                    /\ Tp1Arm(rec, arith, new).value = IF rec.mfe >= new THEN new ELSE rec.pnl
           /\ SlArm(rec, arith, new).verdict = "decided"
                 => \/ /\ new < arith /\ rec.mae < new
                       /\ SlArm(rec, arith, new).value = rec.pnl
                    \/ /\ new < arith /\ ~(rec.mae < new)
                       /\ SlArm(rec, arith, new).value = -new
                    \/ /\ new > arith /\ rec.mae < arith
                       /\ SlArm(rec, arith, new).value = rec.pnl
<1>1. \A v, x : Arm(v, x).verdict = v /\ Arm(v, x).value = x
  BY DEF Arm
<1> QED
  <2>1. ASSUME Tp1Arm(rec, arith, new).verdict = "decided"
        PROVE  /\ new # arith
               /\ Tp1Arm(rec, arith, new) = Arm("decided", IF rec.mfe >= new THEN new ELSE rec.pnl)
    BY <1>1, <2>1 DEF Tp1Arm
  <2>2. ASSUME SlArm(rec, arith, new).verdict = "decided"
        PROVE  \/ new < arith /\ rec.mae < new /\ SlArm(rec, arith, new) = Arm("decided", rec.pnl)
               \/ /\ new < arith /\ ~(rec.mae < new)
                  /\ SlArm(rec, arith, new) = Arm("decided", -new)
               \/ new > arith /\ rec.mae < arith /\ SlArm(rec, arith, new) = Arm("decided", rec.pnl)
    BY <1>1, <2>2 DEF SlArm
  <2> QED BY <1>1, <2>1, <2>2

\* A trade followed to bar `other`, which is bar `out` unless the trade ended there at
\* one of its levels: the first close up to `out` at a level of the new geometry is the
\* exit; with none before `out`, the exit is `out` if it is `other` or still at a level.
LEMMA ExitUnder ==
    ASSUME Traded, NEW out \in DOMAIN sample, NEW other \in DOMAIN sample, out <= other,
           NEW tp \in Nat \ {0}, NEW sl \in Nat \ {0}
    PROVE  /\ \A j \in 1..out : Ends(j, tp, sl) /\ (\A i \in 1..(j - 1) : ~Ends(i, tp, sl))
                 => ExitBar(other, tp, sl) = j
           /\ (\A i \in 1..(out - 1) : ~Ends(i, tp, sl)) /\ (out = other \/ Ends(out, tp, sl))
                 => ExitBar(other, tp, sl) = out
<1>1. 1..out \subseteq 1..other /\ out \in 1..out
  BY TradedBars
<1> QED BY <1>1, ExitAt

LEMMA FirstIn ==
    ASSUME NEW n \in Nat, NEW S \in SUBSET (1..n), S # {}
    PROVE  \E j \in S : \A i \in 1..(j - 1) : i \notin S
<1>1. S \in SUBSET Nat
  OBVIOUS
<1>2. PICK j \in S : \A i \in S : j <= i
  BY <1>1, HasLeast
<1> QED BY <1>2

LEMMA DecidedIsKnown == ASSUME Traded PROVE DecidedMeansKnowable
<1> SUFFICES ASSUME NEW c \in DOMAIN sample,
                    NEW tp \in Distances, NEW sl \in Distances, NEW new \in Distances
             PROVE  LET rec == ClosedRecord(c, tp, sl)
                        nearer == Tp1Arm(rec, tp, new)  moved == SlArm(rec, sl, new)
                    IN /\ new <= tp /\ nearer.verdict = "decided"
                             => nearer.value = Otherwise(c, tp, sl, new, sl)
                       /\ moved.verdict = "decided" => moved.value = Otherwise(c, tp, sl, tp, new)
  BY DEF DecidedMeansKnowable
<1> DEFINE rec == ClosedRecord(c, tp, sl)
           out == ExitBar(c, tp, sl)
           last == IF out = c /\ Close(c) > -sl /\ Close(c) < tp THEN c ELSE Len(sample)
<1>1. tp \in Nat \ {0} /\ sl \in Nat \ {0} /\ new \in Nat \ {0}
  BY BarAssumption
<1>2. DOMAIN sample = 1..Len(sample) /\ Len(sample) \in Nat
  BY TradedBars
<1>3. /\ out \in 1..c /\ (\A i \in 1..(out - 1) : ~Ends(i, tp, sl))
      /\ out = c \/ Ends(out, tp, sl)
  BY ExitIs
<1>4. /\ rec.pnl = ExitValue(out, tp, sl) /\ rec.mfe \in Nat /\ rec.mae \in Nat
      /\ \A x \in Nat \ {0} : rec.mfe >= x <=> \E i \in 1..out : Close(i) >= x
      /\ \A x \in Nat \ {0} : rec.mae >= x <=> \E i \in 1..out : Close(i) <= -x
  BY ClosedSays
<1>5. /\ Tp1Arm(rec, tp, new).verdict = "decided"
            => /\ new # tp
               /\ Tp1Arm(rec, tp, new).value = IF rec.mfe >= new THEN new ELSE rec.pnl
      /\ SlArm(rec, sl, new).verdict = "decided"
            => \/ new < sl /\ rec.mae < new /\ SlArm(rec, sl, new).value = rec.pnl
               \/ new < sl /\ ~(rec.mae < new) /\ SlArm(rec, sl, new).value = -new
               \/ new > sl /\ rec.mae < sl /\ SlArm(rec, sl, new).value = rec.pnl
  BY <1>1, ArmsSay
<1>6. \A t, s : Otherwise(c, tp, sl, t, s) = ExitValue(ExitBar(last, t, s), t, s)
  BY DEF Otherwise
<1> HIDE DEF rec, out
<1>7. \A i \in DOMAIN sample : Close(i) \in Int
  BY TradedBars DEF Close
<1>8. /\ out \in DOMAIN sample /\ out <= last /\ last \in DOMAIN sample
      /\ out = last \/ Ends(out, tp, sl)
      /\ 1..out \subseteq DOMAIN sample /\ 1..(out - 1) \subseteq 1..out /\ out \in 1..out
  <2>1. out \in Nat /\ out >= 1 /\ out <= c /\ c \in 1..Len(sample) /\ out \in DOMAIN sample
    BY <1>2, <1>3
  <2>2. 1..out \subseteq DOMAIN sample /\ 1..(out - 1) \subseteq 1..out /\ out \in 1..out
    BY <1>2, <2>1
  <2>3. Close(out) \in Int
    BY <1>7, <2>1
  <2>4. CASE out = c /\ Close(c) > -sl /\ Close(c) < tp
    BY <2>1, <2>2, <2>4
  <2>5. CASE ~(out = c /\ Close(c) > -sl /\ Close(c) < tp)
    <3>1. last = Len(sample)
      BY <2>5
    <3>2. Ends(out, tp, sl)
      BY <1>1, <1>3, <2>3, <2>5 DEF Ends
    <3> QED BY <1>2, <2>1, <2>2, <3>1, <3>2
  <2> QED BY <2>4, <2>5
<1> HIDE DEF last
<1>9. \A t, s \in Nat \ {0} :
         /\ \A j \in 1..out : Ends(j, t, s) /\ (\A i \in 1..(j - 1) : ~Ends(i, t, s))
                 => ExitBar(last, t, s) = j
         /\ (\A i \in 1..(out - 1) : ~Ends(i, t, s)) /\ (out = last \/ Ends(out, t, s))
                 => ExitBar(last, t, s) = out
  BY <1>8, ExitUnder
<1>10. ASSUME new <= tp, Tp1Arm(rec, tp, new).verdict = "decided"
       PROVE  Tp1Arm(rec, tp, new).value = Otherwise(c, tp, sl, new, sl)
  <2>1. CASE rec.mfe >= new
    <3> DEFINE S == {i \in 1..out : Close(i) >= new}
    <3>8. PICK k \in 1..out : Close(k) >= new
      BY <1>1, <1>4, <2>1
    <3>9. out \in Nat
      BY <1>2, <1>8
    <3>1. S # {} /\ S \in SUBSET (1..out) /\ out \in Nat
      BY <3>8, <3>9
    <3>2. PICK j \in S : \A i \in 1..(j - 1) : i \notin S
      BY <3>1, FirstIn
    <3>3. /\ j \in 1..out /\ Ends(j, new, sl)
          /\ \A i \in 1..(j - 1) : i \in 1..(out - 1) /\ ~(Close(i) >= new)
      BY <3>1, <3>2 DEF Ends
    <3>4. \A i \in 1..(j - 1) : ~Ends(i, new, sl)
      BY <1>3, <3>3 DEF Ends
    <3>5. ExitBar(last, new, sl) = j
      BY <1>1, <1>9, <3>3, <3>4
    <3>6. ~(Close(j) <= -sl) /\ Close(j) >= new
      BY <1>1, <1>7, <1>8, <3>2
    <3>7. ExitValue(j, new, sl) = new
      BY <3>6 DEF ExitValue
    <3> QED BY <1>5, <1>6, <1>10, <2>1, <3>5, <3>7
  <2>2. CASE ~(rec.mfe >= new)
    <3>1. \A i \in 1..out : ~(Close(i) >= new)
      BY <1>1, <1>4, <2>2
    <3>2. \A i \in 1..(out - 1) : ~Ends(i, new, sl)
      BY <1>3, <1>8, <3>1 DEF Ends
    <3>3. ~(Close(out) >= tp) /\ ~(Close(out) >= new)
      BY <1>1, <1>7, <1>8, <1>10, <3>1
    <3>4. out = last \/ Ends(out, new, sl)
      BY <1>8, <3>3 DEF Ends
    <3>5. ExitBar(last, new, sl) = out
      BY <1>1, <1>9, <3>2, <3>4
    <3>6. ExitValue(out, new, sl) = ExitValue(out, tp, sl)
      BY <3>3 DEF ExitValue
    <3> QED BY <1>4, <1>5, <1>6, <1>10, <2>2, <3>5, <3>6
  <2> QED BY <2>1, <2>2
<1>11. ASSUME SlArm(rec, sl, new).verdict = "decided"
       PROVE  SlArm(rec, sl, new).value = Otherwise(c, tp, sl, tp, new)
  <2>1. CASE new < sl /\ ~(rec.mae < new) /\ SlArm(rec, sl, new).value = -new
    <3> DEFINE S == {i \in 1..out : Close(i) <= -new}
    <3>8. PICK k \in 1..out : Close(k) <= -new
      BY <1>1, <1>4, <2>1
    <3>9. out \in Nat
      BY <1>2, <1>8
    <3>1. S # {} /\ S \in SUBSET (1..out) /\ out \in Nat
      BY <3>8, <3>9
    <3>2. PICK j \in S : \A i \in 1..(j - 1) : i \notin S
      BY <3>1, FirstIn
    <3>3. /\ j \in 1..out /\ Ends(j, tp, new)
          /\ \A i \in 1..(j - 1) : i \in 1..(out - 1) /\ ~(Close(i) <= -new)
      BY <3>1, <3>2 DEF Ends
    <3>4. \A i \in 1..(j - 1) : ~Ends(i, tp, new)
      BY <1>3, <3>3 DEF Ends
    <3>5. ExitBar(last, tp, new) = j
      BY <1>1, <1>9, <3>3, <3>4
    <3>6. ExitValue(j, tp, new) = -new
      BY <3>2 DEF ExitValue
    <3> QED BY <1>6, <2>1, <3>5, <3>6
  <2>2. CASE /\ (new < sl /\ rec.mae < new) \/ (new > sl /\ rec.mae < sl)
            /\ SlArm(rec, sl, new).value = rec.pnl
    <3>1. \A i \in 1..out : ~(Close(i) <= -new) /\ ~(Close(i) <= -sl)
      BY <1>1, <1>4, <1>7, <1>8, <2>2
    <3>2. \A i \in 1..(out - 1) : ~Ends(i, tp, new)
      BY <1>3, <1>8, <3>1 DEF Ends
    <3>3. ~(Close(out) <= -new) /\ ~(Close(out) <= -sl)
      BY <1>8, <3>1
    <3>4. out = last \/ Ends(out, tp, new)
      BY <1>8, <3>3 DEF Ends
    <3>5. ExitBar(last, tp, new) = out
      BY <1>1, <1>9, <3>2, <3>4
    <3>6. ExitValue(out, tp, new) = ExitValue(out, tp, sl)
      BY <3>3 DEF ExitValue
    <3> QED BY <1>4, <1>6, <2>2, <3>5, <3>6
  <2>3. \/ new < sl /\ rec.mae < new /\ SlArm(rec, sl, new).value = rec.pnl
        \/ new < sl /\ ~(rec.mae < new) /\ SlArm(rec, sl, new).value = -new
        \/ new > sl /\ rec.mae < sl /\ SlArm(rec, sl, new).value = rec.pnl
    BY <1>5, <1>11, Zenon
  <2> QED BY <2>1, <2>2, <2>3, Zenon
<1> QED BY <1>10, <1>11 DEF rec

\* Held to the stop and decided by a snap, in figures the bars bear out: whatever the
\* fixed target is.
LEMMA TradesMeasured == ASSUME Traded PROVE LaddersAreExact /\ DecidedMeansKnowable
BY LaddersPriced, DecidedIsKnown

\* The held arm's ladders are the strict replay of the bars, and what the snap reports
\* call decided is what the trade would have made, for any bars, stop, targets and
\* fixed target (dark_exit_sim.py:203-265, structural_snap.py:257-402).
THEOREM HeldPathsDecide == Spec => []PathsDecide
<1>1. Sampled => PathsDecide
  BY TradesMeasured DEF Sampled, Traded, PathsDecide
<1> QED BY <1>1, SamplesAreRows, PTL

\* For any bars, stop, targets and fixed target, and whatever stamps and flags the
\* record misses, a replayed ladder is worth no more than the legs the record can
\* vouch for: those filled by the stop, those beyond the first target that came at any
\* time once it was touched, and the scratch of a trade that was ever up by the trigger
\* (exit_sim.py:190-228, 367-403).
THEOREM CounterfactualsDecide == Spec => []NoInventedWin
<1>1. Sampled => NoInventedWin
  <2>1. CASE part = "trade"
    BY <2>1, NoWinIsInvented DEF Sampled, Traded
  <2>2. CASE part # "trade"
    BY <2>2 DEF NoInventedWin
  <2> QED BY <2>1, <2>2
<1> QED BY <1>1, SamplesAreRows, PTL

------------------------------------------------------------------------------
LEMMA ChartPrices ==
    ASSUME NEW bars \in Seq(ChartBars)
    PROVE  /\ DOMAIN bars = 1..Len(bars) /\ Len(bars) \in Nat
           /\ \A i \in DOMAIN bars : /\ bars[i] \in ChartBars
                                     /\ bars[i].low \in Int /\ bars[i].high \in Int
<1>1. \A b \in ChartBars : b.low \in Int /\ b.high \in Int
  BY BarAssumption
<1>2. /\ DOMAIN bars = 1..Len(bars) /\ Len(bars) \in Nat
      /\ \A i \in DOMAIN bars : bars[i] \in ChartBars
  OBVIOUS
<1> QED BY <1>1, <1>2

\* One bar of the recursion, from what the bar before it left.
SarBar(bars, prev, i) ==
    IF i = 1 THEN NoSar ELSE IF i = 2 THEN SarStart(bars) ELSE SarNext(bars, prev, i)

\* The first m bars have levels.
SarUpto(bars, m, g) == DOMAIN g = 1..m /\ \A i \in 1..m : g[i] = SarBar(bars, g[i - 1], i)

LEMMA SarExists ==
    ASSUME NEW bars, NEW n \in Nat PROVE \E g : SarUpto(bars, n, g)
<1> DEFINE Without == {m \in Nat : ~\E g : SarUpto(bars, m, g)}
<1> SUFFICES ASSUME n \in Without PROVE FALSE
  OBVIOUS
<1>1. Without \in SUBSET Nat /\ Without # {}
  OBVIOUS
<1>2. PICK m \in Without : \A k \in Without : m <= k
  BY <1>1, HasLeast
<1>3. m # 0
  <2> DEFINE none == [i \in 1..0 |-> NoSar]
  <2>1. SarUpto(bars, 0, none)
    BY DEF SarUpto
  <2> QED BY <1>2, <2>1
<1>4. m \in Nat /\ m - 1 \in Nat /\ m - 1 \notin Without
  BY <1>2, <1>3
<1>5. PICK g : SarUpto(bars, m - 1, g)
  BY <1>4
<1> DEFINE h == [i \in 1..m |-> IF i < m THEN g[i] ELSE SarBar(bars, g[m - 1], m)]
<1>6. ASSUME NEW i \in 1..m PROVE h[i] = SarBar(bars, h[i - 1], i)
  <2>1. CASE i = 1
    <3>1. \A x, y : SarBar(bars, x, 1) = SarBar(bars, y, 1)
      BY DEF SarBar
    <3>2. h[1] = IF 1 < m THEN g[1] ELSE SarBar(bars, g[m - 1], m)
      BY <1>4, <2>1
    <3>3. 1 < m => g[1] = SarBar(bars, g[1 - 1], 1)
      BY <1>4, <1>5 DEF SarUpto
    <3>4. h[1] = SarBar(bars, g[1 - 1], 1)
      BY <1>3, <1>4, <3>1, <3>2, <3>3
    <3> HIDE DEF h
    <3> QED BY <2>1, <3>1, <3>4
  <2>2. CASE i # 1
    <3>1. i - 1 \in 1..m /\ i - 1 < m /\ i \in 1..m
      BY <1>4, <2>2
    <3>2. h[i - 1] = g[i - 1]
      BY <3>1
    <3>3. i < m => g[i] = SarBar(bars, g[i - 1], i)
      BY <1>4, <1>5, <3>1 DEF SarUpto
    <3>4. h[i] = SarBar(bars, g[i - 1], i)
      BY <1>4, <3>1, <3>3
    <3> HIDE DEF h
    <3> QED BY <3>2, <3>4
  <2> QED BY <2>1, <2>2
<1>7. SarUpto(bars, m, h)
  <2>1. DOMAIN h = 1..m
    OBVIOUS
  <2> HIDE DEF h
  <2> QED BY <1>6, <2>1 DEF SarUpto
<1> QED BY <1>2, <1>7

\* The levels of a chart satisfy the equation they are written by.
LEMMA SarIs ==
    ASSUME NEW bars \in Seq(ChartBars)
    PROVE  \A i \in DOMAIN bars : Sar(bars)[i] = SarBar(bars, Sar(bars)[i - 1], i)
<1> DEFINE Levels(s) == s = [i \in DOMAIN bars |->
               IF i = 1 THEN NoSar ELSE IF i = 2 THEN SarStart(bars)
               ELSE SarNext(bars, s[i - 1], i)]
<1>1. PICK g : SarUpto(bars, Len(bars), g)
  BY SarExists
<1>2. DOMAIN bars = 1..Len(bars)
  OBVIOUS
<1> DEFINE s == [i \in DOMAIN bars |-> g[i]]
<1>3. \A i \in DOMAIN bars : g[i] = SarBar(bars, g[i - 1], i)
  BY <1>1, <1>2 DEF SarUpto
<1>4. \A i \in DOMAIN bars : s[i] = SarBar(bars, s[i - 1], i)
  <2> SUFFICES ASSUME NEW i \in DOMAIN bars PROVE s[i] = SarBar(bars, s[i - 1], i)
    OBVIOUS
  <2>1. s[i] = SarBar(bars, g[i - 1], i)
    BY <1>3
  <2>2. CASE i = 1
    BY <2>1, <2>2 DEF SarBar
  <2>3. CASE i # 1
    <3>1. s[i - 1] = g[i - 1]
      BY <1>2, <2>3
    <3> QED BY <2>1, <3>1
  <2> QED BY <2>2, <2>3
<1>5. Levels(s)
  <2>1. s = [i \in DOMAIN bars |-> s[i]]
    OBVIOUS
  <2> HIDE DEF s
  <2>2. s = [i \in DOMAIN bars |-> SarBar(bars, s[i - 1], i)]
    BY <1>4, <2>1
  <2> QED BY <2>2 DEF SarBar
<1>6. Sar(bars) = CHOOSE t : Levels(t)
  BY DEF Sar
<1> HIDE DEF Levels
<1>7. Levels(Sar(bars))
  BY <1>5, <1>6
<1>8. Sar(bars) = [i \in DOMAIN bars |-> SarBar(bars, Sar(bars)[i - 1], i)]
  BY <1>7 DEF Levels, SarBar
<1> QED BY <1>8

\* Between bars the levels are a side, a step, an extreme and two stops.
SarState == [up : BOOLEAN, af : Int, ep : Int, force : Int, published : Int]

LEMMA OfThree ==
    ASSUME NEW a \in Int, NEW b \in Int, NEW c \in Int
    PROVE  Min({a, b, c}) \in Int /\ Max({a, b, c}) \in Int
<1> DEFINE S == {a, b, c}
<1>1. S \in SUBSET Int
  OBVIOUS
<1>2. \E x \in S : \A y \in S : x <= y
  OBVIOUS
<1>3. \E x \in S : \A y \in S : y <= x
  OBVIOUS
<1> HIDE DEF S
<1>4. Min(S) \in Int
  BY <1>1, <1>2, MinIs
<1>5. Max(S) \in Int
  BY <1>1, <1>3, MaxIs
<1> QED BY <1>4, <1>5 DEF S

LEMMA ForceIsPrice ==
    ASSUME NEW bars \in Seq(ChartBars), NEW i \in DOMAIN bars, i > 2, NEW prev \in SarState
    PROVE  ForceAt(bars, prev, i) \in Int
<1> DEFINE projected == prev.published + (prev.af * (prev.ep - prev.published)) \div 4
<1>1. prev.published \in Int /\ prev.af \in Int /\ prev.ep \in Int
  BY DEF SarState
<1>2. prev.af * (prev.ep - prev.published) \in Int
  BY <1>1
<1>3. projected \in Int
  BY <1>1, <1>2
<1>4. i - 1 \in DOMAIN bars /\ i - 2 \in DOMAIN bars
  BY ChartPrices
<1>5. /\ bars[i - 1].low \in Int /\ bars[i - 2].low \in Int
      /\ bars[i - 1].high \in Int /\ bars[i - 2].high \in Int
  BY <1>4, ChartPrices
<1>6. ForceAt(bars, prev, i) = IF prev.up THEN Min({projected, bars[i - 1].low, bars[i - 2].low})
                             ELSE Max({projected, bars[i - 1].high, bars[i - 2].high})
  BY DEF ForceAt
<1> HIDE DEF projected
<1>7. /\ Min({projected, bars[i - 1].low, bars[i - 2].low}) \in Int
      /\ Max({projected, bars[i - 1].high, bars[i - 2].high}) \in Int
  BY <1>3, <1>5, OfThree
<1> QED BY <1>6, <1>7

\* What a bar leaves, given the stop in force during it.
SarAfter(prev, force, bar) ==
    IF IF prev.up THEN bar.low < force ELSE bar.high > force
    THEN [up |-> ~prev.up, af |-> Step, force |-> force, published |-> prev.ep,
          ep |-> IF prev.up THEN bar.low ELSE bar.high]
    ELSE IF IF prev.up THEN bar.high > prev.ep ELSE bar.low < prev.ep
    THEN [prev EXCEPT !.ep = IF prev.up THEN bar.high ELSE bar.low,
                      !.af = Least(prev.af + Step, MaxStep),
                      !.force = force, !.published = force]
    ELSE [prev EXCEPT !.force = force, !.published = force]

LEMMA SarNextIs ==
    ASSUME NEW bars, NEW prev, NEW i
    PROVE  SarNext(bars, prev, i) = SarAfter(prev, ForceAt(bars, prev, i), bars[i])
<1> DEFINE force == ForceAt(bars, prev, i)
           breached == IF prev.up THEN bars[i].low < force ELSE bars[i].high > force
           further == IF prev.up THEN bars[i].high > prev.ep ELSE bars[i].low < prev.ep
<1>1. CASE breached
  BY <1>1 DEF SarNext, SarAfter
<1>2. CASE ~breached /\ further
  BY <1>2 DEF SarNext, SarAfter
<1>3. CASE ~breached /\ ~further
  BY <1>3 DEF SarNext, SarAfter
<1> QED BY <1>1, <1>2, <1>3

\* Whatever the bar does, the stop in force during it is the one it was given.
LEMMA SarKeeps ==
    ASSUME NEW prev \in SarState, NEW force, NEW bar
    PROVE  /\ SarAfter(prev, force, bar).force = force
           /\ force \in Int /\ bar.low \in Int /\ bar.high \in Int
                 => SarAfter(prev, force, bar) \in SarState
<1> DEFINE next == SarAfter(prev, force, bar)
           turned == [up |-> ~prev.up, af |-> Step, force |-> force, published |-> prev.ep,
                      ep |-> IF prev.up THEN bar.low ELSE bar.high]
           further == [prev EXCEPT !.ep = IF prev.up THEN bar.high ELSE bar.low,
                                   !.af = Least(prev.af + Step, MaxStep),
                                   !.force = force, !.published = force]
           same == [prev EXCEPT !.force = force, !.published = force]
<1>1. next = turned \/ next = further \/ next = same
  BY DEF SarAfter
<1>2. Step \in Int /\ Least(prev.af + Step, MaxStep) \in Int
  BY TrailsAssumption DEF Least, SarState
<1>3. turned.force = force /\ further.force = force /\ same.force = force
  BY DEF SarState
<1>4. ASSUME force \in Int, bar.low \in Int, bar.high \in Int
      PROVE  turned \in SarState /\ further \in SarState /\ same \in SarState
  <2>1. turned \in SarState
    BY <1>2, <1>4 DEF SarState
  <2>2. further \in SarState
    BY <1>2, <1>4 DEF SarState
  <2>3. same \in SarState
    BY <1>4 DEF SarState
  <2> QED BY <2>1, <2>2, <2>3
<1> HIDE DEF next, turned, further, same
<1>5. next.force = force
  BY <1>1, <1>3
<1>6. force \in Int /\ bar.low \in Int /\ bar.high \in Int => next \in SarState
  BY <1>1, <1>4
<1> QED BY <1>5, <1>6 DEF next

LEMMA SarForce ==
    ASSUME NEW bars, NEW i, NEW prev \in SarState
    PROVE  SarNext(bars, prev, i).force = ForceAt(bars, prev, i)
BY SarNextIs, SarKeeps

LEMMA SarStays ==
    ASSUME NEW bars \in Seq(ChartBars), NEW i \in DOMAIN bars, i > 2, NEW prev \in SarState
    PROVE  SarNext(bars, prev, i) \in SarState
<1>1. ForceAt(bars, prev, i) \in Int
  BY ForceIsPrice
<1>2. bars[i].low \in Int /\ bars[i].high \in Int
  BY ChartPrices
<1> QED BY <1>1, <1>2, SarNextIs, SarKeeps

LEMMA SarStarts ==
    ASSUME NEW bars \in Seq(ChartBars), 2 \in DOMAIN bars
    PROVE  NoSar \in SarState /\ SarStart(bars) \in SarState
<1>1. Step \in Int
  BY TrailsAssumption
<1>2. /\ bars[1].low \in Int /\ bars[2].low \in Int
      /\ bars[1].high \in Int /\ bars[2].high \in Int
  BY ChartPrices
<1>3. NoSar \in SarState
  BY <1>1 DEF NoSar, SarState, NoLevel
<1>4. SarStart(bars) \in SarState
  BY <1>2, <1>3 DEF SarStart, SarState
<1> QED BY <1>3, <1>4

LEMMA SarTyped ==
    ASSUME NEW bars \in Seq(ChartBars), 2 \in DOMAIN bars
    PROVE  \A i \in DOMAIN bars : Sar(bars)[i] \in SarState
<1> DEFINE Bad == {i \in DOMAIN bars : Sar(bars)[i] \notin SarState}
<1> SUFFICES ASSUME Bad # {} PROVE FALSE
  OBVIOUS
<1>1. DOMAIN bars = 1..Len(bars) /\ Len(bars) \in Nat
  BY ChartPrices
<1>2. Bad \in SUBSET Nat
  BY <1>1
<1>3. PICK i \in Bad : \A k \in Bad : i <= k
  BY <1>2, HasLeast
<1>4. Sar(bars)[i] = SarBar(bars, Sar(bars)[i - 1], i) /\ i \in DOMAIN bars
  BY <1>3, SarIs
<1>5. CASE i = 1
  <2>1. Sar(bars)[i] = NoSar
    BY <1>4, <1>5 DEF SarBar
  <2> QED BY <1>3, <2>1, SarStarts
<1>6. CASE i = 2
  <2>1. Sar(bars)[i] = SarStart(bars)
    BY <1>4, <1>6 DEF SarBar
  <2> QED BY <1>3, <2>1, SarStarts
<1>7. CASE i > 2
  <2>1. Sar(bars)[i] = SarNext(bars, Sar(bars)[i - 1], i)
    BY <1>1, <1>4, <1>7 DEF SarBar
  <2>2. i - 1 \in DOMAIN bars /\ ~(i <= i - 1)
    BY <1>1, <1>4, <1>7
  <2>3. Sar(bars)[i - 1] \in SarState
    BY <1>3, <2>2
  <2> QED BY <1>3, <1>4, <1>7, <2>1, <2>3, SarStays
<1> QED BY <1>1, <1>4, <1>5, <1>6, <1>7

\* The levels of a chart up to a bar are made of its bars up to that one.
LEMMA SarLooksBack ==
    ASSUME NEW one \in Seq(ChartBars), NEW other \in Seq(ChartBars),
           NEW m \in Nat, m >= 2, m <= Len(one), m <= Len(other),
           \A i \in 1..m : one[i] = other[i]
    PROVE  \A i \in 1..m : Sar(one)[i] = Sar(other)[i]
<1> DEFINE Bad == {i \in 1..m : Sar(one)[i] # Sar(other)[i]}
<1> SUFFICES ASSUME Bad # {} PROVE FALSE
  OBVIOUS
<1>1. Bad \in SUBSET Nat
  OBVIOUS
<1>2. PICK i \in Bad : \A k \in Bad : i <= k
  BY <1>1, HasLeast
<1>3. i \in 1..m /\ i \in DOMAIN one /\ i \in DOMAIN other /\ Sar(one)[i] # Sar(other)[i]
  BY <1>2, ChartPrices
<1>4. /\ Sar(one)[i] = SarBar(one, Sar(one)[i - 1], i)
      /\ Sar(other)[i] = SarBar(other, Sar(other)[i - 1], i)
  BY <1>3, SarIs
<1>5. CASE i = 1
  BY <1>3, <1>4, <1>5 DEF SarBar
<1>6. CASE i = 2
  <2>1. one[1] = other[1] /\ one[2] = other[2]
    OBVIOUS
  <2>2. SarStart(one) = SarStart(other)
    BY <2>1 DEF SarStart
  <2> QED BY <1>3, <1>4, <1>6, <2>2 DEF SarBar
<1>7. CASE i > 2
  <2>1. i - 1 \in 1..m /\ i - 2 \in 1..m /\ ~(i <= i - 1)
    BY <1>3, <1>7
  <2>2. one[i] = other[i] /\ one[i - 1] = other[i - 1] /\ one[i - 2] = other[i - 2]
    BY <1>3, <2>1
  <2>3. Sar(one)[i - 1] = Sar(other)[i - 1]
    BY <1>2, <2>1
  <2>4. \A prev : ForceAt(one, prev, i) = ForceAt(other, prev, i)
    BY <2>2 DEF ForceAt
  <2>5. \A prev : SarNext(one, prev, i) = SarNext(other, prev, i)
    BY <2>2, <2>4, SarNextIs
  <2> QED BY <1>3, <1>4, <1>7, <2>3, <2>5 DEF SarBar
<1> QED BY <1>3, <1>5, <1>6, <1>7

\* The stop of the bar after a chart is the one projected from the chart.
LEMMA NextStop ==
    ASSUME sample \in Seq(ChartBars), Len(sample) >= 2, NEW b \in ChartBars
    PROVE  LET n == Len(sample) + 1
               bars == Append(sample, b)
           IN  /\ bars \in Seq(ChartBars) /\ Len(bars) = n /\ n \in DOMAIN bars /\ bars[n] = b
               /\ \A i \in 1..Len(sample) : bars[i] = sample[i]
               /\ Sar(bars)[n - 1] \in SarState
               /\ StopAt("sar", bars, 1, n) = ForceAt(bars, Sar(bars)[n - 1], n)
               /\ StopAt("sar", bars, 1, n) \in Int
<1> DEFINE n == Len(sample) + 1
           bars == Append(sample, b)
<1>1. /\ bars \in Seq(ChartBars) /\ Len(bars) = n /\ bars[n] = b /\ n \in Nat /\ n > 2
      /\ DOMAIN bars = 1..n /\ \A i \in 1..Len(sample) : bars[i] = sample[i]
  BY AppendProperties
<1>2. n \in DOMAIN bars /\ n - 1 \in DOMAIN bars /\ 2 \in DOMAIN bars /\ n # 1 /\ n # 2
  BY <1>1
<1> HIDE DEF n, bars
<1>3. Sar(bars)[n - 1] \in SarState
  BY <1>1, <1>2, SarTyped
<1>4. Sar(bars)[n] = SarNext(bars, Sar(bars)[n - 1], n)
  BY <1>1, <1>2, SarIs DEF SarBar
<1>5. Sar(bars)[n].force = ForceAt(bars, Sar(bars)[n - 1], n)
  BY <1>3, <1>4, SarForce
<1>6. StopAt("sar", bars, 1, n) = Sar(bars)[n].force
  BY DEF StopAt
<1>7. ForceAt(bars, Sar(bars)[n - 1], n) \in Int
  BY <1>1, <1>2, <1>3, ForceIsPrice
<1> QED BY <1>1, <1>2, <1>3, <1>5, <1>6, <1>7 DEF n, bars

LEMMA StopsKnown ==
    ASSUME part = "chart" => sample \in Seq(ChartBars)
    PROVE  StopsAreKnowable
<1> SUFFICES ASSUME sample \in Seq(ChartBars), Len(sample) >= 2
             PROVE  /\ \A b, other \in ChartBars :
                          StopAt("sar", Append(sample, b), 1, Len(sample) + 1)
                             = StopAt("sar", Append(sample, other), 1, Len(sample) + 1)
                    /\ \A b \in ChartBars :
                          Leaves("sar", Append(sample, b), 1, Len(sample) + 1) =>
                             Fill("sar", Append(sample, b), 1, Len(sample) + 1) \in b.low..b.high
  BY DEF StopsAreKnowable
<1> DEFINE n == Len(sample) + 1
           with(b) == Append(sample, b)
<1>1. \A b \in ChartBars :
         /\ with(b) \in Seq(ChartBars) /\ Len(with(b)) = n /\ with(b)[n] = b
         /\ \A i \in 1..Len(sample) : with(b)[i] = sample[i]
         /\ Sar(with(b))[n - 1] \in SarState
         /\ StopAt("sar", with(b), 1, n) = ForceAt(with(b), Sar(with(b))[n - 1], n)
         /\ StopAt("sar", with(b), 1, n) \in Int
  BY NextStop
<1>2. Len(sample) \in Nat /\ n \in Nat /\ n - 1 \in 1..Len(sample) /\ n - 2 \in 1..Len(sample)
      /\ n - 1 = Len(sample)
  OBVIOUS
<1> HIDE DEF n, with
<1>3. ASSUME NEW b \in ChartBars, NEW other \in ChartBars
      PROVE  StopAt("sar", with(b), 1, n) = StopAt("sar", with(other), 1, n)
  <2>1. \A i \in 1..Len(sample) : with(b)[i] = with(other)[i]
    BY <1>1
  <2>2. Len(sample) <= Len(with(b)) /\ Len(sample) <= Len(with(other))
    BY <1>1, <1>2 DEF n
  <2>3. Sar(with(b))[n - 1] = Sar(with(other))[n - 1]
    <3>1. with(b) \in Seq(ChartBars) /\ with(other) \in Seq(ChartBars)
      BY <1>1
    <3>2. \A i \in 1..Len(sample) : Sar(with(b))[i] = Sar(with(other))[i]
      BY <1>2, <2>1, <2>2, <3>1, SarLooksBack
    <3> QED BY <1>2, <3>2
  <2>4. with(b)[n - 1] = with(other)[n - 1] /\ with(b)[n - 2] = with(other)[n - 2]
    BY <1>2, <2>1
  <2>5. \A prev : ForceAt(with(b), prev, n) = ForceAt(with(other), prev, n)
    BY <2>4 DEF ForceAt
  <2> QED BY <1>1, <2>3, <2>5
<1>4. ASSUME NEW b \in ChartBars, Leaves("sar", with(b), 1, n)
      PROVE  Fill("sar", with(b), 1, n) \in b.low..b.high
  <2>1. b.open \in Int /\ b.low \in Int /\ b.high \in Int /\ b.low <= b.open /\ b.open <= b.high
    BY BarAssumption
  <2>2. b.low <= StopAt("sar", with(b), 1, n)
    BY <1>1, <1>4 DEF Leaves
  <2>3. Fill("sar", with(b), 1, n) = Least(b.open, StopAt("sar", with(b), 1, n))
    BY <1>1 DEF Fill
  <2> QED BY <1>1, <2>1, <2>2, <2>3 DEF Least
<1> QED BY <1>3, <1>4 DEF n, with

\* The stop of the next bar of a chart is the same whatever that bar turns out to be,
\* and a fill at it is a price the bar traded at (dark_signals.py:216-292, 329-350).
THEOREM StopsComeBefore == Spec => []StopsAreKnowable
<1>1. Sampled => StopsAreKnowable
  BY StopsKnown DEF Sampled
<1> QED BY <1>1, SamplesAreRows, PTL

------------------------------------------------------------------------------
\* The records of a ledger, in the order of the file.
Ledger(ledger) ==
    /\ DOMAIN ledger \in SUBSET Nat /\ IsFiniteSet(DOMAIN ledger)
    /\ \A i \in DOMAIN ledger : ledger[i].at \in Int

\* A part that lacks an element of the whole has fewer.
LEMMA PartIsSmaller ==
    ASSUME NEW S, IsFiniteSet(S), NEW T \in SUBSET S, NEW x \in S, x \notin T
    PROVE  /\ Cardinality(T) \in Nat /\ Cardinality(S) \in Nat
           /\ Cardinality(T) < Cardinality(S)
<1>1. /\ IsFiniteSet(T) /\ Cardinality(T) <= Cardinality(S)
      /\ Cardinality(S) = Cardinality(T) => S = T
  BY FS_Subset
<1>2. Cardinality(T) \in Nat /\ Cardinality(S) \in Nat
  BY <1>1, FS_CardinalityType
<1> QED BY <1>1, <1>2

\* No two records of one arm of one candidate stand at one position.
LEMMA PositionsDiffer ==
    ASSUME NEW ledger, Ledger(ledger), NEW i \in DOMAIN ledger, NEW j \in DOMAIN ledger,
           ledger[i].key = ledger[j].key, ledger[i].arm = ledger[j].arm,
           Ordinal(ledger, i) = Ordinal(ledger, j)
    PROVE  i = j
<1> DEFINE mates(n) == {m \in DOMAIN ledger :
               /\ ledger[m].key = ledger[n].key /\ ledger[m].arm = ledger[n].arm
               /\ Before(ledger, m, n)}
<1>1. ASSUME NEW a \in DOMAIN ledger, NEW b \in DOMAIN ledger,
             ledger[a].key = ledger[b].key, ledger[a].arm = ledger[b].arm,
             Before(ledger, a, b)
      PROVE  Ordinal(ledger, a) # Ordinal(ledger, b)
  <2>1. mates(a) \in SUBSET mates(b)
    <3>1. ASSUME NEW m \in DOMAIN ledger, Before(ledger, m, a)
          PROVE  Before(ledger, m, b)
      BY <1>1, <3>1 DEF Ledger, Before
    <3> QED BY <1>1, <3>1
  <2>2. a \in mates(b) /\ a \notin mates(a)
    BY <1>1 DEF Ledger, Before
  <2>3. IsFiniteSet(mates(b))
    BY FS_Subset, mates(b) \in SUBSET DOMAIN ledger DEF Ledger
  <2>4. Ordinal(ledger, a) = Cardinality(mates(a)) /\ Ordinal(ledger, b) = Cardinality(mates(b))
    BY DEF Ordinal
  <2> HIDE DEF mates
  <2>5. /\ Cardinality(mates(a)) \in Nat /\ Cardinality(mates(b)) \in Nat
        /\ Cardinality(mates(a)) < Cardinality(mates(b))
    BY <2>1, <2>2, <2>3, PartIsSmaller
  <2> QED BY <2>4, <2>5
<1>2. i # j => Before(ledger, i, j) \/ Before(ledger, j, i)
  BY DEF Ledger, Before
<1> QED BY <1>1, <1>2

\* So a record has one partner, whichever arm it stands for, and is in one pair.
LEMMA PartnersAreUnique ==
    ASSUME NEW ledger, Ledger(ledger), NEW i \in DOMAIN ledger, NEW j \in DOMAIN ledger,
           NEW k \in DOMAIN ledger
    PROVE  /\ Partner(ledger, i, k) /\ Partner(ledger, j, k) => i = j
           /\ Partner(ledger, k, i) /\ Partner(ledger, k, j) => i = j
BY PositionsDiffer DEF Partner

LEMMA PairsShareNoRecord ==
    ASSUME NEW ledger, Ledger(ledger),
           NEW p \in WholePairs(ledger), NEW q \in WholePairs(ledger)
    PROVE  p[1] = q[1] \/ p[2] = q[2] => p = q
<1>1. /\ p \in (DOMAIN ledger) \X (DOMAIN ledger) /\ q \in (DOMAIN ledger) \X (DOMAIN ledger)
      /\ Partner(ledger, p[1], p[2]) /\ Partner(ledger, q[1], q[2])
  BY DEF WholePairs
<1>2. /\ p[1] \in DOMAIN ledger /\ p[2] \in DOMAIN ledger
      /\ q[1] \in DOMAIN ledger /\ q[2] \in DOMAIN ledger
      /\ p = <<p[1], p[2]>> /\ q = <<q[1], q[2]>>
  BY <1>1
<1>3. p[1] = q[1] => p[2] = q[2]
  BY <1>1, <1>2, PartnersAreUnique
<1>4. p[2] = q[2] => p[1] = q[1]
  BY <1>1, <1>2, PartnersAreUnique
<1> QED BY <1>2, <1>3, <1>4

\* The order of the page is strict, and decides between any two pairs.
LEMMA PageOrder ==
    ASSUME NEW ledger, Ledger(ledger)
    PROVE  LET W == WholePairs(ledger)
           IN /\ \A p \in W : ~ShownAbove(ledger, p, p)
              /\ \A p, q, r \in W :
                    ShownAbove(ledger, p, q) /\ ShownAbove(ledger, q, r) => ShownAbove(ledger, p, r)
              /\ \A p, q \in W : p = q \/ ShownAbove(ledger, p, q) \/ ShownAbove(ledger, q, p)
<1> DEFINE W == WholePairs(ledger)
           firstAt(p) == FirstSeen(ledger, ledger[p[1]].key)
<1>1. \A p \in W : /\ p[1] \in DOMAIN ledger /\ p[1] \in Nat
                   /\ ledger[p[1]].at \in Int /\ ledger[p[1]].arm = "base"
  BY DEF WholePairs, Partner, Ledger
<1>2. \A p \in W : firstAt(p) \in Nat /\ ledger[firstAt(p)].key = ledger[p[1]].key
  <2> TAKE p \in W
  <2> DEFINE S == {i \in DOMAIN ledger : ledger[i].key = ledger[p[1]].key
                                         /\ ledger[i].arm \in {"base", "sar"}}
  <2>1. S \in SUBSET Nat /\ p[1] \in S /\ firstAt(p) = Min(S)
    BY <1>1 DEF Ledger, FirstSeen
  <2>2. \A i \in S : ledger[i].key = ledger[p[1]].key
    OBVIOUS
  <2> HIDE DEF S, firstAt
  <2>3. Min(S) \in S
    BY <2>1, FirstIs
  <2> QED BY <2>1, <2>2, <2>3
<1>3. \A p, q \in W : ledger[p[1]].key = ledger[q[1]].key <=> firstAt(p) = firstAt(q)
  BY <1>2
<1>4. \A p, q \in W :
         ShownAbove(ledger, p, q) <=>
            \/ ledger[p[1]].at > ledger[q[1]].at
            \/ ledger[p[1]].at = ledger[q[1]].at /\ firstAt(p) < firstAt(q)
            \/ ledger[p[1]].at = ledger[q[1]].at /\ firstAt(p) = firstAt(q) /\ p[1] < q[1]
  BY <1>3 DEF ShownAbove
<1>5. \A p, q \in W : p[1] = q[1] => p = q
  BY PairsShareNoRecord
<1> HIDE DEF W, firstAt
<1>6. \A p \in W : ~ShownAbove(ledger, p, p)
  BY <1>1, <1>2, <1>4
<1>7. \A p, q, r \in W :
         ShownAbove(ledger, p, q) /\ ShownAbove(ledger, q, r) => ShownAbove(ledger, p, r)
  BY <1>1, <1>2, <1>4
<1>8. \A p, q \in W : p = q \/ ShownAbove(ledger, p, q) \/ ShownAbove(ledger, q, p)
  BY <1>1, <1>2, <1>4, <1>5
<1> QED BY <1>6, <1>7, <1>8 DEF W

\* The comparison of the two exits counts no record twice, whatever a ledger holds: a
\* trailing record has at most one base, and no two pairs share a record.  The page shows
\* no more pairs than its limit, and the ones it leaves out stand below all it shows
\* (sar_exit.py:171-210, 213-243).
THEOREM RecordsPairOnce ==
    ASSUME NEW ledger, Ledger(ledger)
    PROVE  /\ \A i, j, k \in DOMAIN ledger :
                 Partner(ledger, i, k) /\ Partner(ledger, j, k) => i = j
           /\ \A p, q \in WholePairs(ledger) : p[1] = q[1] \/ p[2] = q[2] => p = q
           /\ IsFiniteSet(SarPairs(ledger)) /\ Cardinality(SarPairs(ledger)) <= PairLimit
           /\ \A p \in SarPairs(ledger), q \in WholePairs(ledger) :
                 ShownAbove(ledger, q, p) => q \in SarPairs(ledger)
<1> DEFINE W == WholePairs(ledger)
           above(p) == {q \in W : ShownAbove(ledger, q, p)}
           kept == {p \in W : Cardinality(above(p)) < PairLimit}
<1>1. /\ \A i, j, k \in DOMAIN ledger : Partner(ledger, i, k) /\ Partner(ledger, j, k) => i = j
      /\ \A p, q \in W : p[1] = q[1] \/ p[2] = q[2] => p = q
  BY PartnersAreUnique, PairsShareNoRecord
<1>2. SarPairs(ledger) = kept
  BY DEF SarPairs
<1>3. IsFiniteSet(W)
  <2>1. IsFiniteSet((DOMAIN ledger) \X (DOMAIN ledger))
    BY FS_Product DEF Ledger
  <2>2. W \in SUBSET ((DOMAIN ledger) \X (DOMAIN ledger))
    BY DEF WholePairs
  <2> QED BY <2>1, <2>2, FS_Subset
<1>4. \A p \in W : IsFiniteSet(above(p)) /\ Cardinality(above(p)) \in Nat
  <2> TAKE p \in W
  <2>1. above(p) \in SUBSET W
    OBVIOUS
  <2> HIDE DEF W, above
  <2>2. IsFiniteSet(above(p))
    BY <1>3, <2>1, FS_Subset
  <2> QED BY <2>2, FS_CardinalityType
\* Of two pairs, the one above has fewer above it.
<1>5. ASSUME NEW p \in W, NEW q \in W, ShownAbove(ledger, q, p)
      PROVE  Cardinality(above(q)) < Cardinality(above(p))
  <2>1. above(q) \in SUBSET above(p)
    BY <1>5, PageOrder
  <2>2. q \in above(p) /\ q \notin above(q)
    BY <1>5, PageOrder
  <2> HIDE DEF W, above
  <2> QED BY <1>4, <2>1, <2>2, PartIsSmaller
<1>6. \A p \in kept, q \in W : ShownAbove(ledger, q, p) => q \in kept
  <2> SUFFICES ASSUME NEW p \in kept, NEW q \in W, ShownAbove(ledger, q, p)
               PROVE  q \in kept
    OBVIOUS
  <2>1. p \in W /\ Cardinality(above(p)) < PairLimit
    OBVIOUS
  <2>2. Cardinality(above(q)) < Cardinality(above(p))
    BY <1>5, <2>1
  <2>3. Cardinality(above(q)) \in Nat /\ Cardinality(above(p)) \in Nat /\ PairLimit \in Nat
    BY <1>4, <2>1, SarAssumption
  <2> HIDE DEF above
  <2>4. Cardinality(above(q)) < PairLimit
    BY <2>1, <2>2, <2>3
  <2> QED BY <2>4
\* Their numbers tell them apart, and are below the limit.
<1>7. IsFiniteSet(kept) /\ Cardinality(kept) <= PairLimit
  <2> DEFINE rank == [p \in kept |-> Cardinality(above(p))]
  <2>1. PairLimit \in Nat /\ \A p \in kept : p \in W /\ rank[p] \in 0..(PairLimit - 1)
    BY <1>4, SarAssumption
  <2>2. \A p, q \in kept : rank[p] = rank[q] => p = q
    <3> SUFFICES ASSUME NEW p \in kept, NEW q \in kept, p # q
                 PROVE  Cardinality(above(p)) # Cardinality(above(q))
      OBVIOUS
    <3>1. p \in W /\ q \in W
      OBVIOUS
    <3>2. ShownAbove(ledger, p, q) \/ ShownAbove(ledger, q, p)
      BY <3>1, PageOrder
    <3>3. Cardinality(above(p)) \in Nat /\ Cardinality(above(q)) \in Nat
      BY <1>4, <3>1
    <3>4. \/ Cardinality(above(p)) < Cardinality(above(q))
          \/ Cardinality(above(q)) < Cardinality(above(p))
      BY <1>5, <3>1, <3>2
    <3> HIDE DEF above
    <3> QED BY <3>3, <3>4
  <2>3. rank \in [kept -> 0..(PairLimit - 1)]
    BY <2>1
  <2> HIDE DEF rank, kept
  <2>4. rank \in Injection(kept, 0..(PairLimit - 1))
    BY <2>2, <2>3 DEF Injection, IsInjective
  <2>5. /\ IsFiniteSet(0..(PairLimit - 1))
        /\ Cardinality(0..(PairLimit - 1)) = PairLimit
    BY <2>1, FS_Interval
  <2> QED BY <2>4, <2>5, FS_Injection
<1> QED BY <1>1, <1>2, <1>6, <1>7
=============================================================================
