-------------------------- MODULE Backtests_proofs --------------------------
(***************************************************************************)
(* Theorems about the backtest engines, for every market, every number of  *)
(* candles and every configuration that their validation accepts: the      *)
(* balance is what was traded, the weekly report is the same books cut by  *)
(* week and its limits are kept, no stop loosens, the production engine    *)
(* earns no more than its market offered, its worst fall is reported, and  *)
(* the signals of a market upside down are the opposite ones.              *)
(*                                                                         *)
(* The engines share the variables and nothing else, so the invariant is   *)
(* one for each engine: GrowthInv for the weekly strategies, V5Inv and     *)
(* ProdInv.  Each has the types, the books, and what its own rules need:   *)
(* that a signal is only pending when the indicators of its stop exist,    *)
(* that the loop of V5 is past its first bar, that the target of the       *)
(* production engine is beyond its stop.  BacktestInv is the three.  The   *)
(* limits of the week have an invariant of their own on top of it,         *)
(* LimitsInv, for the engines that have them.                              *)
(*                                                                         *)
(* Growth, V5, Production and Signals are instances, each with its own     *)
(* copy of the operators; the Same lemmas say that the copies agree.       *)
(*                                                                         *)
(* An exponential average is recursive: what holds of it at every candle   *)
(* is proved from the first candle at which it would not (StepByStep).     *)
(***************************************************************************)
EXTENDS BacktestRequirements, FoldTheorems

-----------------------------------------------------------------------------
(* Numbers and sums                                                        *)

LEMMA LargerOfTwo ==
  ASSUME NEW a \in Int, NEW b \in Int
  PROVE  Max({a, b}) \in {a, b} /\ Max({a, b}) >= a /\ Max({a, b}) >= b
BY DEF Max

LEMMA SmallerOfTwo ==
  ASSUME NEW a \in Int, NEW b \in Int
  PROVE  Min({a, b}) \in {a, b} /\ Min({a, b}) <= a /\ Min({a, b}) <= b
BY DEF Min

LEMMA Quotients ==
  ASSUME NEW a \in Int, NEW b \in Nat \ {0}
  PROVE  a \div b \in Int
OBVIOUS

LEMMA Products ==
  ASSUME NEW a \in Int, NEW b \in Int
  PROVE  a * b \in Int
OBVIOUS

\* A sequence that grows by one value.
LEMMA SumAppends ==
  ASSUME NEW n \in Nat, NEW f, NEW g, DOMAIN f = 1..n, DOMAIN g = 1..(n + 1),
         \A i \in 1..n : f[i] \in Int /\ g[i] = f[i], g[n + 1] \in Int
  PROVE  SumFunction(g) = SumFunction(f) + g[n + 1] /\ SumFunction(f) \in Int
<1>1. IsFiniteSet(1..n) /\ IsFiniteSet(1..(n + 1))
  BY FS_Interval
<1>2. (1..(n + 1)) \ {n + 1} = 1..n /\ n + 1 \in 1..(n + 1)
  OBVIOUS
<1>3. \A i \in 1..(n + 1) : g[i] \in Int
  OBVIOUS
<1>4. SumFunctionOnSet(g, 1..(n + 1)) = g[n + 1] + SumFunctionOnSet(g, 1..n)
  BY <1>1, <1>2, <1>3, SumAdds
<1>5. SumFunctionOnSet(g, 1..n) = SumFunctionOnSet(f, 1..n)
  BY <1>1, SumAgrees
<1>6. SumFunctionOnSet(f, 1..n) \in Int
  BY <1>1, SumType
<1>7. QED
  BY <1>4, <1>5, <1>6 DEF SumFunction

-----------------------------------------------------------------------------
(* Candles                                                                 *)

Candle == {c \in [open : Int, close : Int, high : Int, low : Int] :
             /\ c.low <= c.open /\ c.open <= c.high
             /\ c.low <= c.close /\ c.close <= c.high}

Histories == {h \in Seq(Candle) : Len(h) > 0}

LEMMA NextBarType ==
  ASSUME NEW close \in Int, NEW move \in CandleMoves
  PROVE  NextBar(close, move) \in Candle
<1> DEFINE open == close + move.gap
           end == open + move.body
<1>1. open \in Int /\ end \in Int /\ move.up \in Nat /\ move.down \in Nat
  BY DEF CandleMoves
<1> HIDE DEF open, end
<1>2. /\ Max({open, end}) \in Int /\ Max({open, end}) >= open /\ Max({open, end}) >= end
      /\ Min({open, end}) \in Int /\ Min({open, end}) <= open /\ Min({open, end}) <= end
  BY <1>1, LargerOfTwo, SmallerOfTwo
<1>3. NextBar(close, move) =
        [open |-> open, close |-> end,
         high |-> Max({open, end}) + move.up, low |-> Min({open, end}) - move.down]
  BY DEF NextBar, open, end
<1>4. QED
  BY <1>1, <1>2, <1>3 DEF Candle

LEMMA FirstCandleType == FirstCandle \in Candle
<1>1. Warmup[1] \in CandleMoves
  BY SimulationAssumption
<1>2. QED
  BY <1>1, NextBarType, SimulationAssumption DEF FirstCandle

LEMMA MovesType == ASSUME NEW i \in Nat \ {0} PROVE MovesOf(i) \subseteq CandleMoves
BY SimulationAssumption DEF MovesOf

LEMMA NextHistoryType ==
  ASSUME NEW h \in Histories, NEW move \in MovesOf(Len(h) + 1)
  PROVE  /\ Append(h, NextBar(Last(h).close, move)) \in Histories
         /\ Last(h) \in Candle
<1>1. h[Len(h)] \in Candle /\ Len(h) \in Nat
  BY DEF Histories
<1>2. move \in CandleMoves
  BY <1>1, MovesType
<1>3. NextBar(Last(h).close, move) \in Candle
  BY <1>1, <1>2, NextBarType DEF Last, Candle
<1>4. QED
  BY <1>1, <1>3 DEF Histories, Last

-----------------------------------------------------------------------------
(* The true range and its sum                                              *)

\* The engines read the same indicators.
LEMMA SameTrueRange ==
  \A h : Growth!TrueRange(h) = TrueRange(h) /\ V5!TrueRange(h) = TrueRange(h)
BY DEF TrueRange, Max, Min, Growth!TrueRange, Growth!Max, Growth!Min,
       V5!TrueRange, V5!Max, V5!Min

LEMMA SameSum ==
  ASSUME NEW f, NEW S
  PROVE  /\ Growth!SumFunctionOnSet(f, S) = SumFunctionOnSet(f, S)
         /\ V5!SumFunctionOnSet(f, S) = SumFunctionOnSet(f, S)
BY SumIsChosen
   DEF IsSum, Element, Growth!SumFunctionOnSet, Growth!FoldFunctionOnSet, Growth!MapThenFoldSet,
       V5!SumFunctionOnSet, V5!FoldFunctionOnSet, V5!MapThenFoldSet

LEMMA SameAtrSum ==
  ASSUME NEW h, NEW i
  PROVE  Growth!AtrSum(h, i) = AtrSum(h, i) /\ V5!AtrSum(h, i) = AtrSum(h, i)
BY SameTrueRange, SameSum
   DEF AtrSum, RollingSum, Growth!AtrSum, Growth!RollingSum, V5!AtrSum, V5!RollingSum

LEMMA SameExtremes ==
  \A h, n : /\ Growth!PreviousHigh(h, n) = PreviousHigh(h, n)
            /\ Growth!PreviousLow(h, n) = PreviousLow(h, n)
BY DEF PreviousHigh, PreviousLow, Newest, Highs, Lows, Front, Max, Min,
       Growth!PreviousHigh, Growth!PreviousLow, Growth!Newest, Growth!Highs, Growth!Lows,
       Growth!Front, Growth!Max, Growth!Min

LEMMA TrueRangeType ==
  ASSUME NEW h \in Seq(Candle)
  PROVE  DOMAIN TrueRange(h) = 1..Len(h) /\ \A i \in 1..Len(h) : TrueRange(h)[i] \in Int
<1>1. \A i \in 1..Len(h) : h[i] \in Candle
  OBVIOUS
<1>2. ASSUME NEW i \in 1..Len(h), i # 1
      PROVE  Max({h[i].high, h[i - 1].close}) - Min({h[i].low, h[i - 1].close}) \in Int
  <2>1. h[i] \in Candle /\ h[i - 1] \in Candle
    BY <1>1, <1>2
  <2>2. h[i].high \in Int /\ h[i - 1].close \in Int /\ h[i].low \in Int
    BY <2>1 DEF Candle
  <2>3. Max({h[i].high, h[i - 1].close}) \in Int /\ Min({h[i].low, h[i - 1].close}) \in Int
    BY <2>2, LargerOfTwo, SmallerOfTwo
  <2>4. QED
    BY <2>3
<1>3. ASSUME NEW i \in 1..Len(h)
      PROVE  TrueRange(h)[i] \in Int
  <2>1. h[i].high - h[i].low \in Int
    BY <1>1 DEF Candle
  <2>2. QED
    BY <1>2, <2>1 DEF TrueRange
<1>4. DOMAIN TrueRange(h) = DOMAIN h
  BY DEF TrueRange
<1>5. QED
  BY <1>3, <1>4

LEMMA AtrSumType ==
  ASSUME NEW h \in Seq(Candle), NEW n \in AtrPeriod..Len(h)
  PROVE  AtrSum(h, n) \in Int
<1> DEFINE s == SubSeq(h, 1, n)
           S == (Len(TrueRange(s)) - AtrPeriod + 1)..Len(TrueRange(s))
<1>1. AtrPeriod \in Nat \ {0}
  BY PeriodAssumption
<1>2. s \in Seq(Candle) /\ Len(s) = n
  BY <1>1
<1>3. DOMAIN TrueRange(s) = 1..n /\ \A i \in 1..n : TrueRange(s)[i] \in Int
  BY <1>2, TrueRangeType
<1>4. TrueRange(s) \in Seq(Int) /\ Len(TrueRange(s)) = n
  <2>1. TrueRange(s) = [i \in 1..n |-> TrueRange(s)[i]]
    BY <1>3 DEF TrueRange
  <2> HIDE DEF s
  <2>2. QED
    BY <1>1, <1>3, <2>1
<1>5. IsFiniteSet(S) /\ \A i \in S : TrueRange(s)[i] \in Int
  <2> HIDE DEF s
  <2>1. QED
    BY <1>1, <1>3, <1>4, FS_Interval
<1>6. AtrSum(h, n) = SumFunctionOnSet(TrueRange(s), S)
  BY DEF AtrSum, RollingSum
<1> HIDE DEF s, S
<1>7. QED
  BY <1>5, <1>6, SumType

LEMMA ValuesAreFinite ==
  ASSUME NEW f, IsFiniteSet(DOMAIN f)
  PROVE  IsFiniteSet({f[x] : x \in DOMAIN f})
<1> DEFINE T == {f[x] : x \in DOMAIN f}
           g == [x \in DOMAIN f |-> f[x]]
<1>1. g \in Surjection(DOMAIN f, T)
  BY DEF Surjection
<1>2. QED
  BY <1>1, FS_Surjection

\* The extremes of the candles before the last.
LEMMA SmallestOfMany ==
  ASSUME NEW S, IsFiniteSet(S), S \subseteq Int, S # {}
  PROVE  Min(S) \in S /\ Max(S) \in S /\ \A x \in S : Min(S) <= x /\ x <= Max(S)
<1> DEFINE f == [x \in S |-> -x]
           T == {f[x] : x \in DOMAIN f}
<1>1. IsFiniteSet(T)
  BY ValuesAreFinite
<1>2. T \subseteq Int /\ T # {}
  <2>1. \A x \in S : f[x] = -x /\ f[x] \in Int
    OBVIOUS
  <2>2. PICK x \in S : TRUE
    OBVIOUS
  <2>3. f[x] \in T
    BY <2>2
  <2>4. \A z \in T : \E y \in S : z = f[y]
    OBVIOUS
  <2> HIDE DEF f, T
  <2>5. QED
    BY <2>1, <2>3, <2>4
<1>3. PICK y \in T : \A z \in T : y >= z
  <2> HIDE DEF T
  <2>1. QED
    BY <1>1, <1>2, LargestIsMember
<1>4. PICK x \in S : y = -x
  BY <1>3
<1>5. \A z \in S : x <= z
  <2> SUFFICES ASSUME NEW z \in S PROVE x <= z
    OBVIOUS
  <2>1. -z \in T
    OBVIOUS
  <2>2. y >= -z
    BY <1>3, <2>1
  <2>3. QED
    BY <1>4, <2>2
<1>6. Min(S) \in S /\ \A z \in S : Min(S) <= z
  BY <1>4, <1>5 DEF Min
<1>7. Max(S) \in S /\ \A z \in S : z <= Max(S)
  BY LargestIsMember DEF Max, Largest
<1>8. QED
  BY <1>6, <1>7

LEMMA ExtremesType ==
  ASSUME NEW h \in Seq(Candle), NEW n \in Nat \ {0}, Len(h) > n
  PROVE  PreviousHigh(h, n) \in Int /\ PreviousLow(h, n) \in Int
<1> DEFINE s == Front(h)
           D == (Len(s) - n + 1)..Len(s)
           high == [i \in D |-> Highs(s)[i]]
           low == [i \in D |-> Lows(s)[i]]
           H == {high[i] : i \in DOMAIN high}
           L == {low[i] : i \in DOMAIN low}
<1>1. s \in Seq(Candle) /\ Len(s) = Len(h) - 1 /\ Len(s) >= n
  BY DEF Front
<1> HIDE DEF s
<1>2. D \subseteq 1..Len(s) /\ D # {} /\ IsFiniteSet(D)
  <2>1. Len(s) \in D /\ D \subseteq 1..Len(s)
    BY <1>1
  <2>2. IsFiniteSet(D)
    BY <1>1, FS_Interval
  <2>3. QED
    BY <2>1, <2>2
<1>3. /\ Highs(s) = [i \in 1..Len(s) |-> s[i].high]
      /\ Lows(s) = [i \in 1..Len(s) |-> s[i].low]
  BY <1>1 DEF Highs, Lows
<1>a. Len(Highs(s)) = Len(s) /\ Len(Lows(s)) = Len(s)
  BY <1>1, <1>3
<1>4. \A i \in 1..Len(s) : s[i].high \in Int /\ s[i].low \in Int
  <2>1. \A i \in 1..Len(s) : s[i] \in Candle
    BY <1>1
  <2>2. QED
    BY <2>1 DEF Candle
<1> HIDE DEF D
<1>5. \A i \in D : Highs(s)[i] \in Int /\ Lows(s)[i] \in Int
  BY <1>2, <1>3, <1>4
<1>6. IsFiniteSet(H) /\ IsFiniteSet(L)
  BY <1>2, ValuesAreFinite
<1>7. H # {} /\ L # {} /\ H \subseteq Int /\ L \subseteq Int
  BY <1>2, <1>5
<1>8. PreviousHigh(h, n) = Max(H) /\ PreviousLow(h, n) = Min(L)
  BY <1>a DEF PreviousHigh, PreviousLow, Newest, s, D
<1> HIDE DEF H, L
<1>9. QED
  BY <1>6, <1>7, <1>8, SmallestOfMany
-----------------------------------------------------------------------------
(* The weekly strategies                                                   *)

Sides == {"BUY", "SELL"}

Trade ==
  [direction : Sides, opened : Nat, closed : Nat, entry : Int, exit : Int, stop : Int,
   target : Int, volume : Int, amount : Int, pnl : Int]

LEMMA SameHelpers ==
  /\ Growth!None = None /\ V5!None = None /\ Production!None = None
  /\ \A d : /\ Growth!Toward(d) = Toward(d) /\ V5!Toward(d) = Toward(d)
            /\ Production!Toward(d) = Toward(d)
  /\ \A S : /\ Growth!Max(S) = Max(S) /\ V5!Max(S) = Max(S) /\ Production!Max(S) = Max(S)
            /\ Growth!Min(S) = Min(S) /\ V5!Min(S) = Min(S) /\ Production!Min(S) = Min(S)
  /\ \A s : /\ Growth!Last(s) = Last(s) /\ V5!Last(s) = Last(s) /\ Production!Last(s) = Last(s)
BY DEF None, Toward, Max, Min, Last, Growth!None, Growth!Toward, Growth!Max, Growth!Min,
       Growth!Last, V5!None, V5!Toward, V5!Max, V5!Min, V5!Last, Production!None,
       Production!Toward, Production!Max, Production!Min, Production!Last

LEMMA SameBars ==
  /\ Growth!Bar = Bar /\ V5!Bar = Bar /\ Production!Bar = Bar
  /\ Growth!AtEnd = AtEnd /\ V5!AtEnd = AtEnd
  /\ \A close, move : /\ Growth!NextBar(close, move) = NextBar(close, move)
                      /\ V5!NextBar(close, move) = NextBar(close, move)
                      /\ Production!NextBar(close, move) = NextBar(close, move)
  /\ \A i : /\ Growth!MovesOf(i) = MovesOf(i) /\ V5!MovesOf(i) = MovesOf(i)
            /\ Production!MovesOf(i) = MovesOf(i)
BY SameHelpers
   DEF Bar, AtEnd, NextBar, MovesOf, Growth!Bar, Growth!AtEnd, Growth!NextBar, Growth!MovesOf,
       V5!Bar, V5!AtEnd, V5!NextBar, V5!MovesOf, Production!Bar, Production!NextBar,
       Production!MovesOf

LEMMA SameMoney ==
  /\ \A d, x : /\ Growth!WithEntryCost(d, x) = WithEntryCost(d, x)
               /\ V5!WithEntryCost(d, x) = WithEntryCost(d, x)
               /\ Production!WithEntryCost(d, x) = WithEntryCost(d, x)
               /\ Growth!WithExitCost(d, x) = WithExitCost(d, x)
               /\ V5!WithExitCost(d, x) = WithExitCost(d, x)
               /\ Production!WithExitCost(d, x) = WithExitCost(d, x)
  /\ \A d, x, y, v : /\ Growth!Pnl(d, x, y, v) = Pnl(d, x, y, v)
                     /\ V5!Pnl(d, x, y, v) = Pnl(d, x, y, v)
                     /\ Production!Pnl(d, x, y, v) = Pnl(d, x, y, v)
BY SameHelpers
   DEF WithEntryCost, WithExitCost, Pnl, Growth!WithEntryCost, Growth!WithExitCost, Growth!Pnl,
       V5!WithEntryCost, V5!WithExitCost, V5!Pnl, Production!WithEntryCost,
       Production!WithExitCost, Production!Pnl

LEMMA CostsType ==
  ASSUME NEW d, NEW x \in Int
  PROVE  WithEntryCost(d, x) \in Int /\ WithExitCost(d, x) \in Int
BY SimulationAssumption DEF WithEntryCost, WithExitCost, Toward

LEMMA TowardType ==
  ASSUME NEW d, NEW x \in Int
  PROVE  Toward(d) * x \in Int /\ (Toward(d) * x = x \/ Toward(d) * x = -x)
BY DEF Toward

LEMMA PnlType ==
  ASSUME NEW d, NEW x \in Int, NEW y \in Int, NEW v \in Int
  PROVE  Pnl(d, x, y, v) \in Int
BY TowardType, Products DEF Pnl

GrowthPosition ==
  [direction : Sides, entry : Int, stop : Int, target : Int, volume : Int, risk : Int,
   amount : Int, opened : Nat]

LEMMA GrowthStopType ==
  ASSUME NEW d \in Sides, NEW entry \in Int, NEW h \in Histories,
         Len(h) >= AtrPeriod, Len(h) > SwingLookback
  PROVE  Growth!StopPrice(d, entry, h) \in Int
<1> DEFINE atr == AtrSum(h, Len(h)) \div AtrPeriod
           atrStop == entry - Toward(d) * ((atr * AtrStop10) \div 10)
           structural == IF d = "BUY" THEN PreviousLow(h, SwingLookback) - atr \div 10
                         ELSE PreviousHigh(h, SwingLookback) + atr \div 10
<1>1. h \in Seq(Candle) /\ AtrPeriod \in Nat \ {0} /\ SwingLookback \in Nat \ {0}
      /\ AtrStop10 \in Nat
  BY PeriodAssumption, BacktestAssumption DEF Histories, Growth!ValidConfig
<1>2. AtrSum(h, Len(h)) \in Int
  BY <1>1, AtrSumType
<1>3. atr \in Int
  BY <1>1, <1>2, Quotients
<1> HIDE DEF atr
<1>4. (atr * AtrStop10) \div 10 \in Int /\ atr \div 10 \in Int
  BY <1>1, <1>3, Products
<1>5. atrStop \in Int
  BY <1>4, TowardType
<1>6. structural \in Int
  BY <1>1, <1>4, ExtremesType
<1>7. Growth!StopPrice(d, entry, h) =
        IF d = "BUY" THEN Min({atrStop, structural}) ELSE Max({atrStop, structural})
  BY SameHelpers, SameAtrSum, SameExtremes DEF Growth!StopPrice, atr
<1> HIDE DEF atrStop, structural
<1>8. QED
  BY <1>5, <1>6, <1>7, LargerOfTwo, SmallerOfTwo

LEMMA GrowthVolumeType ==
  ASSUME NEW money \in Int, NEW distance \in Int
  PROVE  Growth!VolumeForRisk(money, distance) \in Int
<1>1. RiskPercent \in Nat /\ MinVolume \in Int /\ MaxVolume \in Int
  BY BacktestAssumption DEF Growth!ValidConfig
<1>2. CASE distance <= 0
  BY <1>2 DEF Growth!VolumeForRisk
<1>3. CASE distance > 0
  <2> DEFINE lots == (money * RiskPercent) \div (100 * distance)
  <2>1. lots \in Int
    BY <1>1, <1>3, Products, Quotients
  <2> HIDE DEF lots
  <2>2. Max({lots, MinVolume}) \in Int
    BY <1>1, <2>1, LargerOfTwo
  <2>3. Min({Max({lots, MinVolume}), MaxVolume}) \in Int
    BY <1>1, <2>2, SmallerOfTwo
  <2>4. QED
    BY <2>3, SameHelpers DEF Growth!VolumeForRisk, Growth!RoundDownVolume, lots
<1>4. QED
  BY <1>2, <1>3

LEMMA GrowthEntryType ==
  ASSUME NEW d \in Sides, NEW h \in Histories, NEW money \in Int,
         Len(h) >= AtrPeriod, Len(h) > SwingLookback
  PROVE  Growth!Entry(d, h, money) \in GrowthPosition \cup {None}
<1> DEFINE entry == WithEntryCost(d, Last(h).open)
           stop == Growth!StopPrice(d, entry, h)
           distance == Toward(d) * (entry - stop)
           volume == Growth!VolumeForRisk(money, distance)
           target == entry + Toward(d) * ((distance * RiskReward2) \div 2)
           opened ==
             [direction |-> d, entry |-> entry, stop |-> stop, target |-> target,
              volume |-> volume, risk |-> distance, amount |-> distance * volume,
              opened |-> Len(h)]
<1>1. h[Len(h)] \in Candle /\ Len(h) \in Nat /\ RiskReward2 \in Nat
  BY BacktestAssumption DEF Histories, Growth!ValidConfig
<1>2. entry \in Int
  BY <1>1, CostsType DEF Last, Candle
<1>3. Growth!Entry(d, h, money) = IF distance <= 0 \/ volume <= 0 THEN None ELSE opened
  BY SameHelpers, SameMoney DEF Growth!Entry
<1> HIDE DEF entry
<1>4. stop \in Int
  BY <1>2, GrowthStopType
<1> HIDE DEF stop
<1>5. distance \in Int
  BY <1>2, <1>4, TowardType
<1> HIDE DEF distance
<1>6. volume \in Int
  BY <1>5, GrowthVolumeType
<1> HIDE DEF volume
<1>7. distance * volume \in Int /\ (distance * RiskReward2) \div 2 \in Int
  BY <1>1, <1>5, <1>6, Products
<1>8. target \in Int
  BY <1>2, <1>7, TowardType
<1> HIDE DEF target
<1>9. opened \in GrowthPosition
  BY <1>1, <1>2, <1>4, <1>5, <1>6, <1>7, <1>8 DEF GrowthPosition
<1> HIDE DEF opened
<1>10. QED
  BY <1>3, <1>9

LEMMA GrowthTradeType ==
  ASSUME NEW p \in GrowthPosition, NEW raw \in Int, candles \in Histories
  PROVE  Growth!TradeOf(p, raw) \in Trade /\ Growth!TradeOf(p, raw).closed = Len(candles)
<1> DEFINE exit == WithExitCost(p.direction, raw)
           pnl == Pnl(p.direction, p.entry, exit, p.volume)
<1>1. exit \in Int
  BY CostsType
<1>2. Growth!TradeOf(p, raw) =
        [direction |-> p.direction, opened |-> p.opened, closed |-> Len(candles),
         entry |-> p.entry, exit |-> exit, stop |-> p.stop, target |-> p.target,
         volume |-> p.volume, amount |-> p.amount, pnl |-> pnl]
  BY SameMoney DEF Growth!TradeOf
<1> HIDE DEF exit
<1>3. pnl \in Int
  BY <1>1, PnlType DEF GrowthPosition
<1>4. Len(candles) \in Nat
  BY DEF Histories
<1> HIDE DEF pnl
<1>5. QED
  BY <1>1, <1>2, <1>3, <1>4 DEF Trade, GrowthPosition
-----------------------------------------------------------------------------
(* The books                                                               *)

LEMMA PnlAppends ==
  ASSUME NEW s \in Seq(Trade), NEW t \in Trade
  PROVE  PnlSum(Append(s, t)) = PnlSum(s) + t.pnl /\ PnlSum(s) \in Int
<1> DEFINE f == [i \in DOMAIN s |-> s[i].pnl]
           r == Append(s, t)
           g == [i \in DOMAIN r |-> r[i].pnl]
           n == Len(s)
<1>1. n \in Nat /\ DOMAIN s = 1..n /\ DOMAIN r = 1..(n + 1) /\ r[n + 1] = t
      /\ \A i \in 1..n : r[i] = s[i] /\ s[i] \in Trade
  OBVIOUS
<1> HIDE DEF r, n
<1>2. DOMAIN f = 1..n /\ DOMAIN g = 1..(n + 1)
  BY <1>1
<1>3. /\ \A i \in 1..n : f[i] \in Int /\ g[i] = f[i]
      /\ g[n + 1] = t.pnl /\ g[n + 1] \in Int
  <2>1. t.pnl \in Int /\ \A i \in 1..n : s[i].pnl \in Int
    BY <1>1 DEF Trade
  <2>2. /\ \A i \in 1..n : f[i] = s[i].pnl /\ g[i] = r[i].pnl
        /\ g[n + 1] = r[n + 1].pnl
    BY <1>1
  <2>3. QED
    BY <1>1, <2>1, <2>2
<1>4. PnlSum(s) = SumFunction(f) /\ PnlSum(r) = SumFunction(g)
  BY DEF PnlSum
<1> HIDE DEF f, g
<1>5. QED
  BY <1>1, <1>2, <1>3, <1>4, SumAppends DEF r

LEMMA PnlSumType ==
  ASSUME NEW s \in Seq(Trade)
  PROVE  PnlSum(s) \in Int
<1> DEFINE n == Len(s)
           f == [i \in DOMAIN s |-> s[i].pnl]
<1>1. n \in Nat /\ DOMAIN s = 1..n /\ \A i \in 1..n : s[i] \in Trade
  OBVIOUS
<1> HIDE DEF n
<1>2. \A i \in 1..n : f[i] \in Int
  BY <1>1 DEF Trade
<1>3. DOMAIN f = 1..n /\ PnlSum(s) = SumFunction(f)
  BY <1>1 DEF PnlSum
<1>4. IsFiniteSet(1..n)
  <2>1. n \in Int
    BY <1>1
  <2>2. QED
    BY <2>1, FS_Interval
<1> HIDE DEF f
<1>5. QED
  BY <1>2, <1>3, <1>4, SumType DEF SumFunction

LEMMA PnlOfNothing == PnlSum(<<>>) = 0
BY SumOfNothing DEF PnlSum, SumFunction

\* The trades that won, counted.
Winners(s) == {i \in DOMAIN s : s[i].pnl > 0}
Losers(s) == {i \in DOMAIN s : s[i].pnl < 0}

LEMMA CountsAppend ==
  ASSUME NEW s \in Seq(Trade), NEW t \in Trade
  PROVE  /\ Cardinality(Winners(Append(s, t)))
              = Cardinality(Winners(s)) + (IF t.pnl > 0 THEN 1 ELSE 0)
         /\ Cardinality(Losers(Append(s, t)))
              = Cardinality(Losers(s)) + (IF t.pnl < 0 THEN 1 ELSE 0)
         /\ Cardinality(Winners(s)) \in Nat /\ Cardinality(Losers(s)) \in Nat
<1> DEFINE r == Append(s, t)
           n == Len(s)
<1>1. n \in Nat /\ DOMAIN s = 1..n /\ DOMAIN r = 1..(n + 1) /\ r[n + 1] = t
      /\ \A i \in 1..n : r[i] = s[i]
  OBVIOUS
<1> HIDE DEF r, n
<1>2. IsFiniteSet(1..n) /\ n + 1 \notin 1..n /\ 1..(n + 1) = (1..n) \cup {n + 1}
  <2>1. IsFiniteSet(1..n)
    <3>1. n \in Int
      BY <1>1
    <3>2. QED
      BY <3>1, FS_Interval
  <2>2. QED
    BY <1>1, <2>1
<1>3. IsFiniteSet(Winners(s)) /\ n + 1 \notin Winners(s)
      /\ IsFiniteSet(Losers(s)) /\ n + 1 \notin Losers(s)
  BY <1>1, <1>2, FS_Subset DEF Winners, Losers
<1>4. Winners(r) = IF t.pnl > 0 THEN Winners(s) \cup {n + 1} ELSE Winners(s)
  BY <1>1, <1>2 DEF Winners
<1>5. Losers(r) = IF t.pnl < 0 THEN Losers(s) \cup {n + 1} ELSE Losers(s)
  BY <1>1, <1>2 DEF Losers
<1>6. Cardinality(Winners(s)) \in Nat /\ Cardinality(Losers(s)) \in Nat
  BY <1>3, FS_CardinalityType
<1>7. /\ Cardinality(Winners(s) \cup {n + 1}) = Cardinality(Winners(s)) + 1
      /\ Cardinality(Losers(s) \cup {n + 1}) = Cardinality(Losers(s)) + 1
  BY <1>3, FS_AddElement
<1>8. QED
  BY <1>4, <1>5, <1>6, <1>7 DEF r

\* A column of numbers whose last one is replaced.
LEMMA SumReplaces ==
  ASSUME NEW n \in Nat \ {0}, NEW f, NEW g, DOMAIN f = 1..n, DOMAIN g = 1..n,
         \A i \in 1..n : f[i] \in Int /\ g[i] \in Int /\ (i # n => g[i] = f[i])
  PROVE  SumFunction(g) = SumFunction(f) + (g[n] - f[n]) /\ SumFunction(f) \in Int
<1>1. IsFiniteSet(1..n) /\ n \in 1..n
  BY FS_Interval
<1>2. SumFunctionOnSet(g, 1..n) = SumFunctionOnSet(f, 1..n) + (g[n] - f[n])
  BY <1>1, SumChanges
<1>3. SumFunctionOnSet(f, 1..n) \in Int
  BY <1>1, SumType
<1>4. QED
  BY <1>2, <1>3 DEF SumFunction

WeekRecord == [start : Int, profit : Int, trades : Int, wins : Int, losses : Int]

TradeCount(ws) == SumFunction([i \in DOMAIN ws |-> ws[i].trades])
WinCount(ws) == SumFunction([i \in DOMAIN ws |-> ws[i].wins])
LossCount(ws) == SumFunction([i \in DOMAIN ws |-> ws[i].losses])

LEMMA WeekAdds ==
  ASSUME NEW ws \in Seq(WeekRecord), NEW w \in WeekRecord
  PROVE  /\ TradeCount(Append(ws, w)) = TradeCount(ws) + w.trades /\ TradeCount(ws) \in Int
         /\ WinCount(Append(ws, w)) = WinCount(ws) + w.wins /\ WinCount(ws) \in Int
         /\ LossCount(Append(ws, w)) = LossCount(ws) + w.losses /\ LossCount(ws) \in Int
<1> DEFINE r == Append(ws, w)
           n == Len(ws)
           ft == [i \in DOMAIN ws |-> ws[i].trades]  gt == [i \in DOMAIN r |-> r[i].trades]
           fw == [i \in DOMAIN ws |-> ws[i].wins]    gw == [i \in DOMAIN r |-> r[i].wins]
           fl == [i \in DOMAIN ws |-> ws[i].losses]  gl == [i \in DOMAIN r |-> r[i].losses]
<1>1. n \in Nat /\ DOMAIN ws = 1..n /\ DOMAIN r = 1..(n + 1) /\ r[n + 1] = w
      /\ \A i \in 1..n : r[i] = ws[i] /\ ws[i] \in WeekRecord
  OBVIOUS
<1> HIDE DEF r, n
<1>2. /\ DOMAIN ft = 1..n /\ DOMAIN gt = 1..(n + 1)
      /\ \A i \in 1..n : ft[i] \in Int /\ gt[i] = ft[i]
      /\ gt[n + 1] = w.trades /\ gt[n + 1] \in Int
  <2>1. w.trades \in Int /\ \A i \in 1..n : ws[i].trades \in Int /\ r[i].trades = ws[i].trades
    BY <1>1 DEF WeekRecord
  <2>2. /\ \A i \in 1..n : ft[i] = ws[i].trades /\ gt[i] = r[i].trades
        /\ gt[n + 1] = w.trades
    BY <1>1
  <2>3. QED
    BY <1>1, <2>1, <2>2
<1>3. /\ DOMAIN fw = 1..n /\ DOMAIN gw = 1..(n + 1)
      /\ \A i \in 1..n : fw[i] \in Int /\ gw[i] = fw[i]
      /\ gw[n + 1] = w.wins /\ gw[n + 1] \in Int
  <2>1. w.wins \in Int /\ \A i \in 1..n : ws[i].wins \in Int /\ r[i].wins = ws[i].wins
    BY <1>1 DEF WeekRecord
  <2>2. /\ \A i \in 1..n : fw[i] = ws[i].wins /\ gw[i] = r[i].wins
        /\ gw[n + 1] = w.wins
    BY <1>1
  <2>3. QED
    BY <1>1, <2>1, <2>2
<1>4. /\ DOMAIN fl = 1..n /\ DOMAIN gl = 1..(n + 1)
      /\ \A i \in 1..n : fl[i] \in Int /\ gl[i] = fl[i]
      /\ gl[n + 1] = w.losses /\ gl[n + 1] \in Int
  <2>1. w.losses \in Int /\ \A i \in 1..n : ws[i].losses \in Int /\ r[i].losses = ws[i].losses
    BY <1>1 DEF WeekRecord
  <2>2. /\ \A i \in 1..n : fl[i] = ws[i].losses /\ gl[i] = r[i].losses
        /\ gl[n + 1] = w.losses
    BY <1>1
  <2>3. QED
    BY <1>1, <2>1, <2>2
<1>5. /\ TradeCount(ws) = SumFunction(ft) /\ TradeCount(r) = SumFunction(gt)
      /\ WinCount(ws) = SumFunction(fw) /\ WinCount(r) = SumFunction(gw)
      /\ LossCount(ws) = SumFunction(fl) /\ LossCount(r) = SumFunction(gl)
  BY DEF TradeCount, WinCount, LossCount
<1> HIDE DEF ft, gt, fw, gw, fl, gl
<1>6. TradeCount(r) = TradeCount(ws) + w.trades /\ TradeCount(ws) \in Int
  <2>1. n \in Nat
    BY <1>1
  <2>2. SumFunction(gt) = SumFunction(ft) + gt[n + 1] /\ SumFunction(ft) \in Int
    BY <1>2, <2>1, SumAppends
  <2>3. QED
    BY <1>2, <1>5, <2>2
<1>7. WinCount(r) = WinCount(ws) + w.wins /\ WinCount(ws) \in Int
  <2>1. n \in Nat
    BY <1>1
  <2>2. SumFunction(gw) = SumFunction(fw) + gw[n + 1] /\ SumFunction(fw) \in Int
    BY <1>3, <2>1, SumAppends
  <2>3. QED
    BY <1>3, <1>5, <2>2
<1>8. LossCount(r) = LossCount(ws) + w.losses /\ LossCount(ws) \in Int
  <2>1. n \in Nat
    BY <1>1
  <2>2. SumFunction(gl) = SumFunction(fl) + gl[n + 1] /\ SumFunction(fl) \in Int
    BY <1>4, <2>1, SumAppends
  <2>3. QED
    BY <1>4, <1>5, <2>2
<1>9. QED
  BY <1>6, <1>7, <1>8 DEF r

LEMMA WeekChanges ==
  ASSUME NEW ws \in Seq(WeekRecord), ws # <<>>, NEW w \in WeekRecord
  PROVE  LET r == [ws EXCEPT ![Len(ws)] = w]
         IN  /\ TradeCount(r) = TradeCount(ws) + (w.trades - Last(ws).trades)
             /\ WinCount(r) = WinCount(ws) + (w.wins - Last(ws).wins)
             /\ LossCount(r) = LossCount(ws) + (w.losses - Last(ws).losses)
<1> DEFINE n == Len(ws)
           r == [ws EXCEPT ![n] = w]
           ft == [i \in DOMAIN ws |-> ws[i].trades]  gt == [i \in DOMAIN r |-> r[i].trades]
           fw == [i \in DOMAIN ws |-> ws[i].wins]    gw == [i \in DOMAIN r |-> r[i].wins]
           fl == [i \in DOMAIN ws |-> ws[i].losses]  gl == [i \in DOMAIN r |-> r[i].losses]
<1>1. n \in Nat \ {0} /\ DOMAIN ws = 1..n /\ DOMAIN r = 1..n /\ r[n] = w /\ Last(ws) = ws[n]
      /\ \A i \in 1..n : (i # n => r[i] = ws[i]) /\ ws[i] \in WeekRecord /\ r[i] \in WeekRecord
  BY DEF Last
<1> HIDE DEF r, n
<1>2. /\ DOMAIN ft = 1..n /\ DOMAIN gt = 1..n /\ gt[n] = w.trades /\ ft[n] = Last(ws).trades
      /\ \A i \in 1..n : ft[i] \in Int /\ gt[i] \in Int /\ (i # n => gt[i] = ft[i])
  <2>1. \A i \in 1..n : ws[i].trades \in Int /\ r[i].trades \in Int
    BY <1>1 DEF WeekRecord
  <2>2. \A i \in 1..n : ft[i] = ws[i].trades /\ gt[i] = r[i].trades
    BY <1>1
  <2>3. QED
    BY <1>1, <2>1, <2>2
<1>3. /\ DOMAIN fw = 1..n /\ DOMAIN gw = 1..n /\ gw[n] = w.wins /\ fw[n] = Last(ws).wins
      /\ \A i \in 1..n : fw[i] \in Int /\ gw[i] \in Int /\ (i # n => gw[i] = fw[i])
  <2>1. \A i \in 1..n : ws[i].wins \in Int /\ r[i].wins \in Int
    BY <1>1 DEF WeekRecord
  <2>2. \A i \in 1..n : fw[i] = ws[i].wins /\ gw[i] = r[i].wins
    BY <1>1
  <2>3. QED
    BY <1>1, <2>1, <2>2
<1>4. /\ DOMAIN fl = 1..n /\ DOMAIN gl = 1..n /\ gl[n] = w.losses /\ fl[n] = Last(ws).losses
      /\ \A i \in 1..n : fl[i] \in Int /\ gl[i] \in Int /\ (i # n => gl[i] = fl[i])
  <2>1. \A i \in 1..n : ws[i].losses \in Int /\ r[i].losses \in Int
    BY <1>1 DEF WeekRecord
  <2>2. \A i \in 1..n : fl[i] = ws[i].losses /\ gl[i] = r[i].losses
    BY <1>1
  <2>3. QED
    BY <1>1, <2>1, <2>2
<1>5. /\ TradeCount(ws) = SumFunction(ft) /\ TradeCount(r) = SumFunction(gt)
      /\ WinCount(ws) = SumFunction(fw) /\ WinCount(r) = SumFunction(gw)
      /\ LossCount(ws) = SumFunction(fl) /\ LossCount(r) = SumFunction(gl)
  BY DEF TradeCount, WinCount, LossCount
<1> HIDE DEF ft, gt, fw, gw, fl, gl
<1>6. TradeCount(r) = TradeCount(ws) + (w.trades - Last(ws).trades)
  <2>1. n \in Nat \ {0}
    BY <1>1
  <2>2. SumFunction(gt) = SumFunction(ft) + (gt[n] - ft[n])
    BY <1>2, <2>1, SumReplaces
  <2>3. QED
    BY <1>2, <1>5, <2>2
<1>7. WinCount(r) = WinCount(ws) + (w.wins - Last(ws).wins)
  <2>1. n \in Nat \ {0}
    BY <1>1
  <2>2. SumFunction(gw) = SumFunction(fw) + (gw[n] - fw[n])
    BY <1>3, <2>1, SumReplaces
  <2>3. QED
    BY <1>3, <1>5, <2>2
<1>8. LossCount(r) = LossCount(ws) + (w.losses - Last(ws).losses)
  <2>1. n \in Nat \ {0}
    BY <1>1
  <2>2. SumFunction(gl) = SumFunction(fl) + (gl[n] - fl[n])
    BY <1>4, <2>1, SumReplaces
  <2>3. QED
    BY <1>4, <1>5, <2>2
<1>9. QED
  BY <1>6, <1>7, <1>8 DEF r, n

LEMMA CountsOfNothing ==
  /\ TradeCount(<<>>) = 0 /\ WinCount(<<>>) = 0 /\ LossCount(<<>>) = 0
  /\ Cardinality(Winners(<<>>)) = 0 /\ Cardinality(Losers(<<>>)) = 0
<1>1. \A f : DOMAIN f = {} => SumFunction(f) = 0
  BY SumOfNothing DEF SumFunction
<1>2. Winners(<<>>) = {} /\ Losers(<<>>) = {}
  BY DEF Winners, Losers
<1>3. QED
  BY <1>1, <1>2, FS_EmptySet DEF TradeCount, WinCount, LossCount

\* The two sets of books of the weekly strategies.
WeekBooks ==
  /\ periods \in Seq(WeekRecord)
  /\ periods = <<>> => trades = <<>> /\ balance = StartBalance
  /\ periods # <<>> =>
       /\ periods[1].start = StartBalance
       /\ \A i \in 1..(Len(periods) - 1) :
            periods[i + 1].start = periods[i].start + periods[i].profit
       /\ balance = Last(periods).start + Last(periods).profit
       /\ TradeCount(periods) = Len(trades)
       /\ WinCount(periods) = Cardinality(Winners(trades))
       /\ LossCount(periods) = Cardinality(Losers(trades))

GrowthBooks ==
  /\ balance \in Int /\ trades \in Seq(Trade)
  /\ balance = StartBalance + PnlSum(trades)
  /\ WeekBooks

LEMMA WeekOpened ==
  ASSUME GrowthBooks, periods' = Append(periods, Growth!NewWeek(balance)),
         UNCHANGED <<balance, trades>>
  PROVE  GrowthBooks' /\ periods' # <<>>
<1> DEFINE w == [start |-> balance, profit |-> 0, trades |-> 0, wins |-> 0, losses |-> 0]
           n == Len(periods)
<1>1. periods' = Append(periods, w)
  BY DEF Growth!NewWeek
<1>2. w \in WeekRecord /\ w.start = balance /\ w.profit = 0 /\ w.trades = 0 /\ w.wins = 0
      /\ w.losses = 0
  BY DEF WeekRecord, GrowthBooks
<1> HIDE DEF w
<1>3. periods \in Seq(WeekRecord) /\ n \in Nat
  BY DEF GrowthBooks, WeekBooks
<1>4. /\ periods' \in Seq(WeekRecord) /\ periods' # <<>> /\ Len(periods') = n + 1
      /\ periods'[n + 1] = w /\ Last(periods') = w
      /\ \A i \in 1..n : periods'[i] = periods[i]
  BY <1>1, <1>2, <1>3 DEF Last
<1>5. /\ TradeCount(periods') = TradeCount(periods) + 0 /\ TradeCount(periods) \in Int
      /\ WinCount(periods') = WinCount(periods) + 0 /\ WinCount(periods) \in Int
      /\ LossCount(periods') = LossCount(periods) + 0 /\ LossCount(periods) \in Int
  BY <1>1, <1>2, <1>3, WeekAdds
<1>6. /\ TradeCount(periods) = Len(trades)
      /\ WinCount(periods) = Cardinality(Winners(trades))
      /\ LossCount(periods) = Cardinality(Losers(trades))
  <2>1. CASE periods = <<>>
    BY <2>1, CountsOfNothing DEF GrowthBooks, WeekBooks
  <2>2. CASE periods # <<>>
    BY <2>2 DEF GrowthBooks, WeekBooks
  <2>3. QED
    BY <2>1, <2>2
<1>7. balance = w.start + w.profit
  BY <1>2 DEF GrowthBooks
<1>8. periods'[1].start = StartBalance
  BY <1>2, <1>3, <1>4 DEF GrowthBooks, WeekBooks
<1>9. ASSUME NEW i \in 1..n
      PROVE  periods'[i + 1].start = periods'[i].start + periods'[i].profit
  <2>1. CASE i = n
    BY <1>2, <1>3, <1>4, <2>1 DEF GrowthBooks, WeekBooks, Last
  <2>2. CASE i # n
    BY <1>3, <1>4, <2>2 DEF GrowthBooks, WeekBooks
  <2>3. QED
    BY <2>1, <2>2
<1>10. WeekBooks'
  <2>1. \A i \in 1..(Len(periods') - 1) :
          periods'[i + 1].start = periods'[i].start + periods'[i].profit
    BY <1>3, <1>4, <1>9
  <2> HIDE DEF n
  <2>2. QED
    BY <1>4, <1>5, <1>6, <1>7, <1>8, <2>1 DEF WeekBooks
<1>11. QED
  BY <1>4, <1>10 DEF GrowthBooks

LEMMA BookedWeek ==
  ASSUME NEW week \in WeekRecord, NEW x \in Int
  PROVE  LET w == Growth!Booked(week, x)
         IN  /\ w \in WeekRecord /\ w.start = week.start /\ w.profit = week.profit + x
             /\ w.trades = week.trades + 1
             /\ w.wins = week.wins + (IF x > 0 THEN 1 ELSE 0)
             /\ w.losses = week.losses + (IF x < 0 THEN 1 ELSE 0)
<1> DEFINE won == IF x > 0 THEN 1 ELSE 0
           lost == IF x < 0 THEN 1 ELSE 0
           w == [week EXCEPT !.profit = @ + x, !.trades = @ + 1, !.wins = @ + won,
                             !.losses = @ + lost]
<1>1. Growth!Booked(week, x) = w
  BY DEF Growth!Booked, Growth!Points
<1>2. won \in Int /\ lost \in Int
  OBVIOUS
<1> HIDE DEF won, lost
<1>3. week.profit + x \in Int /\ week.trades + 1 \in Int /\ week.wins + won \in Int
      /\ week.losses + lost \in Int
  BY <1>2 DEF WeekRecord
<1>4. w \in WeekRecord
  BY <1>3 DEF WeekRecord
<1>5. w.start = week.start /\ w.profit = week.profit + x /\ w.trades = week.trades + 1
  BY DEF WeekRecord
<1>6. w.wins = week.wins + won /\ w.losses = week.losses + lost
  BY DEF WeekRecord
<1> HIDE DEF w
<1>7. QED
  BY <1>1, <1>4, <1>5, <1>6 DEF won, lost

LEMMA TradeBooked ==
  ASSUME GrowthBooks, periods # <<>>, NEW t \in Trade,
         balance' = balance + t.pnl, trades' = Append(trades, t),
         periods' = [periods EXCEPT ![Len(periods)] = Growth!Booked(@, t.pnl)]
  PROVE  GrowthBooks' /\ periods' # <<>>
<1> DEFINE n == Len(periods)
           old == Last(periods)
           won == IF t.pnl > 0 THEN 1 ELSE 0
           lost == IF t.pnl < 0 THEN 1 ELSE 0
           w == Growth!Booked(old, t.pnl)
<1>1. periods \in Seq(WeekRecord) /\ n \in Nat \ {0} /\ old = periods[n] /\ old \in WeekRecord
      /\ t.pnl \in Int
  <2>1. periods \in Seq(WeekRecord)
    BY DEF GrowthBooks, WeekBooks
  <2>2. n \in Nat \ {0} /\ periods[n] \in WeekRecord
    BY <2>1
  <2>3. t.pnl \in Int
    BY DEF Trade
  <2>4. QED
    BY <2>1, <2>2, <2>3 DEF Last
<1>3. periods' = [periods EXCEPT ![n] = w]
  BY <1>1
<1>4. w \in WeekRecord /\ w.start = old.start /\ w.profit = old.profit + t.pnl
      /\ w.trades = old.trades + 1 /\ w.wins = old.wins + won /\ w.losses = old.losses + lost
  <2> HIDE DEF old
  <2>1. QED
    BY <1>1, BookedWeek
<1> HIDE DEF w, old
<1>5. /\ periods' \in Seq(WeekRecord) /\ periods' # <<>> /\ Len(periods') = n
      /\ periods'[n] = w /\ Last(periods') = w
      /\ \A i \in 1..n : i # n => periods'[i] = periods[i]
  BY <1>1, <1>3, <1>4 DEF Last
<1>6. /\ TradeCount(periods') = TradeCount(periods) + (w.trades - old.trades)
      /\ WinCount(periods') = WinCount(periods) + (w.wins - old.wins)
      /\ LossCount(periods') = LossCount(periods) + (w.losses - old.losses)
  BY <1>1, <1>3, <1>4, WeekChanges DEF old
<1>7. old.trades \in Int /\ old.wins \in Int /\ old.losses \in Int /\ old.start \in Int
      /\ old.profit \in Int
  BY <1>1 DEF WeekRecord
<1>8. /\ Len(trades') = Len(trades) + 1 /\ Len(trades) \in Nat
      /\ Cardinality(Winners(trades')) = Cardinality(Winners(trades)) + won
      /\ Cardinality(Losers(trades')) = Cardinality(Losers(trades)) + lost
      /\ Cardinality(Winners(trades)) \in Nat /\ Cardinality(Losers(trades)) \in Nat
  BY CountsAppend DEF GrowthBooks
<1>9. /\ TradeCount(periods') = Len(trades')
      /\ WinCount(periods') = Cardinality(Winners(trades'))
      /\ LossCount(periods') = Cardinality(Losers(trades'))
  <2>1. /\ TradeCount(periods) = Len(trades)
        /\ WinCount(periods) = Cardinality(Winners(trades))
        /\ LossCount(periods) = Cardinality(Losers(trades))
    BY DEF GrowthBooks, WeekBooks
  <2> HIDE DEF won, lost
  <2>2. won \in Int /\ lost \in Int
    BY DEF won, lost
  <2>3. TradeCount(periods') = Len(trades')
    BY <1>4, <1>6, <1>7, <1>8, <2>1
  <2>4. WinCount(periods') = Cardinality(Winners(trades'))
    BY <1>4, <1>6, <1>7, <1>8, <2>1, <2>2
  <2>5. LossCount(periods') = Cardinality(Losers(trades'))
    BY <1>4, <1>6, <1>7, <1>8, <2>1, <2>2
  <2>6. QED
    BY <2>3, <2>4, <2>5
<1>10. balance' = w.start + w.profit /\ balance' \in Int
  <2>1. balance = old.start + old.profit /\ balance \in Int
    BY DEF GrowthBooks, WeekBooks, old
  <2>2. w.start + w.profit = old.start + old.profit + t.pnl
    BY <1>1, <1>4, <1>7
  <2>3. QED
    BY <1>1, <2>1, <2>2
<1>11. periods'[1].start = StartBalance
  <2>1. periods[1].start = StartBalance
    BY DEF GrowthBooks, WeekBooks
  <2>2. CASE n = 1
    BY <1>1, <1>4, <1>5, <2>1, <2>2
  <2>3. CASE n # 1
    <3>1. 1 \in 1..n
      BY <1>1
    <3>2. periods'[1] = periods[1]
      BY <1>5, <2>3, <3>1
    <3>3. QED
      BY <2>1, <3>2
  <2>4. QED
    BY <2>2, <2>3
<1>12. ASSUME NEW i \in 1..(n - 1)
       PROVE  periods'[i + 1].start = periods'[i].start + periods'[i].profit
  <2>1. periods[i + 1].start = periods[i].start + periods[i].profit
    BY DEF GrowthBooks, WeekBooks
  <2>2. periods'[i] = periods[i] /\ periods'[i + 1].start = periods[i + 1].start
    <3>1. i \in 1..n /\ i # n /\ i + 1 \in 1..n
      BY <1>1
    <3>2. CASE i + 1 = n
      BY <1>1, <1>4, <1>5, <3>1, <3>2
    <3>3. CASE i + 1 # n
      BY <1>5, <3>1, <3>3
    <3>4. QED
      BY <3>2, <3>3
  <2>3. QED
    BY <2>1, <2>2
<1>13. WeekBooks'
  <2> HIDE DEF won, lost, n
  <2>1. QED
    BY <1>5, <1>9, <1>10, <1>11, <1>12 DEF WeekBooks
<1>14. balance' = StartBalance + PnlSum(trades') /\ trades' \in Seq(Trade)
  <2>1. PnlSum(trades') = PnlSum(trades) + t.pnl /\ PnlSum(trades) \in Int
    BY PnlAppends DEF GrowthBooks
  <2>2. trades' \in Seq(Trade)
    BY DEF GrowthBooks
  <2>3. QED
    BY <1>1, <2>1, <2>2, SimulationAssumption DEF GrowthBooks
<1>15. QED
  BY <1>5, <1>10, <1>13, <1>14 DEF GrowthBooks

-----------------------------------------------------------------------------
(* The steps of the weekly strategies                                      *)

GrowthInv ==
  /\ candles \in Histories
  /\ position \in GrowthPosition \cup {None}
  /\ pending \in [direction : Sides] \cup {None}
  /\ pending # None => Len(candles) >= AtrPeriod /\ Len(candles) > SwingLookback
  /\ position # None \/ phase \in {"exit", "enter", "score"} => periods # <<>>
  /\ GrowthBooks

\* A step keeps the stop of a position that stays open, or betters it.
StopKept ==
  position # None /\ position' # None /\ position.opened = position'.opened =>
    Toward(position.direction) * (position'.stop - position.stop) >= 0

LEMMA PositionIsNotNone == \A p \in GrowthPosition : p # None
BY DEF GrowthPosition, None, Sides

LEMMA UnchangedStop ==
  ASSUME position \in GrowthPosition \cup {None}, position' = position
  PROVE  StopKept
<1>1. CASE position # None
  BY <1>1 DEF StopKept, Toward, GrowthPosition
<1>2. QED
  BY <1>1 DEF StopKept

\* An indicator of the candle is there, so the averages are.
LEMMA ScoredIsLongEnough ==
  ASSUME NEW h \in Histories, Growth!HasIndicators(h)
  PROVE  Len(h) >= AtrPeriod /\ Len(h) > SwingLookback
BY PeriodAssumption DEF Growth!HasIndicators, Growth!HasAtrRatio, Histories

LEMMA GrowthCandle ==
  ASSUME GrowthInv, Growth!NextCandle
  PROVE  GrowthInv' /\ StopKept
<1>1. PICK move \in MovesOf(Len(candles) + 1) :
        candles' = Append(candles, NextBar(Bar.close, move))
  BY SameBars DEF Growth!NextCandle
<1>2. candles' \in Histories /\ Len(candles') = Len(candles) + 1 /\ Len(candles) \in Nat
  BY <1>1, NextHistoryType DEF GrowthInv, Bar, Histories
<1>3. position' = position /\ balance' = balance /\ trades' = trades /\ phase' = "exit"
  BY DEF Growth!NextCandle
<1>4. CASE periods' = Append(periods, Growth!NewWeek(balance)) /\ pending' = None
  <2>1. GrowthBooks' /\ periods' # <<>>
    BY <1>3, <1>4, WeekOpened DEF GrowthInv
  <2>2. QED
    BY <1>2, <1>3, <1>4, <2>1, UnchangedStop DEF GrowthInv
<1>5. CASE periods # <<>> /\ UNCHANGED <<periods, pending>>
  <2>1. GrowthBooks' /\ periods' # <<>>
    BY <1>3, <1>5 DEF GrowthInv, GrowthBooks, WeekBooks
  <2>2. pending' # None => Len(candles') >= AtrPeriod /\ Len(candles') > SwingLookback
    BY <1>2, <1>5, PeriodAssumption DEF GrowthInv
  <2>3. QED
    BY <1>2, <1>3, <1>5, <2>1, <2>2, UnchangedStop DEF GrowthInv
<1>6. QED
  BY <1>4, <1>5, SameHelpers DEF Growth!NextCandle

LEMMA GrowthCloses ==
  ASSUME GrowthInv, position # None, NEW raw \in Int, Growth!CloseAt(raw)
  PROVE  GrowthBooks' /\ periods' # <<>> /\ position' = None
<1> DEFINE t == Growth!TradeOf(position, raw)
<1>1. t \in Trade
  BY GrowthTradeType DEF GrowthInv
<1>2. /\ balance' = balance + t.pnl /\ trades' = Append(trades, t) /\ position' = None
      /\ periods' = [periods EXCEPT ![Len(periods)] = Growth!Booked(@, t.pnl)]
  BY SameHelpers DEF Growth!CloseAt
<1>3. GrowthBooks /\ periods # <<>>
  BY DEF GrowthInv
<1> HIDE DEF t
<1>4. QED
  BY <1>1, <1>2, <1>3, TradeBooked

LEMMA GrowthExit ==
  ASSUME GrowthInv, Growth!ExitPosition
  PROVE  GrowthInv' /\ StopKept
<1>1. position # None
  BY SameHelpers DEF Growth!ExitPosition
<1>2. PICK raw \in Growth!ExitPrices(position, Bar) : Growth!CloseAt(raw)
  BY SameBars DEF Growth!ExitPosition
<1>3. raw \in Int
  BY <1>1, <1>2 DEF Growth!ExitPrices, GrowthInv, GrowthPosition
<1>4. GrowthBooks' /\ periods' # <<>> /\ position' = None
  BY <1>1, <1>2, <1>3, GrowthCloses
<1>5. pending' = None /\ candles' = candles
  BY SameHelpers DEF Growth!ExitPosition
<1>6. QED
  BY <1>4, <1>5 DEF GrowthInv, StopKept

LEMMA GrowthFinish ==
  ASSUME GrowthInv, Growth!FinishRun
  PROVE  GrowthInv' /\ StopKept
<1>1. pending' = pending /\ candles' = candles /\ phase' = "done"
  BY DEF Growth!FinishRun
<1>2. CASE position = None
  <2>1. UNCHANGED <<balance, position, periods, trades>>
    BY <1>2, SameHelpers DEF Growth!FinishRun, Growth!account
  <2>2. GrowthBooks'
    BY <2>1 DEF GrowthInv, GrowthBooks, WeekBooks
  <2>3. QED
    BY <1>1, <1>2, <2>1, <2>2, UnchangedStop DEF GrowthInv
<1>3. CASE position # None
  <2>1. Growth!CloseAt(Bar.close)
    BY <1>3, SameHelpers, SameBars DEF Growth!FinishRun
  <2>2. Bar.close \in Int
    BY DEF GrowthInv, Histories, Bar, Last, Candle
  <2>3. GrowthBooks' /\ periods' # <<>> /\ position' = None
    BY <1>3, <2>1, <2>2, GrowthCloses
  <2>4. QED
    BY <1>1, <2>3 DEF GrowthInv, StopKept
<1>4. QED
  BY <1>2, <1>3

\* What leaves candles, books and position as they are.
LEMMA GrowthIdle ==
  ASSUME GrowthInv, UNCHANGED <<candles, balance, position, periods, trades>>,
         pending' \in [direction : Sides] \cup {None},
         pending' # None => Len(candles) >= AtrPeriod /\ Len(candles) > SwingLookback,
         phase' \in {"exit", "enter", "score"} => phase \in {"exit", "enter", "score"}
  PROVE  GrowthInv' /\ StopKept
<1>1. GrowthBooks'
  BY DEF GrowthInv, GrowthBooks, WeekBooks
<1>2. QED
  BY <1>1, UnchangedStop DEF GrowthInv

LEMMA GrowthEnter ==
  ASSUME GrowthInv, Growth!EnterPending
  PROVE  GrowthInv' /\ StopKept
<1>1. position = None /\ pending # None /\ pending.direction \in Sides /\ phase = "enter"
  BY SameHelpers DEF Growth!EnterPending, GrowthInv
<1>2. \/ position' = None
      \/ position' = Growth!Entry(pending.direction, candles, balance)
  BY SameHelpers DEF Growth!EnterPending
<1>3. Growth!Entry(pending.direction, candles, balance) \in GrowthPosition \cup {None}
  BY <1>1, GrowthEntryType DEF GrowthInv, GrowthBooks
<1>4. UNCHANGED <<candles, balance, periods, trades>> /\ pending' = None
  BY SameHelpers DEF Growth!EnterPending
<1>5. GrowthBooks'
  BY <1>4 DEF GrowthInv, GrowthBooks, WeekBooks
<1>6. QED
  BY <1>1, <1>2, <1>3, <1>4, <1>5 DEF GrowthInv, StopKept

LEMMA SignalIsScored ==
  ASSUME NEW h, Growth!ScoreSignal(h) \in Sides
  PROVE  Growth!HasIndicators(h)
BY DEF Growth!ScoreSignal, Sides

\* Without indicators the two scores are equal, which is no direction.
LEMMA DirectionIsScored ==
  ASSUME NEW h, Growth!V4Direction(h) # "NONE"
  PROVE  Growth!V4Direction(h) \in Sides /\ Growth!HasIndicators(h)
<1>1. CASE ~Growth!Rated(h)
  <2>1. Growth!V4BuyScore(h) = 0 /\ Growth!V4SellScore(h) = 0
    BY <1>1 DEF Growth!V4BuyScore, Growth!V4SellScore, Growth!Points
  <2>2. MinSignalScore \in Int
    BY BacktestAssumption DEF Growth!ValidConfig
  <2>3. QED
    BY <2>1, <2>2 DEF Growth!V4Direction
<1>2. CASE Growth!Rated(h)
  BY <1>2 DEF Growth!V4Direction, Growth!Rated, Sides
<1>3. QED
  BY <1>1, <1>2

LEMMA GrowthScores ==
  ASSUME GrowthInv, Growth!ScoreCandle \/ Growth!V4Score
  PROVE  GrowthInv' /\ StopKept
<1>1. UNCHANGED <<candles, balance, position, periods, trades>> /\ phase' = "next"
  BY DEF Growth!ScoreCandle, Growth!V4Score, Growth!account
<1>2. \/ pending' \in {pending, None}
      \/ pending' \in [direction : Sides] /\ Growth!HasIndicators(candles)
  <2>1. CASE Growth!ScoreCandle
    <3>1. \/ pending' \in {pending, None}
          \/ /\ Growth!ScoreSignal(candles) \in Sides
             /\ pending' = [direction |-> Growth!ScoreSignal(candles)]
      BY <2>1, SameHelpers DEF Growth!ScoreCandle, Sides
    <3>2. QED
      BY <3>1, SignalIsScored
  <2>2. CASE Growth!V4Score
    <3>1. \/ pending' \in {pending, None}
          \/ /\ Growth!V4Direction(candles) # "NONE"
             /\ pending' = [direction |-> Growth!V4Direction(candles)]
      BY <2>2, SameHelpers DEF Growth!V4Score
    <3>2. QED
      BY <3>1, DirectionIsScored
  <2>3. QED
    BY <2>1, <2>2
<1>3. pending' # None => Len(candles) >= AtrPeriod /\ Len(candles) > SwingLookback
  BY <1>2, ScoredIsLongEnough DEF GrowthInv
<1>4. pending' \in [direction : Sides] \cup {None}
  BY <1>2 DEF GrowthInv
<1>5. QED
  BY <1>1, <1>3, <1>4, GrowthIdle

LEMMA GrowthWaits ==
  ASSUME GrowthInv,
         Growth!KeepPosition \/ Growth!NothingToEnter \/ Growth!V4Flat \/ Growth!V4Crash
  PROVE  GrowthInv' /\ StopKept
<1>1. /\ UNCHANGED <<candles, balance, position, periods, trades, pending>>
      /\ phase \in {"exit", "enter", "score"}
  BY DEF Growth!KeepPosition, Growth!NothingToEnter, Growth!V4Flat, Growth!V4Crash,
         Growth!account
<1>2. QED
  BY <1>1, GrowthIdle DEF GrowthInv

\* A stop that replaces another one.
LEMMA StopReplaced ==
  ASSUME NEW p \in GrowthPosition, NEW x \in Int
  PROVE  LET q == [p EXCEPT !.stop = x]
         IN  q \in GrowthPosition /\ q.stop = x /\ q.direction = p.direction
BY DEF GrowthPosition

LEMMA TighterIsTighter ==
  ASSUME NEW p \in GrowthPosition, NEW x \in Int
  PROVE  /\ Growth!Tighter(p, x) \in Int
         /\ Toward(p.direction) * (Growth!Tighter(p, x) - p.stop) >= 0
<1>1. p.stop \in Int
  BY DEF GrowthPosition
<1>2. /\ Max({p.stop, x}) \in Int /\ Max({p.stop, x}) >= p.stop
      /\ Min({p.stop, x}) \in Int /\ Min({p.stop, x}) <= p.stop
  BY <1>1, LargerOfTwo, SmallerOfTwo
<1>3. Growth!Tighter(p, x) = IF p.direction = "BUY" THEN Max({p.stop, x}) ELSE Min({p.stop, x})
  BY SameHelpers DEF Growth!Tighter
<1>4. QED
  BY <1>1, <1>2, <1>3 DEF Toward

LEMMA ProtectionTightens ==
  ASSUME NEW p \in GrowthPosition, NEW close \in Int
  PROVE  LET q == Growth!ApplyProfitProtection(p, close)
         IN  q \in GrowthPosition /\ Toward(p.direction) * (q.stop - p.stop) >= 0
<1> DEFINE half == Toward(p.direction) * (p.risk \div 2)
           Moved(q) == \E x \in Int : q = [p EXCEPT !.stop = Growth!Tighter(p, x)]
<1>1. p.entry \in Int /\ p.risk \in Int /\ p.stop \in Int
  BY DEF GrowthPosition
<1>2. half \in Int /\ Toward(p.direction) * p.risk \in Int
  BY <1>1, TowardType
<1> HIDE DEF half
<1>3. p.entry \in Int /\ p.entry + half \in Int /\ close - Toward(p.direction) * p.risk \in Int
  BY <1>1, <1>2
<1>4. Growth!ApplyProfitProtection(p, close) \in
        {p, [p EXCEPT !.stop = Growth!Tighter(p, p.entry)],
         [p EXCEPT !.stop = Growth!Tighter(p, p.entry + half)],
         [p EXCEPT !.stop = Growth!Tighter(p, close - Toward(p.direction) * p.risk)]}
  BY SameHelpers DEF Growth!ApplyProfitProtection, half
<1>5. Growth!ApplyProfitProtection(p, close) = p \/ Moved(Growth!ApplyProfitProtection(p, close))
  BY <1>3, <1>4
<1>6. ASSUME NEW x \in Int
      PROVE  LET q == [p EXCEPT !.stop = Growth!Tighter(p, x)]
             IN  q \in GrowthPosition /\ Toward(p.direction) * (q.stop - p.stop) >= 0
  BY TighterIsTighter, StopReplaced
<1>7. Toward(p.direction) * (p.stop - p.stop) >= 0
  BY <1>1 DEF Toward
<1>8. QED
  BY <1>5, <1>6, <1>7

LEMMA GrowthProtects ==
  ASSUME GrowthInv, Growth!V3Protect
  PROVE  GrowthInv' /\ StopKept
<1>1. UNCHANGED <<candles, balance, periods, trades, pending>> /\ phase = "exit"
  BY DEF Growth!V3Protect
<1>2. GrowthBooks'
  BY <1>1 DEF GrowthInv, GrowthBooks, WeekBooks
<1>3. Bar.close \in Int
  BY DEF GrowthInv, Histories, Bar, Last, Candle
<1>4. position' = IF position = None THEN None
                  ELSE Growth!ApplyProfitProtection(position, Bar.close)
  BY SameHelpers, SameBars DEF Growth!V3Protect
<1>5. CASE position = None
  BY <1>1, <1>2, <1>4, <1>5 DEF GrowthInv, StopKept
<1>6. CASE position # None
  <2>1. position' \in GrowthPosition
        /\ Toward(position.direction) * (position'.stop - position.stop) >= 0
    BY <1>3, <1>4, <1>6, ProtectionTightens DEF GrowthInv
  <2>2. QED
    BY <1>1, <1>2, <1>6, <2>1 DEF GrowthInv, StopKept
<1>7. QED
  BY <1>5, <1>6

LEMMA GrowthKept ==
  ASSUME GrowthInv, Growth!Next \/ Growth!V3Next \/ Growth!V4Next
  PROVE  GrowthInv' /\ StopKept
BY GrowthCandle, GrowthExit, GrowthFinish, GrowthEnter, GrowthScores, GrowthWaits, GrowthProtects
   DEF Growth!Next, Growth!V3Next, Growth!V4Next, Growth!V3Candle, Growth!V3Exit, Growth!V3Enter,
       Growth!V3Score, Growth!V3Finish, Growth!V4Candle, Growth!V4Finish

-----------------------------------------------------------------------------
(* The steps of V5                                                         *)

V5Position ==
  [direction : Sides, entry : Int, stop : Int, target : Int, volume : Int, risk : Int,
   amount : Int, opened : Nat, even : BOOLEAN, extended : BOOLEAN]

V5Inv ==
  /\ candles \in Histories
  /\ position \in V5Position \cup {None}
  /\ phase \in {"exit", "enter"} => Len(candles) > FirstBar
  /\ balance \in Int /\ trades \in Seq(Trade)
  /\ balance = StartBalance + PnlSum(trades)

LEMMA V5LotType ==
  ASSUME NEW money \in Int, NEW distance \in Int
  PROVE  V5!LotSize(money, distance) \in Int
<1>1. RiskPercent \in Int /\ MinVolume \in Int /\ MaxVolume \in Int
  BY BacktestAssumption DEF V5!ValidRun
<1>2. ASSUME NEW n \in Int PROVE V5!RoundLots(n) \in Int
  <2>1. Max({n, MinVolume}) \in Int
    BY <1>1, LargerOfTwo
  <2> DEFINE larger == Max({n, MinVolume})
  <2> HIDE DEF larger
  <2>2. Min({larger, MaxVolume}) \in Int
    BY <1>1, <2>1, SmallerOfTwo DEF larger
  <2>3. QED
    BY <2>2, SameHelpers DEF V5!RoundLots, larger
<1>3. CASE money <= 0 \/ distance <= 0
  BY <1>3 DEF V5!LotSize
<1>4. CASE ~(money <= 0 \/ distance <= 0)
  <2> DEFINE raw == (money * RiskPercent) \div (100 * distance)
  <2>1. raw \in Int
    <3>1. money * RiskPercent \in Int /\ 100 * distance \in Nat \ {0}
      BY <1>1, <1>4, Products
    <3>2. QED
      BY <3>1, Quotients
  <2>2. V5!LotSize(money, distance) = V5!RoundLots(raw)
    BY <1>4 DEF V5!LotSize
  <2> HIDE DEF raw
  <2>3. QED
    BY <1>2, <2>1, <2>2
<1>5. QED
  BY <1>3, <1>4

LEMMA V5EntryType ==
  ASSUME NEW d \in Sides, NEW h \in Histories, NEW money \in Int, Len(h) > FirstBar
  PROVE  V5!Entry(d, h, money) \in V5Position \cup {None}
<1> DEFINE entry == WithEntryCost(d, Last(h).close)
           distance == (AtrSum(h, Len(h)) * AtrStop10) \div (10 * AtrPeriod)
           lots == V5!LotSize(money, distance)
           stop == entry - Toward(d) * distance
           target == entry + Toward(d) * ((distance * RiskReward2) \div 2)
           opened ==
             [direction |-> d, entry |-> entry, stop |-> stop, target |-> target,
              volume |-> lots, risk |-> distance, amount |-> distance * lots,
              opened |-> Len(h), even |-> FALSE, extended |-> FALSE]
<1>1. /\ FirstBar \in Nat /\ FirstBar >= AtrPeriod /\ AtrPeriod \in Nat \ {0}
      /\ RiskReward2 \in Nat /\ AtrStop10 \in Nat /\ RiskPercent \in Nat
      /\ MinVolume \in Int /\ MaxVolume \in Int
  BY BacktestAssumption, PeriodAssumption DEF V5!ValidRun
<1>2. h \in Seq(Candle) /\ h[Len(h)] \in Candle /\ Len(h) \in Nat
  BY DEF Histories
<1>3. entry \in Int
  BY <1>2, CostsType DEF Last, Candle
<1>4. V5!Entry(d, h, money) = IF distance <= 0 \/ lots < MinVolume THEN None ELSE opened
  BY SameHelpers, SameMoney, SameAtrSum DEF V5!Entry
<1>5. distance \in Int
  <2>1. AtrSum(h, Len(h)) \in Int
    BY <1>1, <1>2, AtrSumType
  <2>2. AtrSum(h, Len(h)) * AtrStop10 \in Int /\ 10 * AtrPeriod \in Nat \ {0}
    BY <1>1, <2>1, Products
  <2>3. QED
    BY <2>2, Quotients
<1> HIDE DEF distance
<1>6. lots \in Int
  BY <1>5, V5LotType
<1> HIDE DEF lots, entry
<1>7. distance * lots \in Int /\ (distance * RiskReward2) \div 2 \in Int
  BY <1>1, <1>5, <1>6, Products
<1>8. stop \in Int /\ target \in Int
  BY <1>3, <1>5, <1>7, TowardType
<1> HIDE DEF stop, target
<1>9. opened \in V5Position
  BY <1>2, <1>3, <1>5, <1>6, <1>7, <1>8 DEF V5Position
<1> HIDE DEF opened
<1>10. QED
  BY <1>4, <1>9

LEMMA V5TradeType ==
  ASSUME NEW p \in V5Position, NEW raw \in Int, candles \in Histories
  PROVE  V5!TradeOf(p, raw) \in Trade
<1> DEFINE exit == WithExitCost(p.direction, raw)
           pnl == Pnl(p.direction, p.entry, exit, p.volume)
<1>1. exit \in Int
  BY CostsType
<1>2. V5!TradeOf(p, raw) =
        [direction |-> p.direction, opened |-> p.opened, closed |-> Len(candles),
         entry |-> p.entry, exit |-> exit, stop |-> p.stop, target |-> p.target,
         volume |-> p.volume, amount |-> p.amount, pnl |-> pnl]
  BY SameMoney DEF V5!TradeOf
<1> HIDE DEF exit
<1>3. pnl \in Int
  BY <1>1, PnlType DEF V5Position
<1>4. Len(candles) \in Nat
  BY DEF Histories
<1> HIDE DEF pnl
<1>5. QED
  BY <1>1, <1>2, <1>3, <1>4 DEF Trade, V5Position

LEMMA TenthsType ==
  ASSUME NEW p \in V5Position, NEW n \in Int
  PROVE  V5!Tenths(p, n) \in Int
<1>1. p.risk * n \in Int
  BY Products DEF V5Position
<1>2. (p.risk * n) \div 10 \in Int
  BY <1>1
<1>3. QED
  BY <1>2, TowardType, SameHelpers DEF V5!Tenths

LEMMA V5Tighter ==
  ASSUME NEW p \in V5Position, NEW x \in Int
  PROVE  /\ V5!Tighter(p, x) \in Int
         /\ Toward(p.direction) * (V5!Tighter(p, x) - p.stop) >= 0
<1>1. p.stop \in Int
  BY DEF V5Position
<1>2. /\ Max({p.stop, x}) \in Int /\ Max({p.stop, x}) >= p.stop
      /\ Min({p.stop, x}) \in Int /\ Min({p.stop, x}) <= p.stop
  BY <1>1, LargerOfTwo, SmallerOfTwo
<1>3. V5!Tighter(p, x) = IF p.direction = "BUY" THEN Max({p.stop, x}) ELSE Min({p.stop, x})
  BY SameHelpers DEF V5!Tighter
<1>4. QED
  BY <1>1, <1>2, <1>3 DEF Toward

\* No rule of the management loosens the stop.
V5Kept(p, q) ==
  /\ q \in V5Position /\ q.direction = p.direction
  /\ Toward(p.direction) * (q.stop - p.stop) >= 0

LEMMA V5Same == \A p \in V5Position : V5Kept(p, p)
BY DEF V5Kept, V5Position, Toward

LEMMA V5BreaksEven ==
  ASSUME NEW p \in V5Position, NEW c \in Candle
  PROVE  V5Kept(p, V5!ToBreakEven(p, c))
<1> DEFINE x == V5!Tighter(p, p.entry + V5!Tenths(p, BreakEvenLock10))
           q == [p EXCEPT !.stop = x, !.even = TRUE]
<1>1. BreakEvenLock10 \in Nat /\ p.entry \in Int
  BY BacktestAssumption DEF V5!ValidRun, V5Position
<1>2. x \in Int /\ Toward(p.direction) * (x - p.stop) >= 0
  BY <1>1, TenthsType, V5Tighter
<1>3. V5!ToBreakEven(p, c) \in {p, q}
  BY DEF V5!ToBreakEven
<1> HIDE DEF x
<1>4. q \in V5Position /\ q.stop = x /\ q.direction = p.direction
  BY <1>2 DEF V5Position
<1> HIDE DEF q
<1>5. V5Kept(p, q)
  BY <1>2, <1>4 DEF V5Kept
<1>6. QED
  BY <1>3, <1>5, V5Same

LEMMA V5Extends ==
  ASSUME NEW p \in V5Position, NEW c \in Candle
  PROVE  V5Kept(p, V5!Extended(p, c))
<1> DEFINE n == Max({5 * RiskReward2, 30})
           x == p.entry + V5!Tenths(p, n)
           q == [p EXCEPT !.target = x, !.extended = TRUE]
<1>1. n \in Int /\ p.entry \in Int
  <2>1. RiskReward2 \in Nat
    BY BacktestAssumption DEF V5!ValidRun
  <2>2. ASSUME NEW k \in Int PROVE Max({k, 30}) \in Int
    <3>1. 30 \in Int
      OBVIOUS
    <3>2. QED
      BY <3>1, LargerOfTwo
  <2>3. n \in Int
    BY <2>1, <2>2
  <2>4. QED
    BY <2>3 DEF V5Position
<1>2. V5!Extended(p, c) \in {p, q}
  BY SameHelpers DEF V5!Extended
<1> HIDE DEF n
<1>3. x \in Int
  BY <1>1, TenthsType
<1> HIDE DEF x
<1>4. q \in V5Position /\ q.stop = p.stop /\ q.direction = p.direction /\ p.stop \in Int
  BY <1>3 DEF V5Position
<1> HIDE DEF q
<1>5. V5Kept(p, q)
  BY <1>4 DEF V5Kept, Toward
<1>6. QED
  BY <1>2, <1>5, V5Same

LEMMA V5Trails ==
  ASSUME NEW p \in V5Position, NEW c \in Candle
  PROVE  V5Kept(p, V5!Trailed(p, c))
<1> DEFINE x == V5!Tighter(p, V5!Best(p, c) - V5!Tenths(p, TrailingDistance10))
           q == [p EXCEPT !.stop = x]
<1>1. TrailingDistance10 \in Nat /\ V5!Best(p, c) \in Int
  BY BacktestAssumption DEF V5!ValidRun, V5!Best, Candle
<1>2. V5!Tenths(p, TrailingDistance10) \in Int
  BY <1>1, TenthsType
<1>3. x \in Int /\ Toward(p.direction) * (x - p.stop) >= 0
  BY <1>1, <1>2, V5Tighter
<1>4. V5!Trailed(p, c) \in {p, q}
  BY DEF V5!Trailed
<1> HIDE DEF x
<1>5. q \in V5Position /\ q.stop = x /\ q.direction = p.direction
  BY <1>3 DEF V5Position
<1> HIDE DEF q
<1>6. V5Kept(p, q)
  BY <1>3, <1>5 DEF V5Kept
<1>7. QED
  BY <1>4, <1>6, V5Same

LEMMA V5Updates ==
  ASSUME NEW p \in V5Position, NEW c \in Candle
  PROVE  V5Kept(p, V5!UpdatePosition(p, c))
<1> DEFINE q == V5!ToBreakEven(p, c)
           r == V5!Extended(q, c)
           s == V5!Trailed(r, c)
<1>1. V5!UpdatePosition(p, c) = s
  BY DEF V5!UpdatePosition
<1>2. V5Kept(p, q)
  BY V5BreaksEven
<1> HIDE DEF q
<1>3. V5Kept(q, r)
  BY <1>2, V5Extends DEF V5Kept
<1> HIDE DEF r
<1>4. V5Kept(r, s)
  BY <1>3, V5Trails DEF V5Kept
<1> HIDE DEF s
<1>5. p.stop \in Int /\ q.stop \in Int /\ r.stop \in Int /\ s.stop \in Int
  BY <1>2, <1>3, <1>4 DEF V5Kept, V5Position
<1>6. QED
  BY <1>1, <1>2, <1>3, <1>4, <1>5 DEF V5Kept, Toward

LEMMA V5Books ==
  ASSUME V5Inv, NEW t \in Trade, balance' = balance + t.pnl, trades' = Append(trades, t)
  PROVE  balance' \in Int /\ trades' \in Seq(Trade) /\ balance' = StartBalance + PnlSum(trades')
<1>1. PnlSum(trades') = PnlSum(trades) + t.pnl /\ PnlSum(trades) \in Int
  BY PnlAppends DEF V5Inv
<1>2. t.pnl \in Int
  BY DEF Trade
<1>3. QED
  BY <1>1, <1>2, SimulationAssumption DEF V5Inv

LEMMA V5Steps ==
  ASSUME V5Inv, V5!V5Next
  PROVE  V5Inv' /\ StopKept
<1>1. Bar \in Candle /\ FirstBar \in Nat
  BY BacktestAssumption DEF V5Inv, Histories, Bar, Last, V5!ValidRun
<1>2. ASSUME UNCHANGED <<position, balance, trades>>, candles' \in Histories,
             phase' \in {"exit", "enter"} => Len(candles') > FirstBar
      PROVE  V5Inv' /\ StopKept
  <2>1. CASE position # None
    BY <1>2, <2>1 DEF V5Inv, StopKept, V5Position, Toward
  <2>2. CASE position = None
    BY <1>2, <2>2 DEF V5Inv, StopKept
  <2>3. QED
    BY <2>1, <2>2
<1>3. CASE V5!V5Candle
  <2>1. PICK move \in MovesOf(Len(candles) + 1) :
          candles' = Append(candles, NextBar(Bar.close, move))
    BY <1>3, SameBars DEF V5!V5Candle
  <2>2. candles' \in Histories /\ Len(candles') = Len(candles) + 1 /\ Len(candles) \in Nat
    BY <2>1, NextHistoryType DEF V5Inv, Bar, Histories
  <2>3. /\ UNCHANGED <<position, balance, trades>>
        /\ phase' = IF Len(candles) < FirstBar THEN "next" ELSE "exit"
    BY <1>3 DEF V5!V5Candle
  <2>4. QED
    BY <1>1, <1>2, <2>2, <2>3
<1>4. ASSUME position # None, NEW raw \in Int, candles' = candles, position' = None,
             phase' = "enter" => phase = "exit", phase' # "exit",
             balance' = balance + V5!TradeOf(position, raw).pnl,
             trades' = Append(trades, V5!TradeOf(position, raw))
      PROVE  V5Inv' /\ StopKept
  <2>1. V5!TradeOf(position, raw) \in Trade
    BY <1>4, V5TradeType DEF V5Inv
  <2>2. balance' \in Int /\ trades' \in Seq(Trade) /\ balance' = StartBalance + PnlSum(trades')
    BY <1>4, <2>1, V5Books
  <2>3. QED
    BY <1>4, <2>2 DEF V5Inv, StopKept
<1>5. CASE V5!V5Exit
  <2>1. PICK raw \in V5!ExitPrices(position, Bar) :
          /\ balance' = balance + V5!TradeOf(position, raw).pnl
          /\ trades' = Append(trades, V5!TradeOf(position, raw))
    BY <1>5, SameBars DEF V5!V5Exit
  <2>2. position # None /\ position' = None /\ candles' = candles /\ phase = "exit"
        /\ phase' = "enter"
    BY <1>5, SameHelpers DEF V5!V5Exit
  <2>3. raw \in Int
    BY <2>1, <2>2 DEF V5!ExitPrices, V5Inv, V5Position
  <2>4. QED
    BY <1>4, <2>1, <2>2, <2>3
<1>6. CASE V5!V5Update
  <2>1. /\ UNCHANGED <<candles, balance, trades>> /\ phase = "exit"
        /\ position' = IF position = None THEN None ELSE V5!UpdatePosition(position, Bar)
    BY <1>6, SameHelpers, SameBars DEF V5!V5Update
  <2>2. CASE position = None
    BY <2>1, <2>2 DEF V5Inv, StopKept
  <2>3. CASE position # None
    <3>1. V5Kept(position, position')
      BY <1>1, <2>1, <2>3, V5Updates DEF V5Inv
    <3>2. QED
      BY <2>1, <3>1 DEF V5Inv, StopKept, V5Kept
  <2>4. QED
    BY <2>2, <2>3
<1>7. CASE V5!V5Enter
  <2> DEFINE direction == V5!GenerateSignal(candles, variant)
             opened == V5!Entry(direction, candles, balance)
  <2>1. /\ UNCHANGED <<candles, balance, trades>> /\ phase = "enter" /\ phase' = "next"
        /\ \/ UNCHANGED position
           \/ position = None /\ direction # "WAIT" /\ position' = opened
    BY <1>7, SameHelpers DEF V5!V5Enter, V5!MayEnter
  <2>2. direction \in Sides \cup {"WAIT"}
    BY DEF V5!GenerateSignal, Sides
  <2> HIDE DEF direction
  <2>3. direction # "WAIT" => opened \in V5Position \cup {None}
    BY <2>1, <2>2, V5EntryType DEF V5Inv
  <2>4. CASE UNCHANGED position
    BY <1>2, <2>1, <2>4 DEF V5Inv
  <2>5. CASE position = None /\ direction # "WAIT" /\ position' = opened
    BY <2>1, <2>3, <2>5 DEF V5Inv, StopKept
  <2>6. QED
    BY <2>1, <2>4, <2>5
<1>8. CASE V5!V5Finish
  <2>1. candles' = candles /\ phase' = "done" /\ position' = None
    BY <1>8, SameHelpers DEF V5!V5Finish
  <2>2. CASE position = None
    <3>1. UNCHANGED <<balance, trades>>
      BY <1>8, <2>2, SameHelpers DEF V5!V5Finish
    <3>2. QED
      BY <1>2, <2>1, <2>2, <3>1 DEF V5Inv
  <2>3. CASE position # None
    <3>1. /\ balance' = balance + V5!TradeOf(position, Bar.close).pnl
          /\ trades' = Append(trades, V5!TradeOf(position, Bar.close))
      BY <1>8, <2>3, SameHelpers, SameBars DEF V5!V5Finish
    <3>2. Bar.close \in Int
      BY <1>1 DEF Candle
    <3>3. QED
      BY <1>4, <2>1, <2>3, <3>1, <3>2
  <2>4. QED
    BY <2>2, <2>3
<1>9. QED
  BY <1>3, <1>5, <1>6, <1>7, <1>8 DEF V5!V5Next
-----------------------------------------------------------------------------
(* The production engine                                                   *)

\* The target is beyond the entry and beyond the stop, wherever the stop has
\* gone: what keeps the protection from setting a stop behind the one it has
\* when the price to lock is past the target.
ProdPosition ==
  {p \in [direction : Sides, entry : Int, stop : Int, target : Int, volume : Int,
          initial : Int, risk : Int, partial : BOOLEAN, even : BOOLEAN, realized : Int,
          opened : Nat] :
     /\ Toward(p.direction) * (p.target - p.entry) > 0
     /\ Toward(p.direction) * (p.target - p.stop) > 0}

Orders == [direction : Sides, proposal : Proposals]

LEMMA ProdIsNotNone ==
  /\ \A p \in ProdPosition : p # None
  /\ \A o \in Orders : o # None
BY DEF ProdPosition, Orders, None, Sides

LEMMA SizeType ==
  ASSUME NEW money \in Int, NEW entry \in Int, NEW stop \in Int, entry # stop
  PROVE  Production!Risk!PositionSize(money, entry, stop) \in Int
<1> DEFINE budget == ((money * RiskPercent) * 1) \div 100
           span == IF entry > stop THEN entry - stop ELSE stop - entry
           steps == budget \div span
<1>1. RiskPercent \in Int /\ MinVolume \in Int /\ MaxVolume \in Int
  BY BacktestAssumption DEF Growth!ValidConfig
<1>2. span \in Nat \ {0}
  OBVIOUS
<1>3. budget \in Int
  BY <1>1, Products, Quotients
<1>4. Production!Risk!PositionSize(money, entry, stop) =
        IF steps < MinVolume THEN 0 ELSE IF steps > MaxVolume THEN MaxVolume ELSE steps
  BY DEF Production!Risk!PositionSize, Production!Risk!RiskAmount, Production!Risk!Span
<1> HIDE DEF budget, span
<1>5. steps \in Int
  BY <1>2, <1>3, Quotients
<1> HIDE DEF steps
<1>6. QED
  BY <1>1, <1>4, <1>5

\* A position nothing of which was sold, opened at the last candle of h.
Untouched(p, h) ==
  /\ p.opened = Len(h) /\ p.opened \in 1..Len(h)
  /\ p.volume \in Nat /\ p.initial = p.volume /\ ~p.partial /\ p.realized = 0

LEMMA ProdEntryType ==
  ASSUME NEW order \in Orders, NEW h \in Histories, NEW money \in Int, NEW loss
  PROVE  LET p == Production!Entry(order, h, money, loss)
         IN  p = None \/ (p \in ProdPosition /\ p.realized = 0 /\ Untouched(p, h))
<1> DEFINE d == order.direction
           entry == WithEntryCost(d, Last(h).open)
           stop == entry - Toward(d) * order.proposal.risk
           target == entry + Toward(d) * order.proposal.reward
           volume == Production!Risk!PositionSize(money, entry, stop)
           opened ==
             [direction |-> d, entry |-> entry, stop |-> stop, target |-> target,
              volume |-> volume, initial |-> volume, risk |-> order.proposal.risk,
              partial |-> FALSE, even |-> FALSE, realized |-> 0, opened |-> Len(h)]
<1>1. /\ d \in Sides /\ order.proposal.risk \in Nat \ {0} /\ order.proposal.reward \in Nat \ {0}
  BY BacktestAssumption DEF Orders, Production!ValidConfig
<1>2. h[Len(h)] \in Candle /\ Len(h) \in Nat
  BY DEF Histories
<1>3. entry \in Int
  BY <1>2, CostsType DEF Last, Candle
<1>4. \/ Production!Entry(order, h, money, loss) = None
      \/ Production!Entry(order, h, money, loss) = opened /\ ~(volume <= 0)
  BY SameHelpers, SameMoney
     DEF Production!Entry, Production!PositionAt, Production!Rebased
<1> HIDE DEF entry
<1>5. /\ stop \in Int /\ target \in Int /\ entry # stop
      /\ Toward(d) * (target - entry) > 0 /\ Toward(d) * (target - stop) > 0
  BY <1>1, <1>3 DEF Toward
<1> HIDE DEF stop, target
<1>6. volume \in Int
  BY <1>3, <1>5, SizeType
<1> HIDE DEF volume, d
<1>7. opened \in ProdPosition /\ opened.realized = 0
  BY <1>1, <1>2, <1>3, <1>5, <1>6 DEF ProdPosition
<1>8. ~(volume <= 0) => Untouched(opened, h)
  BY <1>2, <1>6 DEF Untouched, Histories
<1> HIDE DEF opened
<1>9. QED
  BY <1>4, <1>7, <1>8

LEMMA AtRType ==
  ASSUME NEW p \in ProdPosition, NEW n \in Int
  PROVE  Production!AtR(p, n) \in Int
<1>1. p.risk * n \in Int /\ p.entry \in Int
  BY Products DEF ProdPosition
<1>2. (p.risk * n) \div 20 \in Int
  BY <1>1
<1>3. QED
  BY <1>1, <1>2, TowardType, SameHelpers DEF Production!AtR

\* No rule of the management loosens the stop.
ProdKept(p, q) ==
  /\ q \in ProdPosition /\ q.direction = p.direction
  /\ Toward(p.direction) * (q.stop - p.stop) >= 0

LEMMA ProdSame == \A p \in ProdPosition : ProdKept(p, p)
BY DEF ProdKept, ProdPosition, Toward

LEMMA ProdFollows ==
  ASSUME NEW p \in ProdPosition, NEW q, NEW r, ProdKept(p, q), ProdKept(q, r)
  PROVE  ProdKept(p, r)
<1>1. p.stop \in Int /\ q.stop \in Int /\ r.stop \in Int
  BY DEF ProdKept, ProdPosition
<1>2. QED
  BY <1>1 DEF ProdKept, Toward

\* A rule that sets the stop, to one that is no worse and short of the target.
LEMMA StopSet ==
  ASSUME NEW p \in ProdPosition, NEW x \in Int, Toward(p.direction) * (x - p.stop) >= 0,
         Toward(p.direction) * (p.target - x) > 0
  PROVE  ProdKept(p, [p EXCEPT !.stop = x])
<1> DEFINE q == [p EXCEPT !.stop = x]
<1>1. q \in ProdPosition /\ q.stop = x /\ q.direction = p.direction
  BY DEF ProdPosition
<1> HIDE DEF q
<1>2. ProdKept(p, q)
  BY <1>1 DEF ProdKept
<1>3. QED
  BY <1>2 DEF q

LEMMA PartialKept ==
  ASSUME NEW p \in ProdPosition, NEW c
  PROVE  ProdKept(p, Production!TakePartial(p, c))
<1> DEFINE v == p.volume - p.volume \div 2
           x == p.realized + Production!PartialPnl(p)
           q == [p EXCEPT !.volume = v, !.partial = TRUE, !.realized = x]
<1>1. Production!PartialPnl(p) \in Int
  <2>1. Production!AtR(p, Production!PartialTp) \in Int
    <3>1. Production!PartialTp \in Int
      BY DEF Production!PartialTp
    <3>2. QED
      BY <3>1, AtRType
  <2>2. WithExitCost(p.direction, Production!AtR(p, Production!PartialTp)) \in Int
    BY <2>1, CostsType
  <2>3. p.volume \div 2 \in Int /\ p.entry \in Int
    BY DEF ProdPosition
  <2>4. QED
    BY <2>2, <2>3, PnlType, SameMoney DEF Production!PartialPnl
<1>2. v \in Int /\ x \in Int
  BY <1>1 DEF ProdPosition
<1>3. Production!TakePartial(p, c) \in {p, q}
  BY DEF Production!TakePartial
<1> HIDE DEF v, x
<1>4. q \in ProdPosition /\ q.stop = p.stop /\ q.direction = p.direction /\ p.stop \in Int
  BY <1>2 DEF ProdPosition
<1> HIDE DEF q
<1>5. ProdKept(p, q)
  BY <1>4 DEF ProdKept, Toward
<1>6. QED
  BY <1>3, <1>5, ProdSame

LEMMA EvenKept ==
  ASSUME NEW p \in ProdPosition, NEW c
  PROVE  ProdKept(p, Production!ToBreakEven(p, c))
<1> DEFINE x == IF Production!Beyond(p, p.entry, p.stop) THEN p.entry ELSE p.stop
           q == [p EXCEPT !.stop = x, !.even = TRUE]
<1>1. x \in Int /\ Toward(p.direction) * (x - p.stop) >= 0
      /\ Toward(p.direction) * (p.target - x) > 0
  BY SameHelpers DEF Production!Beyond, ProdPosition, Toward
<1>2. Production!ToBreakEven(p, c) \in {p, q}
  BY DEF Production!ToBreakEven
<1> HIDE DEF x
<1>3. q \in ProdPosition /\ q.stop = x /\ q.direction = p.direction
  BY <1>1 DEF ProdPosition
<1> HIDE DEF q
<1>4. ProdKept(p, q)
  BY <1>1, <1>3 DEF ProdKept
<1>5. QED
  BY <1>2, <1>4, ProdSame

LEMMA TargetKept ==
  ASSUME NEW p \in ProdPosition, NEW c
  PROVE  ProdKept(p, Production!ExtendTarget(p, c))
<1> DEFINE x == Production!AtR(p, Production!TpExtensionTarget)
           q == [p EXCEPT !.target = x]
<1>1. x \in Int
  <2>1. Production!TpExtensionTarget \in Int
    BY DEF Production!TpExtensionTarget
  <2>2. QED
    BY <2>1, AtRType
<1>2. \/ Production!ExtendTarget(p, c) = p
      \/ Production!ExtendTarget(p, c) = q /\ Toward(p.direction) * (x - p.target) > 0
  BY SameHelpers DEF Production!ExtendTarget, Production!Beyond
<1> HIDE DEF x
<1>3. ASSUME Toward(p.direction) * (x - p.target) > 0
      PROVE  ProdKept(p, q)
  <2>1. /\ Toward(p.direction) * (x - p.entry) > 0 /\ Toward(p.direction) * (x - p.stop) > 0
    BY <1>1, <1>3 DEF ProdPosition, Toward
  <2>2. q \in ProdPosition /\ q.stop = p.stop /\ q.direction = p.direction /\ p.stop \in Int
    BY <1>1, <2>1 DEF ProdPosition
  <2> HIDE DEF q
  <2>3. QED
    BY <2>2 DEF ProdKept, Toward
<1>4. QED
  BY <1>2, <1>3, ProdSame

LEMMA TrailKept ==
  ASSUME NEW p \in ProdPosition, NEW c \in Candle
  PROVE  ProdKept(p, Production!Trail(p, c))
<1> DEFINE x == Production!Best(p, c)
                  - Toward(p.direction) * ((p.risk * Production!TrailingDistance) \div 20)
           q == [p EXCEPT !.stop = x]
<1>1. x \in Int
  <2>1. Production!Best(p, c) \in Int
    BY DEF Production!Best, Candle
  <2>2. (p.risk * Production!TrailingDistance) \div 20 \in Int
    BY DEF ProdPosition, Production!TrailingDistance
  <2>3. QED
    BY <2>1, <2>2, TowardType
<1>2. \/ Production!Trail(p, c) = p
      \/ /\ Production!Trail(p, c) = q /\ Toward(p.direction) * (p.target - x) > 0
         /\ Toward(p.direction) * (x - p.stop) > 0
  BY SameHelpers DEF Production!Trail, Production!Beyond
<1> HIDE DEF x
<1>3. ASSUME Toward(p.direction) * (p.target - x) > 0, Toward(p.direction) * (x - p.stop) > 0
      PROVE  ProdKept(p, q)
  <2>1. Toward(p.direction) * (x - p.stop) >= 0
    BY <1>1, <1>3 DEF ProdPosition, Toward
  <2>2. QED
    BY <1>1, <1>3, <2>1, StopSet
<1>4. QED
  BY <1>2, <1>3, ProdSame

LEMMA ProtectKept ==
  ASSUME NEW p \in ProdPosition, NEW c
  PROVE  ProdKept(p, Production!Protect(p, c))
<1> DEFINE locked == Production!AtR(p, ProtectLock20)
           x == IF Toward(p.direction) * (p.target - locked) > 0 THEN locked
                ELSE p.target - Toward(p.direction)
           q == [p EXCEPT !.stop = x]
<1>1. locked \in Int
  BY AtRType, BacktestAssumption DEF Production!ValidConfig
<1>2. \/ Production!Protect(p, c) = p
      \/ Production!Protect(p, c) = q /\ Toward(p.direction) * (locked - p.stop) > 0
  BY SameHelpers DEF Production!Protect, Production!Beyond
<1> HIDE DEF locked
<1>3. ASSUME Toward(p.direction) * (locked - p.stop) > 0
      PROVE  ProdKept(p, q)
  <2>1. /\ x \in Int /\ Toward(p.direction) * (x - p.stop) >= 0
        /\ Toward(p.direction) * (p.target - x) > 0
    BY <1>1, <1>3 DEF ProdPosition, Toward
  <2> HIDE DEF x
  <2>2. QED
    BY <2>1, StopSet
<1>4. QED
  BY <1>2, <1>3, ProdSame

LEMMA ManageKept ==
  ASSUME NEW p \in ProdPosition, NEW c \in Candle
  PROVE  ProdKept(p, Production!Manage(p, c))
<1> DEFINE q == Production!TakePartial(p, c)
           r == Production!ToBreakEven(q, c)
           s == Production!ExtendTarget(r, c)
           t == Production!Trail(s, c)
           u == Production!Protect(t, c)
<1>1. Production!Manage(p, c) = u
  BY DEF Production!Manage
<1>2. ProdKept(p, q)
  BY PartialKept
<1> HIDE DEF q
<1>3. ProdKept(q, r)
  BY <1>2, EvenKept DEF ProdKept
<1> HIDE DEF r
<1>4. ProdKept(r, s)
  BY <1>3, TargetKept DEF ProdKept
<1> HIDE DEF s
<1>5. ProdKept(s, t)
  BY <1>4, TrailKept DEF ProdKept
<1> HIDE DEF t
<1>6. ProdKept(t, u)
  BY <1>5, ProtectKept DEF ProdKept
<1> HIDE DEF u
<1>7. q \in ProdPosition /\ r \in ProdPosition /\ s \in ProdPosition /\ t \in ProdPosition
  BY <1>2, <1>3, <1>4, <1>5 DEF ProdKept
<1>8. ProdKept(p, r)
  BY <1>2, <1>3, ProdFollows
<1>9. ProdKept(p, s)
  BY <1>4, <1>8, ProdFollows
<1>10. ProdKept(p, t)
  BY <1>5, <1>9, ProdFollows
<1>11. QED
  BY <1>1, <1>6, <1>10, ProdFollows

-----------------------------------------------------------------------------
(* What the partial exit and the close can have earned                     *)

\* Candle c reached x, or went beyond it, in the direction d.
Offers(d, c, x) == Toward(d) * (Production!Best([direction |-> d], c) - x) >= 0

PartialPrice(p) == Production!AtR(p, Production!PartialTp)

\* Of what was opened, all is still held, or one half was sold at one R when
\* a candle reached it.
Attained(p, cs) ==
  /\ p.opened \in 1..Len(cs) /\ p.initial \in Nat
  /\ \/ ~p.partial /\ p.volume = p.initial /\ p.realized = 0
     \/ /\ p.partial /\ p.volume = p.initial - p.initial \div 2
        /\ p.realized = Pnl(p.direction, p.entry, WithExitCost(p.direction, PartialPrice(p)),
                            p.initial \div 2)
        /\ \E k \in p.opened..Len(cs) : Offers(p.direction, cs[k], PartialPrice(p))

\* Rules that move only the stop and the target.
SameHolding(p, q) ==
  /\ q.direction = p.direction /\ q.entry = p.entry /\ q.risk = p.risk
  /\ q.opened = p.opened /\ q.initial = p.initial /\ q.volume = p.volume
  /\ q.partial = p.partial /\ q.realized = p.realized

LEMMA StopsHoldTheSame ==
  ASSUME NEW p \in ProdPosition, NEW c
  PROVE  /\ SameHolding(p, Production!ToBreakEven(p, c))
         /\ SameHolding(p, Production!ExtendTarget(p, c))
         /\ SameHolding(p, Production!Trail(p, c))
         /\ SameHolding(p, Production!Protect(p, c))
<1>1. ASSUME NEW x, NEW y, NEW q \in {p, [p EXCEPT !.stop = x, !.even = y], [p EXCEPT !.stop = x],
                                     [p EXCEPT !.target = x]}
      PROVE  SameHolding(p, q)
  BY DEF SameHolding, ProdPosition
<1>2. SameHolding(p, Production!ToBreakEven(p, c))
  BY <1>1 DEF Production!ToBreakEven
<1>3. SameHolding(p, Production!ExtendTarget(p, c))
  BY <1>1 DEF Production!ExtendTarget
<1>4. SameHolding(p, Production!Trail(p, c))
  BY <1>1 DEF Production!Trail
<1>5. SameHolding(p, Production!Protect(p, c))
  BY <1>1 DEF Production!Protect
<1>6. QED
  BY <1>2, <1>3, <1>4, <1>5

LEMMA SameAttained ==
  ASSUME NEW p, NEW q, NEW cs, SameHolding(p, q), Attained(p, cs)
  PROVE  Attained(q, cs)
<1>1. PartialPrice(q) = PartialPrice(p)
  BY DEF SameHolding, PartialPrice, Production!AtR
<1>2. QED
  BY <1>1 DEF SameHolding, Attained

LEMMA PartialAttains ==
  ASSUME NEW p \in ProdPosition, NEW cs \in Histories, Attained(p, cs)
  PROVE  Attained(Production!TakePartial(p, Last(cs)), cs)
<1> DEFINE c == Last(cs)
           half == p.volume \div 2
           q == [p EXCEPT !.volume = p.volume - half, !.partial = TRUE,
                          !.realized = p.realized + Production!PartialPnl(p)]
<1>1. \/ Production!TakePartial(p, c) = p
      \/ /\ Production!TakePartial(p, c) = q /\ ~p.partial
         /\ Production!Reached(p, c, Production!PartialTp)
  BY DEF Production!TakePartial, ProdPosition
<1>2. ASSUME ~p.partial, Production!Reached(p, c, Production!PartialTp)
      PROVE  Attained(q, cs)
  <2>1. p.volume = p.initial /\ p.realized = 0 /\ p.opened \in 1..Len(cs) /\ p.initial \in Nat
    BY <1>2 DEF Attained
  <2>2. Production!PartialPnl(p)
          = Pnl(p.direction, p.entry, WithExitCost(p.direction, PartialPrice(p)), p.initial \div 2)
    BY <2>1, SameMoney DEF Production!PartialPnl, PartialPrice
  <2>3. /\ q.direction = p.direction /\ q.entry = p.entry /\ q.risk = p.risk
        /\ q.opened = p.opened /\ q.initial = p.initial /\ q.partial
        /\ q.volume = p.volume - half /\ q.realized = p.realized + Production!PartialPnl(p)
    BY DEF ProdPosition
  <2>4. Pnl(p.direction, p.entry, WithExitCost(p.direction, PartialPrice(p)), p.initial \div 2) \in Int
    <3>1. Production!PartialTp \in Int
      BY DEF Production!PartialTp
    <3>2. PartialPrice(p) \in Int
      BY <3>1, AtRType DEF PartialPrice
    <3>3. WithExitCost(p.direction, PartialPrice(p)) \in Int
      BY <3>2, CostsType
    <3>4. p.initial \div 2 \in Int /\ p.entry \in Int
      BY <2>1 DEF ProdPosition
    <3>5. QED
      BY <3>3, <3>4, PnlType
  <2>5. Offers(p.direction, c, PartialPrice(p))
    BY <1>2, SameHelpers DEF Offers, Production!Reached, Production!Best, PartialPrice
  <2>6. Len(cs) \in p.opened..Len(cs) /\ cs[Len(cs)] = c
    BY <2>1 DEF Last, Histories
  <2>7. PartialPrice(q) = PartialPrice(p)
    BY <2>3 DEF PartialPrice, Production!AtR
  <2> DEFINE earned == Pnl(p.direction, p.entry, WithExitCost(p.direction, PartialPrice(p)),
                           p.initial \div 2)
  <2>8. q.realized = earned
    <3>1. earned \in Int /\ q.realized = 0 + earned
      BY <2>1, <2>2, <2>3, <2>4
    <3> HIDE DEF earned, q
    <3>2. QED
      BY <3>1
  <2>9. q.volume = q.initial - q.initial \div 2
    BY <2>1, <2>3
  <2> HIDE DEF q, c
  <2>10. QED
    BY <2>1, <2>3, <2>5, <2>6, <2>7, <2>8, <2>9 DEF Attained
<1>3. QED
  BY <1>1, <1>2

LEMMA ManageAttains ==
  ASSUME NEW p \in ProdPosition, NEW cs \in Histories, Attained(p, cs)
  PROVE  Attained(Production!Manage(p, Last(cs)), cs)
<1> DEFINE c == Last(cs)
           q == Production!TakePartial(p, c)
           r == Production!ToBreakEven(q, c)
           s == Production!ExtendTarget(r, c)
           t == Production!Trail(s, c)
           u == Production!Protect(t, c)
<1>1. c \in Candle
  BY DEF Histories, Last
<1>2. Production!Manage(p, c) = u
  BY DEF Production!Manage
<1>3. q \in ProdPosition /\ Attained(q, cs)
  BY PartialKept, PartialAttains DEF ProdKept
<1> HIDE DEF q, c
<1>4. r \in ProdPosition /\ Attained(r, cs)
  BY <1>3, EvenKept, StopsHoldTheSame, SameAttained DEF ProdKept
<1> HIDE DEF r
<1>5. s \in ProdPosition /\ Attained(s, cs)
  BY <1>4, TargetKept, StopsHoldTheSame, SameAttained DEF ProdKept
<1> HIDE DEF s
<1>6. t \in ProdPosition /\ Attained(t, cs)
  BY <1>1, <1>5, TrailKept, StopsHoldTheSame, SameAttained DEF ProdKept
<1> HIDE DEF t
<1>7. Attained(u, cs)
  BY <1>6, StopsHoldTheSame, SameAttained
<1>8. QED
  BY <1>2, <1>7 DEF c

LEMMA CandleAttains ==
  ASSUME NEW p, NEW cs \in Histories, NEW c, Attained(p, cs)
  PROVE  Attained(p, Append(cs, c))
<1> DEFINE h == Append(cs, c)
<1>1. Len(cs) \in Nat /\ Len(h) = Len(cs) + 1
      /\ \A i \in 1..Len(cs) : h[i] = cs[i] /\ i \in 1..Len(h)
  BY DEF Histories
<1> HIDE DEF h
<1>2. p.opened \in 1..Len(h) /\ p.opened \in 1..Len(cs)
  BY <1>1 DEF Attained
<1>3. ASSUME NEW k \in p.opened..Len(cs)
      PROVE  k \in p.opened..Len(h) /\ h[k] = cs[k]
  BY <1>1, <1>2
<1>4. Attained(p, h)
  BY <1>2, <1>3 DEF Attained
<1>5. QED
  BY <1>4 DEF h

\* More per unit is more for any number of units.
LEMMA MoreEach ==
  ASSUME NEW a \in Int, NEW b \in Int, a <= b, NEW v \in Nat
  PROVE  a * v <= b * v
OBVIOUS

LEMMA Distributes ==
  ASSUME NEW a \in Int, NEW v \in Int, NEW w \in Int
  PROVE  a * v + a * w = a * (v + w)
OBVIOUS

\* Two parts sold at prices no better than one earn no more than all would
\* have at that one.
LEMMA PartsEarnLess ==
  ASSUME NEW d, NEW e \in Int, NEW b \in Int, NEW x \in Int, NEW y \in Int,
         NEW v \in Nat, NEW w \in Nat,
         Toward(d) * (b - x) >= 0, Toward(d) * (b - y) >= 0
  PROVE  Pnl(d, e, WithExitCost(d, x), v) + Pnl(d, e, WithExitCost(d, y), w)
           <= Pnl(d, e, WithExitCost(d, b), v + w)
<1> DEFINE each(z) == Toward(d) * (WithExitCost(d, z) - e)
           a == each(x)
           c == each(y)
           m == each(b)
<1>1. a \in Int /\ c \in Int /\ m \in Int /\ a <= m /\ c <= m
  BY SimulationAssumption DEF WithExitCost, Toward
<1>2. /\ Pnl(d, e, WithExitCost(d, x), v) = a * v
      /\ Pnl(d, e, WithExitCost(d, y), w) = c * w
      /\ Pnl(d, e, WithExitCost(d, b), v + w) = m * (v + w)
  BY DEF Pnl
<1> HIDE DEF a, c, m
<1>3. a * v <= m * v /\ c * w <= m * w
  BY <1>1, MoreEach
<1>4. a * v \in Int /\ c * w \in Int /\ m * v \in Int /\ m * w \in Int
  BY <1>1, Products
<1>5. m * v + m * w = m * (v + w)
  BY <1>1, Distributes
<1>6. QED
  BY <1>2, <1>3, <1>4, <1>5

-----------------------------------------------------------------------------
(* The invariant of the production engine                                  *)

\* A trade closes where it is booked, at a price of that candle, and earned no
\* more than the best candle it was held over offered.
TradesAreReachable(ts, cs) ==
  \A i \in 1..Len(ts) :
    /\ ts[i].closed \in 1..Len(cs) /\ ts[i].opened \in 1..ts[i].closed
    /\ cs[ts[i].closed].low <= ts[i].exit /\ ts[i].exit <= cs[ts[i].closed].high
    /\ \E k \in ts[i].opened..ts[i].closed : ts[i].pnl <= AtBest(ts[i], cs[k])

\* The balance after the first k trades.
After(ts, k) == StartBalance + PnlSum(SubSeq(ts, 1, k))

Covered(ts, top, fall) ==
  /\ top \in Int /\ fall \in Int
  /\ \A k \in 0..Len(ts) : top >= After(ts, k)
  /\ \A j, k \in 0..Len(ts) : j <= k => fall >= After(ts, j) - After(ts, k)

EarnedBy(p) == IF p = None THEN 0 ELSE p.realized

ProdInv ==
  /\ candles \in Histories
  /\ position \in ProdPosition \cup {None}
  /\ pending \in Orders \cup {None}
  /\ pending # None => position = None
  /\ phase = "open" => pending # None
  /\ balance \in Int /\ trades \in Seq(Trade)
  /\ balance = StartBalance + PnlSum(trades) + EarnedBy(position)
  /\ TradesAreReachable(trades, candles)
  /\ position # None => Attained(position, candles)
  /\ Covered(trades, peak, drawdown)

LEMMA EarnedType ==
  ASSUME NEW p \in ProdPosition \cup {None}
  PROVE  EarnedBy(p) \in Int
BY ProdIsNotNone DEF EarnedBy, ProdPosition

LEMMA ProdTradeType ==
  ASSUME NEW p \in ProdPosition, NEW raw \in Int, candles \in Histories
  PROVE  LET t == Production!TradeOf(p, raw)
         IN  /\ t \in Trade /\ t.closed = Len(candles) /\ t.exit = raw
             /\ Production!RestPnl(p, raw) \in Int
             /\ t.pnl = p.realized + Production!RestPnl(p, raw)
<1> DEFINE rest == Production!RestPnl(p, raw)
           pnl == p.realized + rest
           amount == p.risk * p.initial
           t == [direction |-> p.direction, opened |-> p.opened, closed |-> Len(candles),
                 entry |-> p.entry, exit |-> raw, stop |-> p.stop, target |-> p.target,
                 volume |-> p.initial, amount |-> amount, pnl |-> pnl]
<1>1. rest \in Int
  <2>1. WithExitCost(p.direction, raw) \in Int
    BY CostsType
  <2>2. p.entry \in Int /\ p.volume \in Int
    BY DEF ProdPosition
  <2>3. QED
    BY <2>1, <2>2, PnlType, SameMoney DEF Production!RestPnl
<1>2. Production!TradeOf(p, raw) = t
  BY DEF Production!TradeOf
<1> HIDE DEF rest
<1>3. pnl \in Int /\ amount \in Int
  BY <1>1, Products DEF ProdPosition
<1>4. Len(candles) \in Nat
  BY DEF Histories
<1> HIDE DEF pnl, amount
<1>5. t \in Trade /\ t.closed = Len(candles) /\ t.exit = raw /\ t.pnl = pnl
  BY <1>3, <1>4 DEF Trade, ProdPosition
<1> HIDE DEF t
<1>6. QED
  BY <1>1, <1>2, <1>5 DEF rest, pnl

\* The exits of a candle are among its prices: the open is neither behind the
\* stop nor beyond the target when one of them is filled.
LEMMA ExitsAreReachable ==
  ASSUME NEW p \in ProdPosition, NEW c \in Candle, NEW raw \in Production!ExitPrices(p, c)
  PROVE  raw \in Int /\ c.low <= raw /\ raw <= c.high
<1>1. /\ c.low \in Int /\ c.high \in Int /\ c.open \in Int /\ c.low <= c.open /\ c.open <= c.high
      /\ p.stop \in Int /\ p.target \in Int
  BY DEF Candle, ProdPosition
<1>2. CASE p.direction = "BUY"
  BY <1>1, <1>2, SameHelpers
     DEF Production!ExitPrices, Production!Beyond, Production!Worst, Production!Best, Toward
<1>3. CASE p.direction = "SELL"
  BY <1>1, <1>3, SameHelpers
     DEF Production!ExitPrices, Production!Beyond, Production!Worst, Production!Best, Toward
<1>4. QED
  BY <1>2, <1>3 DEF ProdPosition, Sides

LEMMA AfterAppends ==
  ASSUME NEW ts \in Seq(Trade), NEW t \in Trade
  PROVE  /\ \A k \in 0..Len(ts) :
              After(Append(ts, t), k) = After(ts, k) /\ After(ts, k) \in Int
         /\ After(Append(ts, t), Len(ts) + 1) = StartBalance + PnlSum(ts) + t.pnl
         /\ PnlSum(ts) \in Int
<1> DEFINE n == Len(ts)
           r == Append(ts, t)
<1>1. n \in Nat /\ r \in Seq(Trade) /\ Len(r) = n + 1
  OBVIOUS
<1>2. ASSUME NEW k \in 0..n
      PROVE  SubSeq(r, 1, k) = SubSeq(ts, 1, k) /\ SubSeq(ts, 1, k) \in Seq(Trade)
  BY <1>1, <1>2
<1>3. SubSeq(r, 1, n + 1) = r
  BY <1>1
<1>4. \A k \in 0..n : PnlSum(SubSeq(ts, 1, k)) \in Int
  BY <1>2, PnlAppends
<1>5. PnlSum(r) = PnlSum(ts) + t.pnl /\ PnlSum(ts) \in Int /\ t.pnl \in Int
  BY PnlAppends DEF Trade
<1> HIDE DEF r, n
<1>6. StartBalance \in Int
  BY SimulationAssumption
<1>7. ASSUME NEW k \in 0..n
      PROVE  After(r, k) = After(ts, k) /\ After(ts, k) \in Int
  <2> DEFINE before == PnlSum(SubSeq(ts, 1, k))
             now == PnlSum(SubSeq(r, 1, k))
  <2>1. now = before /\ before \in Int
    BY <1>2, <1>4
  <2>2. After(r, k) = StartBalance + now /\ After(ts, k) = StartBalance + before
    BY DEF After
  <2> HIDE DEF before, now
  <2>3. QED
    BY <1>6, <2>1, <2>2
<1>8. After(r, n + 1) = StartBalance + PnlSum(ts) + t.pnl
  <2>1. After(r, n + 1) = StartBalance + (PnlSum(ts) + t.pnl)
    BY <1>3, <1>5 DEF After
  <2> DEFINE sum == PnlSum(ts)
             x == t.pnl
  <2>2. sum \in Int /\ x \in Int
    BY <1>5
  <2> HIDE DEF sum, x
  <2>3. StartBalance + (sum + x) = StartBalance + sum + x
    BY <1>6, <2>2
  <2>4. QED
    BY <2>1, <2>3 DEF sum, x
<1>9. QED
  BY <1>5, <1>7, <1>8 DEF r, n

\* A point of the equity curve keeps what the curve has covered, and covers
\* the fall to that point.
LEMMA MarkCovers ==
  ASSUME NEW ts \in Seq(Trade), NEW top, NEW fall, Covered(ts, top, fall), NEW equity \in Int
  PROVE  LET newTop == Max({top, equity})
             newFall == Max({fall, newTop - equity})
         IN  /\ Covered(ts, newTop, newFall)
             /\ newTop >= equity /\ newTop >= top /\ newFall >= newTop - equity
<1> DEFINE newTop == Max({top, equity})
           newFall == Max({fall, newTop - equity})
<1>1. top \in Int /\ fall \in Int
  BY DEF Covered
<1>2. newTop \in Int /\ newTop >= top /\ newTop >= equity
  BY <1>1, LargerOfTwo
<1> HIDE DEF newTop
<1>3. newTop - equity \in Int
  BY <1>2
<1>4. newFall \in Int /\ newFall >= fall /\ newFall >= newTop - equity
  BY <1>1, <1>3, LargerOfTwo
<1> HIDE DEF newFall
<1>5. ASSUME NEW k \in 0..Len(ts) PROVE After(ts, k) \in Int
  <2>1. StartBalance \in Int
    BY SimulationAssumption
  <2>2. SubSeq(ts, 1, k) \in Seq(Trade)
    OBVIOUS
  <2> DEFINE sum == PnlSum(SubSeq(ts, 1, k))
  <2>3. sum \in Int
    BY <2>2, PnlSumType
  <2>4. After(ts, k) = StartBalance + sum
    BY DEF After
  <2> HIDE DEF sum
  <2>5. QED
    BY <2>1, <2>3, <2>4
<1>6. ASSUME NEW k \in 0..Len(ts) PROVE newTop >= After(ts, k)
  <2>1. top >= After(ts, k)
    BY DEF Covered
  <2>2. QED
    BY <1>1, <1>2, <1>5, <2>1
<1>7. ASSUME NEW j \in 0..Len(ts), NEW k \in 0..Len(ts), j <= k
      PROVE  newFall >= After(ts, j) - After(ts, k)
  <2>1. fall >= After(ts, j) - After(ts, k)
    BY <1>7 DEF Covered
  <2>2. After(ts, j) \in Int /\ After(ts, k) \in Int
    BY <1>5
  <2>3. QED
    BY <1>1, <1>4, <2>1, <2>2
<1>8. Covered(ts, newTop, newFall)
  BY <1>2, <1>4, <1>6, <1>7 DEF Covered
<1>9. QED
  BY <1>2, <1>4, <1>8 DEF newTop, newFall

\* A trade whose balance is on the curve.
LEMMA TradeCovers ==
  ASSUME NEW ts \in Seq(Trade), NEW t \in Trade, NEW top, NEW fall, Covered(ts, top, fall),
         LET money == StartBalance + PnlSum(ts) + t.pnl
         IN  top >= money /\ fall >= top - money
  PROVE  Covered(Append(ts, t), top, fall)
<1> DEFINE n == Len(ts)
           r == Append(ts, t)
           money == StartBalance + PnlSum(ts) + t.pnl
<1>1. top \in Int /\ fall \in Int /\ n \in Nat /\ Len(r) = n + 1
  BY DEF Covered
<1>2. \A k \in 0..n : After(r, k) = After(ts, k) /\ After(ts, k) \in Int
  BY AfterAppends
<1>3. After(r, n + 1) = money /\ money \in Int
  <2>1. After(r, n + 1) = money /\ PnlSum(ts) \in Int
    BY AfterAppends
  <2>2. t.pnl \in Int
    BY DEF Trade
  <2>3. StartBalance \in Int
    BY SimulationAssumption
  <2>4. QED
    BY <2>1, <2>2, <2>3
<1>4. top >= money /\ fall >= top - money
  OBVIOUS
<1>5. /\ \A k \in 0..n : top >= After(ts, k)
      /\ \A j, k \in 0..n : j <= k => fall >= After(ts, j) - After(ts, k)
  BY DEF Covered
<1> HIDE DEF r, n, money
<1>6. ASSUME NEW k \in 0..(n + 1) PROVE top >= After(r, k)
  <2>1. k \in 0..n \/ k = n + 1
    BY <1>1
  <2>2. QED
    BY <1>2, <1>3, <1>4, <1>5, <2>1
<1>7. ASSUME NEW j \in 0..(n + 1), NEW k \in 0..(n + 1), j <= k
      PROVE  fall >= After(r, j) - After(r, k)
  <2>1. CASE k \in 0..n
    <3>1. j \in 0..n
      BY <1>1, <1>7, <2>1
    <3>2. After(r, j) = After(ts, j) /\ After(r, k) = After(ts, k)
      BY <1>2, <2>1, <3>1
    <3>3. fall >= After(ts, j) - After(ts, k)
      BY <1>5, <1>7, <2>1, <3>1
    <3>4. QED
      BY <3>2, <3>3
  <2>2. CASE k = n + 1 /\ j \in 0..n
    <3>1. top >= After(ts, j) /\ After(ts, j) \in Int
      BY <1>2, <1>5, <2>2
    <3>2. After(r, j) = After(ts, j) /\ After(r, k) = money
      BY <1>2, <1>3, <2>2
    <3>3. QED
      BY <1>1, <1>3, <1>4, <3>1, <3>2
  <2>3. CASE k = n + 1 /\ j = n + 1
    <3>1. After(r, j) = money /\ After(r, k) = money
      BY <1>3, <2>3
    <3>2. QED
      BY <1>1, <1>3, <1>4, <3>1
  <2>4. QED
    BY <1>1, <2>1, <2>2, <2>3
<1>8. Covered(r, top, fall)
  BY <1>1, <1>6, <1>7 DEF Covered
<1>9. QED
  BY <1>8 DEF r

LEMMA TradeReaches ==
  ASSUME candles \in Histories, trades \in Seq(Trade), TradesAreReachable(trades, candles),
         NEW t \in Trade, t.closed = Len(candles), Bar.low <= t.exit, t.exit <= Bar.high,
         t.opened \in 1..Len(candles),
         \E k \in t.opened..t.closed : t.pnl <= AtBest(t, candles[k])
  PROVE  TradesAreReachable(Append(trades, t), candles)
<1> DEFINE n == Len(trades)
           r == Append(trades, t)
<1>1. n \in Nat /\ Len(r) = n + 1 /\ r[n + 1] = t /\ \A i \in 1..n : r[i] = trades[i]
  OBVIOUS
<1>2. Len(candles) \in 1..Len(candles) /\ candles[Len(candles)] = Bar
  BY DEF Histories, Bar, Last
<1> HIDE DEF r, n
<1>3. ASSUME NEW i \in 1..(n + 1)
      PROVE  /\ r[i].closed \in 1..Len(candles) /\ r[i].opened \in 1..r[i].closed
             /\ candles[r[i].closed].low <= r[i].exit /\ r[i].exit <= candles[r[i].closed].high
             /\ \E k \in r[i].opened..r[i].closed : r[i].pnl <= AtBest(r[i], candles[k])
  <2>1. CASE i \in 1..n
    BY <1>1, <2>1 DEF TradesAreReachable, n
  <2>2. CASE i = n + 1
    BY <1>1, <1>2, <2>2
  <2>3. QED
    BY <1>1, <2>1, <2>2
<1>4. TradesAreReachable(r, candles)
  BY <1>1, <1>3 DEF TradesAreReachable
<1>5. QED
  BY <1>4 DEF r

LEMMA CandleReaches ==
  ASSUME candles \in Histories, NEW c, TradesAreReachable(trades, candles)
  PROVE  TradesAreReachable(trades, Append(candles, c))
<1> DEFINE h == Append(candles, c)
<1>1. Len(candles) \in Nat /\ Len(h) = Len(candles) + 1
      /\ \A i \in 1..Len(candles) : h[i] = candles[i] /\ i \in 1..Len(h)
  BY DEF Histories
<1> HIDE DEF h
<1>2. ASSUME NEW i \in 1..Len(trades)
      PROVE  /\ trades[i].closed \in 1..Len(h) /\ h[trades[i].closed] = candles[trades[i].closed]
             /\ \A k \in trades[i].opened..trades[i].closed : h[k] = candles[k]
  <2>1. trades[i].closed \in 1..Len(candles) /\ trades[i].opened \in 1..trades[i].closed
    BY DEF TradesAreReachable
  <2>2. QED
    BY <1>1, <2>1
<1>3. TradesAreReachable(trades, h)
  BY <1>2 DEF TradesAreReachable
<1>4. QED
  BY <1>3 DEF h

\* What a closed position earned, by its half and by its close.
LEMMA TradeIsAttainable ==
  ASSUME NEW p \in ProdPosition, candles \in Histories, Attained(p, candles),
         NEW raw \in Int, Bar.low <= raw, raw <= Bar.high
  PROVE  LET t == Production!TradeOf(p, raw)
         IN  /\ t.opened \in 1..Len(candles)
             /\ \E k \in t.opened..Len(candles) : t.pnl <= AtBest(t, candles[k])
<1> DEFINE t == Production!TradeOf(p, raw)
           d == p.direction
           n == Len(candles)
           best(k) == Production!Best(p, candles[k])
<1>1. /\ t.opened = p.opened /\ t.direction = d /\ t.entry = p.entry /\ t.volume = p.initial
      /\ t.pnl = p.realized + Pnl(d, p.entry, WithExitCost(d, raw), p.volume)
  BY SameMoney DEF Production!TradeOf, Production!RestPnl
<1> HIDE DEF t
<1>2. p.opened \in 1..n /\ n \in Nat /\ p.initial \in Nat /\ p.entry \in Int
  BY DEF Attained, Histories, ProdPosition
<1>3. \A k \in 1..n : best(k) \in Int
  BY DEF Histories, Candle, Production!Best
<1>4. Toward(d) * (best(n) - raw) >= 0
  <2>1. Bar = candles[n] /\ Bar \in Candle /\ d \in Sides
    BY DEF Bar, Last, Histories, ProdPosition
  <2>2. QED
    BY <2>1 DEF Production!Best, Toward, Candle, Sides
<1>5. \A k \in 1..n : AtBest(t, candles[k]) = Pnl(d, p.entry, WithExitCost(d, best(k)), p.initial)
  BY <1>1 DEF AtBest, Production!Best
<1>6. CASE ~p.partial
  <2>1. p.volume = p.initial /\ p.realized = 0
    BY <1>6 DEF Attained
  <2> DEFINE x == Pnl(d, p.entry, WithExitCost(d, raw), p.initial)
             y == Pnl(d, p.entry, WithExitCost(d, raw), 0)
             z == Pnl(d, p.entry, WithExitCost(d, best(n)), p.initial)
  <2>2. x \in Int /\ y = 0
    <3>1. WithExitCost(d, raw) \in Int
      BY CostsType
    <3>2. x \in Int
      BY <1>2, <3>1, PnlType
    <3>3. Toward(d) * (WithExitCost(d, raw) - p.entry) \in Int
      <4>1. WithExitCost(d, raw) - p.entry \in Int
        BY <1>2, <3>1
      <4> QED BY <4>1, TowardType
    <3>4. y = 0
      BY <3>3 DEF Pnl
    <3>5. QED
      BY <3>2, <3>4
  <2>3. n \in 1..n /\ n \in p.opened..n /\ best(n) \in Int
    BY <1>2, <1>3
  <2>4. y + x <= Pnl(d, p.entry, WithExitCost(d, best(n)), 0 + p.initial)
    BY <1>2, <1>4, <2>3, PartsEarnLess
  <2>5. 0 + p.initial = p.initial
    BY <1>2
  <2>6. y + x <= z
    BY <2>4, <2>5
  <2>7. t.pnl = 0 + x
    BY <1>1, <2>1
  <2> HIDE DEF x, y
  <2>8. t.pnl <= z
    BY <2>2, <2>6, <2>7
  <2>9. t.pnl <= AtBest(t, candles[n])
    BY <1>5, <2>3, <2>8
  <2>10. QED
    BY <1>1, <1>2, <2>3, <2>9 DEF t
<1>7. CASE p.partial
  <2> DEFINE at == PartialPrice(p)
             half == p.initial \div 2
             rest == p.initial - p.initial \div 2
  <2>1. /\ p.volume = rest
        /\ p.realized = Pnl(d, p.entry, WithExitCost(d, at), half)
    BY <1>7 DEF Attained
  <2>2. PICK k \in p.opened..n : Offers(d, candles[k], at)
    BY <1>7 DEF Attained
  <2>3. half \in Nat /\ rest \in Nat /\ half + rest = p.initial
    BY <1>2
  <2>4. at \in Int
    <3>1. Production!PartialTp \in Int
      BY DEF Production!PartialTp
    <3>2. QED
      BY <3>1, AtRType DEF PartialPrice
  <2> HIDE DEF at, half, rest
  <2>5. Toward(d) * (best(k) - at) >= 0
    BY <2>2 DEF Offers, Production!Best
  <2>6. k \in 1..n /\ n \in 1..n /\ n \in p.opened..n
    BY <1>2
  <2>7. best(k) \in Int /\ best(n) \in Int
    BY <1>3, <2>6
  <2> HIDE DEF best
  <2>8. PICK j \in {k, n} : Toward(d) * (best(j) - at) >= 0 /\ Toward(d) * (best(j) - raw) >= 0
    BY <1>4, <2>4, <2>5, <2>7 DEF Toward
  <2>9. best(j) \in Int /\ j \in 1..n /\ j \in p.opened..n
    BY <2>6, <2>7
  <2>10. Pnl(d, p.entry, WithExitCost(d, at), half) + Pnl(d, p.entry, WithExitCost(d, raw), rest)
           <= Pnl(d, p.entry, WithExitCost(d, best(j)), half + rest)
    BY <1>2, <2>3, <2>4, <2>8, <2>9, PartsEarnLess
  <2>11. t.pnl <= Pnl(d, p.entry, WithExitCost(d, best(j)), p.initial)
    BY <1>1, <2>1, <2>3, <2>10
  <2>12. t.pnl <= AtBest(t, candles[j])
    BY <1>5, <2>9, <2>11
  <2>13. QED
    BY <1>1, <1>2, <2>9, <2>12 DEF t
<1>8. QED
  BY <1>6, <1>7

LEMMA ProdMark ==
  ASSUME ProdInv, NEW money, NEW p, NEW c, Production!Marked(money, p, c),
         (IF p = None THEN money
          ELSE money + Pnl(p.direction, p.entry, c.close, p.volume)) \in Int
  PROVE  /\ Covered(trades, peak', drawdown')
         /\ p = None => peak' >= money /\ drawdown' >= peak' - money
<1> DEFINE equity == IF p = None THEN money
                     ELSE money + Pnl(p.direction, p.entry, c.close, p.volume)
<1>1. peak' = Max({peak, equity}) /\ drawdown' = Max({drawdown, Max({peak, equity}) - equity})
  BY SameHelpers, SameMoney DEF Production!Marked
<1>2. equity \in Int
  OBVIOUS
<1>3. p = None => equity = money
  OBVIOUS
<1> HIDE DEF equity
<1>4. trades \in Seq(Trade) /\ Covered(trades, peak, drawdown)
  BY DEF ProdInv
<1>5. /\ Covered(trades, peak', drawdown')
      /\ peak' >= equity /\ drawdown' >= peak' - equity
  BY <1>1, <1>2, <1>4, MarkCovers
<1>6. QED
  BY <1>3, <1>5

\* The close of the position, at a price that the candle had.
LEMMA ProdCloses ==
  ASSUME ProdInv, position # None, NEW raw \in Int, Bar.low <= raw, raw <= Bar.high,
         balance' = balance + Production!RestPnl(position, raw),
         trades' = Append(trades, Production!TradeOf(position, raw)),
         Production!Marked(balance', None, Bar),
         position' = None, candles' = candles, pending' = pending, phase' # "open"
  PROVE  ProdInv' /\ StopKept
<1> DEFINE t == Production!TradeOf(position, raw)
           rest == Production!RestPnl(position, raw)
           sum == PnlSum(trades)
<1>1. position \in ProdPosition /\ candles \in Histories /\ trades \in Seq(Trade)
      /\ position.realized \in Int
  BY DEF ProdInv, ProdPosition
<1>2. t \in Trade /\ t.closed = Len(candles) /\ t.exit = raw /\ rest \in Int
      /\ t.pnl = position.realized + rest
  BY <1>1, ProdTradeType
<1>3. balance = StartBalance + sum + position.realized /\ sum \in Int /\ StartBalance \in Int
  <2>1. balance = StartBalance + sum + position.realized
    BY DEF ProdInv, EarnedBy
  <2>2. sum \in Int
    BY <1>1, PnlSumType
  <2>3. StartBalance \in Int
    BY SimulationAssumption
  <2>4. QED
    BY <2>1, <2>2, <2>3
<1>4. trades' = Append(trades, t)
  OBVIOUS
<1>5. balance' = balance + rest
  OBVIOUS
<1> HIDE DEF t, rest, sum
<1>6. balance' = StartBalance + sum + t.pnl /\ balance' \in Int
  <2> DEFINE earned == position.realized
             pnl == t.pnl
             money == StartBalance
  <2>1. earned \in Int /\ rest \in Int /\ sum \in Int /\ money \in Int /\ pnl = earned + rest
    BY <1>1, <1>2, <1>3
  <2>2. balance' = (money + sum + earned) + rest
    BY <1>3, <1>5
  <2> HIDE DEF earned, pnl, money
  <2>3. balance' = money + sum + pnl /\ balance' \in Int
    BY <2>1, <2>2
  <2>4. QED
    BY <2>3 DEF pnl, money
<1>7. /\ Covered(trades, peak', drawdown')
      /\ peak' >= balance' /\ drawdown' >= peak' - balance'
  BY <1>6, ProdMark
<1>8. Covered(trades', peak', drawdown')
  <2>1. /\ peak' >= StartBalance + PnlSum(trades) + t.pnl
        /\ drawdown' >= peak' - (StartBalance + PnlSum(trades) + t.pnl)
    BY <1>6, <1>7 DEF sum
  <2>2. QED
    BY <1>1, <1>2, <1>4, <1>7, <2>1, TradeCovers
<1>9. trades' \in Seq(Trade) /\ PnlSum(trades') = sum + t.pnl
  BY <1>1, <1>2, <1>4, PnlAppends DEF sum
<1>10. TradesAreReachable(trades', candles')
  <2>1. t.opened \in 1..Len(candles)
        /\ \E k \in t.opened..t.closed : t.pnl <= AtBest(t, candles[k])
    BY <1>1, <1>2, TradeIsAttainable DEF ProdInv, t
  <2>2. QED
    BY <1>1, <1>2, <1>4, <2>1, TradeReaches DEF ProdInv
<1>11. balance' = StartBalance + PnlSum(trades') + EarnedBy(position')
  <2> DEFINE pnl == t.pnl
             money == StartBalance
  <2>1. pnl \in Int /\ EarnedBy(position') = 0 /\ money \in Int
    BY <1>2, <1>3 DEF Trade, EarnedBy
  <2>2. balance' = money + sum + pnl /\ PnlSum(trades') = sum + pnl /\ sum \in Int
    BY <1>3, <1>6, <1>9
  <2> HIDE DEF pnl, money
  <2>3. balance' = money + PnlSum(trades') + EarnedBy(position')
    BY <2>1, <2>2
  <2>4. QED
    BY <2>3 DEF money
<1>12. ProdInv'
  BY <1>6, <1>8, <1>9, <1>10, <1>11 DEF ProdInv
<1>13. QED
  BY <1>12 DEF StopKept

\* What books nothing and leaves the position as it is.
LEMMA ProdIdle ==
  ASSUME ProdInv, UNCHANGED <<balance, position, trades>>,
         candles' \in Histories, TradesAreReachable(trades, candles'),
         position # None => Attained(position, candles'),
         Covered(trades, peak', drawdown'),
         pending' \in Orders \cup {None}, pending' # None => position = None,
         phase' = "open" => pending' # None
  PROVE  ProdInv' /\ StopKept
<1>1. ProdInv'
  BY DEF ProdInv
<1>2. CASE position # None
  BY <1>1, <1>2 DEF ProdInv, ProdPosition, StopKept, Toward
<1>3. CASE position = None
  BY <1>1, <1>3 DEF StopKept
<1>4. QED
  BY <1>2, <1>3

LEMMA ProdSteps ==
  ASSUME ProdInv, Production!ProductionNext
  PROVE  ProdInv' /\ StopKept
<1>1. /\ Bar \in Candle /\ candles \in Histories /\ trades \in Seq(Trade)
      /\ position \in ProdPosition \cup {None} /\ pending \in Orders \cup {None}
      /\ TradesAreReachable(trades, candles) /\ Covered(trades, peak, drawdown)
      /\ (position # None => Attained(position, candles))
      /\ balance \in Int
  BY DEF ProdInv, Histories, Bar, Last
<1>2. Bar.close \in Int /\ Bar.low <= Bar.close /\ Bar.close <= Bar.high
  BY <1>1 DEF Candle
<1>3. CASE Production!ProductionCandle
  <2>1. PICK move \in MovesOf(Len(candles) + 1) :
          candles' = Append(candles, NextBar(Bar.close, move))
    BY <1>3, SameBars DEF Production!ProductionCandle
  <2>2. candles' \in Histories
    BY <1>1, <2>1, NextHistoryType DEF Bar
  <2>3. TradesAreReachable(trades, candles') /\ (position # None => Attained(position, candles'))
    BY <1>1, <2>1, CandleReaches, CandleAttains
  <2>4. /\ UNCHANGED <<balance, position, trades, pending, peak, drawdown>>
        /\ phase' = "open" => pending # None
    BY <1>3, SameHelpers
       DEF Production!ProductionCandle, Production!account, Production!curve
  <2>5. QED
    BY <1>1, <2>2, <2>3, <2>4, ProdIdle DEF ProdInv
<1>4. CASE Production!ExecuteAtOpen
  <2>1. /\ UNCHANGED <<candles, balance, trades, peak, drawdown>>
        /\ pending # None /\ position = None /\ pending' = None /\ phase' = "day"
        /\ position' = Production!Entry(pending, candles, balance, Production!Today.loss)
    BY <1>4, SameHelpers DEF Production!ExecuteAtOpen, Production!curve, ProdInv
  <2>2. pending \in Orders
    BY <1>1, <2>1
  <2>3. \/ position' = None
        \/ /\ position' \in ProdPosition /\ position'.realized = 0
           /\ Untouched(position', candles)
    BY <1>1, <2>1, <2>2, ProdEntryType
  <2>7. position' # None => Attained(position', candles')
    BY <2>1, <2>3 DEF Untouched, Attained
  <2>4. EarnedBy(position') = EarnedBy(position)
    BY <2>1, <2>3 DEF EarnedBy
  <2>5. ProdInv'
    BY <2>1, <2>3, <2>4, <2>7 DEF ProdInv
  <2>6. QED
    BY <2>1, <2>5 DEF StopKept
<1>5. CASE Production!BeginDay
  <2>1. UNCHANGED <<candles, balance, position, pending, trades, peak, drawdown>> /\ phase' = "exit"
    BY <1>5 DEF Production!BeginDay, Production!curve
  <2>2. QED
    BY <1>1, <2>1, ProdIdle DEF ProdInv
<1>6. CASE Production!ProductionExit
  <2>1. PICK raw \in Production!ExitPrices(position, Bar) : Production!CloseAt(raw)
    BY <1>6, SameBars DEF Production!ProductionExit
  <2>2. /\ position # None /\ candles' = candles /\ pending' = pending /\ phase' = "decide"
        /\ Production!Marked(balance', None, Bar)
    BY <1>6, SameHelpers, SameBars DEF Production!ProductionExit
  <2>3. raw \in Int /\ Bar.low <= raw /\ raw <= Bar.high
    BY <1>1, <2>1, <2>2, ExitsAreReachable
  <2>4. /\ balance' = balance + Production!RestPnl(position, raw)
        /\ trades' = Append(trades, Production!TradeOf(position, raw)) /\ position' = None
    BY <2>1, SameHelpers DEF Production!CloseAt
  <2>5. QED
    BY <2>2, <2>3, <2>4, ProdCloses
<1>7. CASE Production!ProductionManage
  <2> DEFINE q == Production!Manage(position, Bar)
  <2>1. /\ position # None /\ UNCHANGED <<candles, pending, trades>> /\ phase' = "decide"
        /\ position' = q /\ balance' = balance + (q.realized - position.realized)
        /\ Production!Marked(balance', q, Bar)
    BY <1>7, SameHelpers, SameBars DEF Production!ProductionManage
  <2>2. ProdKept(position, q) /\ position \in ProdPosition
    BY <1>1, <2>1, ManageKept
  <2>10. Attained(q, candles)
    BY <1>1, <2>1, ManageAttains DEF Bar
  <2> HIDE DEF q
  <2>3. q \in ProdPosition /\ q # None /\ q.realized \in Int /\ position.realized \in Int
    BY <2>2, ProdIsNotNone DEF ProdKept, ProdPosition
  <2>4. Pnl(q.direction, q.entry, Bar.close, q.volume) \in Int
    <3>1. q.entry \in Int /\ q.volume \in Int
      BY <2>3 DEF ProdPosition
    <3>2. QED
      BY <1>2, <3>1, PnlType
  <2>5. balance' \in Int /\ balance' + Pnl(q.direction, q.entry, Bar.close, q.volume) \in Int
    BY <1>1, <2>1, <2>3, <2>4
  <2>6. Covered(trades, peak', drawdown')
    BY <2>1, <2>3, <2>4, <2>5, ProdMark
  <2>7. balance' = StartBalance + PnlSum(trades) + EarnedBy(q)
    <3> DEFINE sum == PnlSum(trades)
    <3>1. sum \in Int
      BY <1>1, PnlSumType
    <3>2. balance = StartBalance + sum + position.realized
      BY <2>1 DEF ProdInv, EarnedBy
    <3>3. EarnedBy(q) = q.realized
      BY <2>3 DEF EarnedBy
    <3>4. StartBalance \in Int
      BY SimulationAssumption
    <3> HIDE DEF sum
    <3>5. balance' = StartBalance + sum + EarnedBy(q)
      BY <2>1, <2>3, <3>1, <3>2, <3>3, <3>4
    <3>6. QED
      BY <3>5 DEF sum
  <2>8. ProdInv'
    BY <2>1, <2>3, <2>5, <2>6, <2>7, <2>10 DEF ProdInv
  <2>9. QED
    BY <2>1, <2>2, <2>8 DEF StopKept, ProdKept
<1>8. CASE Production!ProductionFlat
  <2>1. /\ UNCHANGED <<candles, balance, position, trades, pending>> /\ phase' = "decide"
        /\ Production!Marked(balance, None, Bar)
    BY <1>8, SameHelpers, SameBars DEF Production!ProductionFlat, Production!account
  <2>2. Covered(trades, peak', drawdown')
    BY <1>1, <2>1, ProdMark
  <2>3. QED
    BY <1>1, <2>1, <2>2, ProdIdle DEF ProdInv
<1>9. CASE Production!Decide
  <2>1. /\ UNCHANGED <<candles, balance, position, trades, peak, drawdown>> /\ phase' = "next"
        /\ \/ pending' = None
           \/ position = None /\ pending' \in Orders
    BY <1>9, SameHelpers
       DEF Production!Decide, Production!account, Production!curve, Orders, Sides
  <2>2. QED
    BY <1>1, <2>1, ProdIdle
<1>10. CASE Production!ProductionFinish
  <2>1. candles' = candles /\ pending' = pending /\ phase' = "done"
    BY <1>10 DEF Production!ProductionFinish
  <2>2. CASE position = None
    <3>1. UNCHANGED <<balance, position, trades, peak, drawdown>>
      BY <1>10, <2>2, SameHelpers
         DEF Production!ProductionFinish, Production!account, Production!curve
    <3>2. QED
      BY <1>1, <2>1, <3>1, ProdIdle DEF ProdInv
  <2>3. CASE position # None
    <3>1. /\ balance' = balance + Production!RestPnl(position, Bar.close)
          /\ trades' = Append(trades, Production!TradeOf(position, Bar.close))
          /\ position' = None /\ Production!Marked(balance', None, Bar)
      BY <1>10, <2>3, SameHelpers, SameBars DEF Production!ProductionFinish
    <3>2. QED
      BY <1>2, <2>1, <2>3, <3>1, ProdCloses
  <2>4. QED
    BY <2>2, <2>3
<1>11. QED
  BY <1>3, <1>4, <1>5, <1>6, <1>7, <1>8, <1>9, <1>10 DEF Production!ProductionNext

-----------------------------------------------------------------------------
(* All the engines                                                         *)

WeeklyEngines == {"v1", "v3", "v4"}

BacktestInv ==
  /\ engine \in WeeklyEngines \cup {"v5", "production"}
  /\ engine \in WeeklyEngines => GrowthInv
  /\ engine = "v5" => V5Inv
  /\ engine = "production" => ProdInv

LEMMA EveryEngineStarts == Init => BacktestInv
<1> SUFFICES ASSUME Init PROVE BacktestInv
  OBVIOUS
<1>1. /\ phase = "next" /\ periods = <<>> /\ candles = <<FirstCandle>> /\ balance = StartBalance
      /\ position = None /\ pending = None /\ trades = <<>> /\ peak = StartBalance
      /\ drawdown = 0 /\ engine \in Engines
  BY DEF Init, SimulationInit
<1>2. engine \in WeeklyEngines \cup {"v5", "production"}
  BY <1>1, BacktestAssumption DEF WeeklyEngines
<1>3. candles \in Histories
  BY <1>1, FirstCandleType DEF Histories
<1>4. StartBalance \in Int
  BY SimulationAssumption
<1>5. balance \in Int /\ trades \in Seq(Trade) /\ balance = StartBalance + PnlSum(trades)
  BY <1>1, <1>4, PnlOfNothing
<1>6. GrowthInv
  <2>1. WeekBooks
    BY <1>1 DEF WeekBooks
  <2>2. QED
    BY <1>1, <1>3, <1>5, <2>1 DEF GrowthInv, GrowthBooks
<1>7. V5Inv
  BY <1>1, <1>3, <1>5 DEF V5Inv
<1>8. ProdInv
  <2>1. TradesAreReachable(trades, candles)
    BY <1>1 DEF TradesAreReachable
  <2>2. \A k \in 0..Len(trades) : k = 0
    BY <1>1
  <2>3. After(trades, 0) = StartBalance
    <3> DEFINE sum == PnlSum(SubSeq(trades, 1, 0))
    <3>1. SubSeq(trades, 1, 0) = <<>>
      BY <1>1
    <3>2. sum = 0
      BY <3>1, PnlOfNothing
    <3>3. After(trades, 0) = StartBalance + sum
      BY DEF After
    <3> HIDE DEF sum
    <3>4. QED
      BY <1>4, <3>2, <3>3
  <2>4. Covered(trades, peak, drawdown)
    <3>1. \A k \in 0..Len(trades) : After(trades, k) = StartBalance
      BY <2>2, <2>3
    <3>2. QED
      BY <1>1, <1>4, <3>1 DEF Covered
  <2>5. balance = StartBalance + PnlSum(trades) + EarnedBy(position)
    BY <1>1, <1>4, <1>5, PnlOfNothing DEF EarnedBy
  <2>6. QED
    BY <1>1, <1>3, <1>5, <2>1, <2>4, <2>5 DEF ProdInv
<1>9. QED
  BY <1>2, <1>6, <1>7, <1>8 DEF BacktestInv

LEMMA EveryEngineSteps == BacktestInv /\ [Next]_vars => BacktestInv' /\ StopKept
<1> SUFFICES ASSUME BacktestInv, [Next]_vars PROVE BacktestInv' /\ StopKept
  OBVIOUS
<1>1. CASE UNCHANGED vars
  <2>1. UNCHANGED <<engine, candles, phase, balance, position, periods, trades, pending, peak,
                    drawdown>>
    BY <1>1 DEF vars, account, curve
  <2>2. GrowthInv => GrowthInv' /\ StopKept
    BY <2>1, GrowthIdle DEF GrowthInv
  <2>3. V5Inv => V5Inv' /\ StopKept
    BY <2>1 DEF V5Inv, StopKept, V5Position, Toward
  <2>4. ProdInv => ProdInv' /\ StopKept
    BY <2>1, ProdIdle DEF ProdInv
  <2>5. QED
    BY <2>1, <2>2, <2>3, <2>4 DEF BacktestInv
<1>2. CASE Next
  <2>1. engine' = engine
    BY <1>2 DEF Next
  <2>2. CASE engine \in WeeklyEngines
    <3>1. Growth!Next \/ Growth!V3Next \/ Growth!V4Next
      BY <1>2, <2>2 DEF Next, Step, WeeklyEngines
    <3>2. GrowthInv' /\ StopKept
      BY <2>2, <3>1, GrowthKept DEF BacktestInv
    <3>3. QED
      BY <2>1, <2>2, <3>2 DEF BacktestInv, WeeklyEngines
  <2>3. CASE engine = "v5"
    <3>1. V5!V5Next
      BY <1>2, <2>3 DEF Next, Step
    <3>2. V5Inv' /\ StopKept
      BY <2>3, <3>1, V5Steps DEF BacktestInv
    <3>3. QED
      BY <2>1, <2>3, <3>2 DEF BacktestInv, WeeklyEngines
  <2>4. CASE engine = "production"
    <3>1. Production!ProductionNext
      BY <1>2, <2>4 DEF Next, Step
    <3>2. ProdInv' /\ StopKept
      BY <2>4, <3>1, ProdSteps DEF BacktestInv
    <3>3. QED
      BY <2>1, <2>4, <3>2 DEF BacktestInv, WeeklyEngines
  <2>5. QED
    BY <2>2, <2>3, <2>4 DEF BacktestInv
<1>3. QED
  BY <1>1, <1>2

LEMMA EveryRunIsSound == Spec => []BacktestInv
<1>1. BacktestInv /\ [Next]_vars => BacktestInv'
  BY EveryEngineSteps
<1>2. QED
  BY <1>1, EveryEngineStarts, PTL DEF Spec

-----------------------------------------------------------------------------
(* The limits of the week                                                  *)

\* Bars are in the weeks they are in, whichever module counts.
LEMMA Weeks ==
  /\ \A i \in Int : PeriodOf(i) \in Int
  /\ \A i, j \in Int : i <= j => PeriodOf(i) <= PeriodOf(j)
  /\ \A i : Growth!PeriodOf(i) = PeriodOf(i) /\ V5!PeriodOf(i) = PeriodOf(i)
<1>1. PeriodBars \in Nat \ {0}
  BY SimulationAssumption
<1>2. \A i \in Int : PeriodOf(i) \in Int
  BY <1>1, Quotients DEF PeriodOf
<1>3. ASSUME NEW i \in Int, NEW j \in Int, i <= j
      PROVE  PeriodOf(i) <= PeriodOf(j)
  <2> DEFINE p == PeriodOf(i)
             q == PeriodOf(j)
  <2>1. p \in Int /\ q \in Int
    BY <1>2
  <2>2. PeriodBars * p <= i - 1 /\ j - 1 < PeriodBars * q + PeriodBars
    BY <1>1 DEF PeriodOf
  <2> HIDE DEF p, q
  <2>3. ASSUME p >= q + 1
        PROVE  FALSE
    <3>1. p - q - 1 \in Nat
      BY <2>1, <2>3
    <3>2. PeriodBars * (p - q - 1) \in Nat
      BY <1>1, <3>1
    <3>3. PeriodBars * (p - q - 1) = PeriodBars * p - PeriodBars * q - PeriodBars
      BY <1>1, <2>1
    <3>4. PeriodBars * p \in Int /\ PeriodBars * q \in Int
      BY <1>1, <2>1
    <3>5. QED
      BY <1>1, <1>3, <2>2, <3>2, <3>3, <3>4
  <2>4. p <= q
    BY <2>1, <2>3
  <2>5. QED
    BY <2>4 DEF p, q
<1>4. \A i : Growth!PeriodOf(i) = PeriodOf(i) /\ V5!PeriodOf(i) = PeriodOf(i)
  BY DEF PeriodOf, Growth!PeriodOf, V5!PeriodOf
<1>5. QED
  BY <1>2, <1>3, <1>4

LEMMA PnlOfPart ==
  ASSUME NEW s \in Seq(Trade), NEW part \in SUBSET DOMAIN s
  PROVE  /\ IsFiniteSet(part) /\ Cardinality(part) \in Nat /\ PnlOf(s, part) \in Int
         /\ PnlOf(s, DOMAIN s) = PnlSum(s) /\ PnlOf(s, {}) = 0
         /\ \A t \in Trade : PnlOf(Append(s, t), part) = PnlOf(s, part)
<1> DEFINE f == [i \in DOMAIN s |-> s[i].pnl]
<1>1. /\ Len(s) \in Nat /\ DOMAIN s = 1..Len(s) /\ IsFiniteSet(1..Len(s))
      /\ \A i \in 1..Len(s) : s[i] \in Trade
  BY FS_Interval
<1>2. \A i \in DOMAIN s : f[i] \in Int
  BY <1>1 DEF Trade
<1>3. IsFiniteSet(part) /\ Cardinality(part) \in Nat
  BY <1>1, FS_Subset, FS_CardinalityType
<1>4. PnlOf(s, part) \in Int
  <2> HIDE DEF f
  <2>1. \A i \in part : f[i] \in Int
    BY <1>2
  <2>2. SumFunctionOnSet(f, part) \in Int
    BY <1>3, <2>1, SumType
  <2>3. QED
    BY <2>2 DEF PnlOf, f
<1>5. PnlOf(s, DOMAIN s) = PnlSum(s)
  BY DEF PnlOf, PnlSum, SumFunction
<1>6. PnlOf(s, {}) = 0
  BY SumOfNothing DEF PnlOf
<1>7. ASSUME NEW t \in Trade
      PROVE  PnlOf(Append(s, t), part) = PnlOf(s, part)
  <2> DEFINE r == Append(s, t)
             g == [i \in DOMAIN r |-> r[i].pnl]
  <2>1. \A i \in 1..Len(s) : i \in DOMAIN r /\ r[i] = s[i]
    BY <1>1
  <2> HIDE DEF r
  <2>2. \A i \in part : f[i] = g[i]
    BY <1>1, <2>1
  <2> HIDE DEF f, g
  <2>3. SumFunctionOnSet(f, part) = SumFunctionOnSet(g, part)
    BY <1>3, <2>2, SumAgrees
  <2>4. QED
    BY <2>3 DEF PnlOf, f, g, r
<1>8. QED
  BY <1>3, <1>4, <1>5, <1>6, <1>7

\* When trades were opened and closed, and that an entry is still to come in
\* the phases before it.
Dated ==
  /\ \A i \in DOMAIN trades :
       /\ 1 <= trades[i].opened /\ trades[i].opened <= trades[i].closed
       /\ trades[i].closed <= Len(candles)
  /\ position # None =>
       /\ position.opened \in 1..Len(candles)
       /\ \A i \in DOMAIN trades : trades[i].opened < position.opened
  /\ phase \in {"exit", "enter"} => \A bar \in Entered : bar < Len(candles)

\* The limits as they were for an entry at this bar.
Within(bar) ==
  LET start == BalanceAtWeek(bar)
      made == BalanceAtEntry(bar) - start
  IN  /\ start > 0 => 100 * made > WeeklyLossLimit * start
      /\ Weekly => 100 * made < WeeklyTarget * start
      /\ Cardinality(EnteredInWeek(bar)) <= MaxTradesPerWeek

LimitsAreWithin == \A bar \in Entered : Within(bar)

\* What the books of trades and candles are, in every engine with a week.
Ledger ==
  /\ candles \in Histories /\ trades \in Seq(Trade)
  /\ position # None => position.opened \in Nat

LEMMA EnteredType ==
  ASSUME Ledger, Dated
  PROVE  /\ Len(candles) \in Nat \ {0}
         /\ \A bar \in Entered : bar \in 1..Len(candles)
         /\ \A i \in DOMAIN trades : trades[i] \in Trade
         /\ \A i \in DOMAIN trades : trades[i].opened \in Int /\ trades[i].closed \in Int
<1>1. \A i \in DOMAIN trades : trades[i] \in Trade
  BY DEF Ledger
<1>2. \A i \in DOMAIN trades : trades[i].opened \in Int /\ trades[i].closed \in Int
  BY <1>1 DEF Trade
<1>3. Len(candles) \in Nat \ {0}
  BY DEF Ledger, Histories
<1>4. \A i \in DOMAIN trades : trades[i].opened \in 1..Len(candles)
  BY <1>2, <1>3 DEF Dated
<1>5. QED
  BY <1>1, <1>2, <1>3, <1>4 DEF Entered, Dated

\* A step that trades nothing, on the same candle or the next one.
LEMMA NothingTraded ==
  ASSUME Ledger, Dated, LimitsAreWithin, trades' = trades, engine' = engine,
         Len(candles') = Len(candles) \/ Len(candles') = Len(candles) + 1,
         \/ position = None /\ position' = None
         \/ position # None /\ position' # None /\ position'.opened = position.opened,
         phase' \in {"exit", "enter"} =>
           Len(candles') = Len(candles) + 1 \/ phase \in {"exit", "enter"}
  PROVE  /\ Dated' /\ LimitsAreWithin' /\ Entered' = Entered
         /\ \A bar : /\ BalanceAtWeek(bar)' = BalanceAtWeek(bar)
                     /\ EnteredInWeek(bar)' = EnteredInWeek(bar)
<1>1. Entered' = Entered
  BY DEF Entered
<1>2. \A bar : /\ BalanceAtWeek(bar)' = BalanceAtWeek(bar)
               /\ BalanceAtEntry(bar)' = BalanceAtEntry(bar)
               /\ EnteredInWeek(bar)' = EnteredInWeek(bar)
  BY <1>1 DEF BalanceAtWeek, BalanceAtEntry, EnteredInWeek, ClosedBefore, ClosedInEarlierWeeks
<1>3. LimitsAreWithin'
  BY <1>1, <1>2 DEF LimitsAreWithin, Within, Weekly
<1>4. Dated'
  <2>1. Len(candles) \in Nat /\ Len(candles') \in Nat /\ Len(candles') >= Len(candles)
        /\ \A bar \in Entered : bar \in 1..Len(candles)
    BY EnteredType
  <2>2. \A i \in DOMAIN trades : trades[i].closed <= Len(candles')
    BY <2>1, EnteredType DEF Dated
  <2>3. position' # None => position'.opened \in 1..Len(candles')
    BY <2>1 DEF Dated
  <2>4. phase' \in {"exit", "enter"} => \A bar \in Entered' : bar < Len(candles')
    BY <1>1, <2>1 DEF Dated
  <2>5. QED
    BY <2>2, <2>3, <2>4 DEF Dated
<1>5. QED
  BY <1>1, <1>2, <1>3, <1>4

\* The open position is closed on this candle: what an entry found and what
\* its week began with are what they were.
LEMMA TradeClosed ==
  ASSUME Ledger, Dated, LimitsAreWithin, engine' = engine, candles' = candles,
         position # None, position' = None, NEW t \in Trade, trades' = Append(trades, t),
         t.opened = position.opened, t.closed = Len(candles), phase' # "exit",
         phase' = "enter" => phase = "exit"
  PROVE  /\ Dated' /\ LimitsAreWithin' /\ Entered' = Entered
         /\ BalanceAtWeek(Len(candles))' = BalanceAtWeek(Len(candles))
         /\ EnteredInWeek(Len(candles))' = EnteredInWeek(Len(candles))
<1> DEFINE n == Len(candles)
           last == Len(trades) + 1
<1>1. /\ n \in Nat \ {0} /\ trades \in Seq(Trade)
      /\ \A bar \in Entered : bar \in 1..n
      /\ \A i \in DOMAIN trades : trades[i] \in Trade
      /\ \A i \in DOMAIN trades : trades[i].opened \in Int /\ trades[i].closed \in Int
  BY EnteredType DEF Ledger
<1>2. /\ DOMAIN trades = 1..Len(trades) /\ Len(trades) \in Nat
      /\ DOMAIN trades' = DOMAIN trades \cup {last} /\ last \notin DOMAIN trades
      /\ trades'[last] = t /\ \A i \in DOMAIN trades : trades'[i] = trades[i]
  BY <1>1
<1>3. position.opened \in 1..n /\ \A i \in DOMAIN trades : trades[i].opened < position.opened
  BY DEF Dated
<1> HIDE DEF last
<1>4. Entered' = Entered
  BY <1>2 DEF Entered
<1>5. ASSUME NEW bar \in Entered \cup {n}
      PROVE  ClosedInEarlierWeeks(bar)' = ClosedInEarlierWeeks(bar)
             /\ BalanceAtWeek(bar)' = BalanceAtWeek(bar)
  <2>1. ~(PeriodOf(t.closed) < PeriodOf(bar))
    <3>1. bar \in Int /\ n \in Int /\ bar <= n
      BY <1>1
    <3>2. PeriodOf(bar) <= PeriodOf(n) /\ PeriodOf(n) \in Int /\ PeriodOf(bar) \in Int
      BY <3>1, Weeks
    <3>3. QED
      BY <3>2
  <2>2. ClosedInEarlierWeeks(bar)' = ClosedInEarlierWeeks(bar)
    BY <1>2, <2>1 DEF ClosedInEarlierWeeks, PeriodOf
  <2>3. ClosedInEarlierWeeks(bar) \in SUBSET DOMAIN trades
    BY DEF ClosedInEarlierWeeks
  <2>4. PnlOf(trades', ClosedInEarlierWeeks(bar)) = PnlOf(trades, ClosedInEarlierWeeks(bar))
    BY <1>1, <2>3, PnlOfPart
  <2>5. QED
    BY <2>2, <2>4 DEF BalanceAtWeek
<1>6. ASSUME NEW bar \in Entered
      PROVE  BalanceAtEntry(bar)' = BalanceAtEntry(bar)
  <2>1. bar \in Int /\ bar <= n /\ ~(position.opened < bar)
    BY <1>1, <1>3 DEF Entered
  <2>2. ClosedBefore(bar)' = ClosedBefore(bar)
    BY <1>2, <2>1 DEF ClosedBefore
  <2>3. ClosedBefore(bar) \in SUBSET DOMAIN trades
    BY DEF ClosedBefore
  <2>4. PnlOf(trades', ClosedBefore(bar)) = PnlOf(trades, ClosedBefore(bar))
    BY <1>1, <2>3, PnlOfPart
  <2>5. QED
    BY <2>2, <2>4 DEF BalanceAtEntry
<1>7. \A bar : EnteredInWeek(bar)' = EnteredInWeek(bar)
  BY <1>4 DEF EnteredInWeek, PeriodOf
<1>8. LimitsAreWithin'
  BY <1>4, <1>5, <1>6, <1>7 DEF LimitsAreWithin, Within, Weekly
<1>9. Dated'
  <2>1. \A i \in DOMAIN trades' :
          /\ 1 <= trades'[i].opened /\ trades'[i].opened <= trades'[i].closed
          /\ trades'[i].closed <= n
    BY <1>1, <1>2, <1>3 DEF Dated
  <2>2. phase' \in {"exit", "enter"} => \A bar \in Entered' : bar < n
    BY <1>4 DEF Dated
  <2>3. QED
    BY <2>1, <2>2 DEF Dated
<1>10. QED
  BY <1>4, <1>5, <1>7, <1>8, <1>9

\* An entry on this candle, which finds all trades closed.
LEMMA TradeEntered ==
  ASSUME Ledger, Dated, LimitsAreWithin, engine' = engine, candles' = candles,
         trades' = trades, phase = "enter", phase' \notin {"exit", "enter"},
         position = None, position' # None, position'.opened = Len(candles),
         BalanceAtWeek(Len(candles)) > 0 =>
           100 * (balance - BalanceAtWeek(Len(candles)))
             > WeeklyLossLimit * BalanceAtWeek(Len(candles)),
         Weekly => 100 * (balance - BalanceAtWeek(Len(candles)))
                     < WeeklyTarget * BalanceAtWeek(Len(candles)),
         balance = StartBalance + PnlSum(trades),
         MaxTradesPerWeek \in Int,
         Cardinality(EnteredInWeek(Len(candles))) < MaxTradesPerWeek
  PROVE  /\ Dated' /\ LimitsAreWithin'
         /\ BalanceAtWeek(Len(candles))' = BalanceAtWeek(Len(candles))
         /\ Cardinality(EnteredInWeek(Len(candles)))'
              = Cardinality(EnteredInWeek(Len(candles))) + 1
<1> DEFINE n == Len(candles)
<1>1. /\ n \in Nat \ {0} /\ trades \in Seq(Trade)
      /\ \A bar \in Entered : bar \in 1..n /\ bar < n
      /\ \A i \in DOMAIN trades : trades[i].opened \in Int /\ trades[i].closed \in Int
  BY EnteredType DEF Ledger, Dated
<1>2. Entered' = Entered \cup {n} /\ n \notin Entered
  BY <1>1 DEF Entered
<1>3. IsFiniteSet(Entered)
  <2>1. IsFiniteSet(1..n) /\ Entered \in SUBSET (1..n)
    BY <1>1, FS_Interval
  <2>2. QED
    BY <2>1, FS_Subset
<1>4. \A bar : BalanceAtWeek(bar)' = BalanceAtWeek(bar)
               /\ BalanceAtEntry(bar)' = BalanceAtEntry(bar)
  BY DEF BalanceAtWeek, BalanceAtEntry, ClosedBefore, ClosedInEarlierWeeks
<1>5. BalanceAtEntry(n) = balance
  <2>1. \A i \in DOMAIN trades : trades[i].closed <= n /\ trades[i].opened < n
    BY <1>1 DEF Dated, Entered
  <2>2. ClosedBefore(n) = DOMAIN trades
    BY <2>1 DEF ClosedBefore
  <2>3. PnlOf(trades, DOMAIN trades) = PnlSum(trades)
    BY <1>1, PnlOfPart
  <2>4. QED
    BY <2>2, <2>3 DEF BalanceAtEntry
<1>6. ASSUME NEW bar
      PROVE  /\ IsFiniteSet(EnteredInWeek(bar)) /\ Cardinality(EnteredInWeek(bar)) \in Nat
             /\ n \notin EnteredInWeek(bar)
             /\ EnteredInWeek(bar)' = IF PeriodOf(bar) = PeriodOf(n)
                                      THEN EnteredInWeek(bar) \cup {n} ELSE EnteredInWeek(bar)
  <2>1. EnteredInWeek(bar) \in SUBSET Entered
    BY DEF EnteredInWeek
  <2>2. IsFiniteSet(EnteredInWeek(bar)) /\ Cardinality(EnteredInWeek(bar)) \in Nat
    BY <1>3, <2>1, FS_Subset, FS_CardinalityType
  <2>3. EnteredInWeek(bar)' = {b \in Entered \cup {n} : PeriodOf(b) = PeriodOf(bar)}
    BY <1>2 DEF EnteredInWeek, PeriodOf
  <2>4. QED
    BY <1>2, <2>1, <2>2, <2>3 DEF EnteredInWeek
<1>7. ASSUME NEW bar, PeriodOf(bar) = PeriodOf(n)
      PROVE  Cardinality(EnteredInWeek(bar)') = Cardinality(EnteredInWeek(n)) + 1
  <2>1. EnteredInWeek(bar) = EnteredInWeek(n)
    BY <1>7 DEF EnteredInWeek
  <2>2. EnteredInWeek(bar)' = EnteredInWeek(n) \cup {n}
    BY <1>6, <1>7, <2>1
  <2>3. QED
    BY <1>6, <2>2, FS_AddElement
<1>8. ASSUME NEW bar \in Entered'
      PROVE  Cardinality(EnteredInWeek(bar)') <= MaxTradesPerWeek
  <2>1. CASE PeriodOf(bar) = PeriodOf(n)
    BY <1>6, <1>7, <2>1
  <2>2. CASE PeriodOf(bar) # PeriodOf(n)
    BY <1>2, <1>6, <2>2 DEF LimitsAreWithin, Within
  <2>3. QED
    BY <2>1, <2>2
<1>9. LimitsAreWithin'
  <2>1. ASSUME NEW bar \in Entered'
        PROVE  LET start == BalanceAtWeek(bar)
                   made == BalanceAtEntry(bar) - start
               IN  /\ start > 0 => 100 * made > WeeklyLossLimit * start
                   /\ Weekly => 100 * made < WeeklyTarget * start
    <3>1. CASE bar = n
      BY <1>5, <3>1
    <3>2. CASE bar # n
      BY <1>2, <3>2 DEF LimitsAreWithin, Within
    <3>3. QED
      BY <3>1, <3>2
  <2>2. QED
    BY <1>4, <1>8, <2>1 DEF LimitsAreWithin, Within, Weekly
<1>10. Dated'
  BY <1>1, <1>2 DEF Dated, Entered
<1>11. QED
  BY <1>4, <1>7, <1>9, <1>10

ClosedInWeek(bar) == {i \in DOMAIN trades : PeriodOf(trades[i].closed) = PeriodOf(bar)}

\* The next candle is in the same week, or begins one in which nothing has
\* happened yet.
LEMMA WeekTurns ==
  ASSUME Ledger, Dated, trades' = trades, Entered' = Entered,
         Len(candles') = Len(candles) + 1
  PROVE  /\ PeriodOf(Len(candles)) = PeriodOf(Len(candles) + 1) =>
              /\ BalanceAtWeek(Len(candles))' = BalanceAtWeek(Len(candles))
              /\ ClosedInWeek(Len(candles))' = ClosedInWeek(Len(candles))
              /\ EnteredInWeek(Len(candles))' = EnteredInWeek(Len(candles))
         /\ PeriodOf(Len(candles)) # PeriodOf(Len(candles) + 1) \/ Entered = {} =>
              /\ BalanceAtWeek(Len(candles))' = StartBalance + PnlSum(trades)
              /\ ClosedInWeek(Len(candles))' = {}
              /\ EnteredInWeek(Len(candles))' = {}
<1> DEFINE n == Len(candles)
<1>1. /\ n \in Nat \ {0} /\ trades \in Seq(Trade)
      /\ \A bar \in Entered : bar \in 1..n
      /\ \A i \in DOMAIN trades : trades[i].closed \in Int /\ trades[i].closed <= n
  BY EnteredType DEF Ledger, Dated
<1>2. /\ BalanceAtWeek(Len(candles))' = StartBalance + PnlOf(trades, ClosedInEarlierWeeks(n + 1))
      /\ ClosedInWeek(Len(candles))' = ClosedInWeek(n + 1)
      /\ EnteredInWeek(Len(candles))' = EnteredInWeek(n + 1)
  BY DEF BalanceAtWeek, ClosedInEarlierWeeks, ClosedInWeek, EnteredInWeek, PeriodOf
<1>3. ASSUME PeriodOf(n) = PeriodOf(n + 1)
      PROVE  /\ ClosedInEarlierWeeks(n + 1) = ClosedInEarlierWeeks(n)
             /\ ClosedInWeek(n + 1) = ClosedInWeek(n)
             /\ EnteredInWeek(n + 1) = EnteredInWeek(n)
  BY <1>3 DEF ClosedInEarlierWeeks, ClosedInWeek, EnteredInWeek
<1>4. ASSUME PeriodOf(n) # PeriodOf(n + 1) \/ Entered = {}
      PROVE  /\ ClosedInEarlierWeeks(n + 1) = DOMAIN trades
             /\ ClosedInWeek(n + 1) = {} /\ EnteredInWeek(n + 1) = {}
  <2>1. CASE Entered = {}
    <3>1. DOMAIN trades = {}
      BY <2>1 DEF Entered
    <3>2. QED
      BY <2>1, <3>1 DEF ClosedInEarlierWeeks, ClosedInWeek, EnteredInWeek
  <2>2. CASE PeriodOf(n) # PeriodOf(n + 1)
    <3>1. PeriodOf(n) \in Int /\ PeriodOf(n + 1) \in Int /\ PeriodOf(n) < PeriodOf(n + 1)
      BY <1>1, <2>2, Weeks
    <3>2. ASSUME NEW b \in Int, b <= n
          PROVE  PeriodOf(b) < PeriodOf(n + 1)
      <4>1. PeriodOf(b) \in Int /\ PeriodOf(b) <= PeriodOf(n)
        BY <1>1, <3>2, Weeks
      <4>2. QED
        BY <3>1, <4>1
    <3>3. \A i \in DOMAIN trades : PeriodOf(trades[i].closed) < PeriodOf(n + 1)
      BY <1>1, <3>2
    <3>4. \A bar \in Entered : PeriodOf(bar) < PeriodOf(n + 1)
      BY <1>1, <3>2
    <3>5. \A x \in Int : x < PeriodOf(n + 1) => x # PeriodOf(n + 1)
      BY <3>1
    <3>6. (\A i \in DOMAIN trades : PeriodOf(trades[i].closed) \in Int)
          /\ \A bar \in Entered : PeriodOf(bar) \in Int
      <4>1. (\A i \in DOMAIN trades : trades[i].closed \in Int) /\ \A bar \in Entered : bar \in Int
        BY <1>1
      <4>2. \A x \in Int : PeriodOf(x) \in Int
        BY Weeks
      <4>3. QED
        BY <4>1, <4>2
    <3>7. QED
      BY <3>3, <3>4, <3>5, <3>6 DEF ClosedInEarlierWeeks, ClosedInWeek, EnteredInWeek
  <2>3. QED
    BY <1>4, <2>1, <2>2
<1>5. PnlOf(trades, DOMAIN trades) = PnlSum(trades)
  BY <1>1, PnlOfPart
<1>6. QED
  BY <1>2, <1>3, <1>4, <1>5 DEF BalanceAtWeek

\* While nothing is held, what was entered in the week has been closed in it.
LEMMA EntriesAreClosed ==
  ASSUME Ledger, Dated, position = None
  PROVE  /\ Cardinality(EnteredInWeek(Len(candles))) \in Nat
         /\ Cardinality(EnteredInWeek(Len(candles))) <= Cardinality(ClosedInWeek(Len(candles)))
<1> DEFINE n == Len(candles)
           week == PeriodOf(n)
           mine == {i \in DOMAIN trades : PeriodOf(trades[i].opened) = week}
           opened == [i \in mine |-> trades[i].opened]
<1>1. /\ n \in Nat /\ trades \in Seq(Trade)
      /\ \A i \in DOMAIN trades : /\ trades[i].opened \in Int /\ trades[i].closed \in Int
                                  /\ trades[i].opened <= trades[i].closed
                                  /\ trades[i].closed <= n
  BY EnteredType DEF Ledger, Dated
<1>2. mine \in SUBSET ClosedInWeek(n)
  <2>1. ASSUME NEW i \in DOMAIN trades, PeriodOf(trades[i].opened) = week
        PROVE  PeriodOf(trades[i].closed) = week
    <3>1. /\ PeriodOf(trades[i].opened) <= PeriodOf(trades[i].closed)
          /\ PeriodOf(trades[i].closed) <= week
          /\ PeriodOf(trades[i].closed) \in Int /\ week \in Int
      <4> DEFINE first == trades[i].opened
                 last == trades[i].closed
      <4>1. first \in Int /\ last \in Int /\ n \in Int /\ first <= last /\ last <= n
        BY <1>1
      <4> HIDE DEF first, last, n
      <4>2. /\ PeriodOf(first) <= PeriodOf(last) /\ PeriodOf(last) <= PeriodOf(n)
            /\ PeriodOf(last) \in Int /\ PeriodOf(n) \in Int
        BY <4>1, Weeks
      <4>3. QED
        BY <4>2 DEF first, last
    <3>2. QED
      BY <2>1, <3>1
  <2>2. QED
    BY <2>1 DEF ClosedInWeek
<1>3. /\ mine \in SUBSET DOMAIN trades /\ ClosedInWeek(n) \in SUBSET DOMAIN trades
  BY DEF ClosedInWeek
<1>4. /\ IsFiniteSet(mine) /\ Cardinality(mine) \in Nat
      /\ IsFiniteSet(ClosedInWeek(n)) /\ Cardinality(ClosedInWeek(n)) \in Nat
  BY <1>1, <1>3, PnlOfPart
<1>5. EnteredInWeek(n) = {opened[i] : i \in mine}
  BY DEF EnteredInWeek, Entered
<1>6. /\ IsFiniteSet({opened[i] : i \in mine})
      /\ Cardinality({opened[i] : i \in mine}) <= Cardinality(mine)
  <2> DEFINE bars == {opened[i] : i \in mine}
  <2> HIDE DEF mine
  <2>1. opened \in [mine -> bars] /\ \A b \in bars : \E i \in mine : opened[i] = b
    OBVIOUS
  <2> HIDE DEF opened, bars
  <2>2. opened \in Surjection(mine, bars)
    BY <2>1 DEF Surjection
  <2>3. QED
    BY <1>4, <2>2, FS_Surjection DEF bars
<1>7. Cardinality(mine) <= Cardinality(ClosedInWeek(n))
  BY <1>2, <1>4, FS_Subset
<1>8. Cardinality(EnteredInWeek(n)) \in Nat
  BY <1>5, <1>6, FS_CardinalityType
<1> HIDE DEF mine, opened
<1>9. QED
  BY <1>4, <1>5, <1>6, <1>7, <1>8

\* The record of the week is what its trades say.
GrowthWeek ==
  /\ periods = <<>> => Entered = {}
  /\ position # None => balance > 0
  /\ periods # <<>> =>
       /\ Last(periods).start = BalanceAtWeek(Len(candles))
       /\ Last(periods).trades = Cardinality(ClosedInWeek(Len(candles)))
       /\ balance > 0 => Last(periods).start > 0

GrowthLimits == Dated /\ LimitsAreWithin /\ GrowthWeek

LEMMA LimitTypes ==
  /\ WeeklyTarget \in Int /\ WeeklyLossLimit \in Int /\ MaxTradesPerWeek \in Int
BY BacktestAssumption DEF Growth!ValidConfig

LEMMA GrowthLedger ==
  ASSUME GrowthInv
  PROVE  /\ Ledger /\ balance \in Int /\ balance = StartBalance + PnlSum(trades)
         /\ periods # <<>> => Last(periods) \in WeekRecord
BY DEF Ledger, GrowthInv, GrowthBooks, WeekBooks, GrowthPosition, Last

LEMMA GrowthPasses ==
  ASSUME GrowthInv, GrowthLimits, engine' = engine, UNCHANGED <<candles, balance, periods, trades>>,
         \/ position = None /\ position' = None
         \/ position # None /\ position' # None /\ position'.opened = position.opened,
         phase' \in {"exit", "enter"} => phase \in {"exit", "enter"}
  PROVE  GrowthLimits'
<1>1. /\ Dated' /\ LimitsAreWithin' /\ Entered' = Entered
      /\ \A bar : BalanceAtWeek(bar)' = BalanceAtWeek(bar)
  BY GrowthLedger, NothingTraded DEF GrowthLimits
<1>2. BalanceAtWeek(Len(candles))' = BalanceAtWeek(Len(candles))
      /\ ClosedInWeek(Len(candles))' = ClosedInWeek(Len(candles))
  BY DEF BalanceAtWeek, ClosedInEarlierWeeks, ClosedInWeek, PeriodOf
<1>3. GrowthWeek'
  BY <1>1, <1>2 DEF GrowthLimits, GrowthWeek
<1>4. QED
  BY <1>1, <1>3 DEF GrowthLimits

LEMMA GrowthCandleLimits ==
  ASSUME GrowthInv, GrowthLimits, engine' = engine, Growth!NextCandle
  PROVE  GrowthLimits'
<1> DEFINE n == Len(candles)
<1>1. PICK move \in MovesOf(n + 1) : candles' = Append(candles, NextBar(Bar.close, move))
  BY SameBars DEF Growth!NextCandle
<1>2. Len(candles') = n + 1
  BY <1>1, NextHistoryType DEF GrowthInv, Bar, Histories
<1>3. position' = position /\ balance' = balance /\ trades' = trades
  BY DEF Growth!NextCandle
<1>4. Dated' /\ LimitsAreWithin' /\ Entered' = Entered
  BY <1>2, <1>3, GrowthLedger, NothingTraded DEF GrowthLimits
<1>5. /\ PeriodOf(n) = PeriodOf(n + 1) =>
           /\ BalanceAtWeek(Len(candles))' = BalanceAtWeek(n)
           /\ ClosedInWeek(Len(candles))' = ClosedInWeek(n)
      /\ PeriodOf(n) # PeriodOf(n + 1) \/ Entered = {} =>
           /\ BalanceAtWeek(Len(candles))' = balance
           /\ ClosedInWeek(Len(candles))' = {}
  BY <1>2, <1>3, <1>4, GrowthLedger, WeekTurns DEF GrowthLimits
<1>6. CASE periods = <<>> \/ PeriodOf(n) # PeriodOf(n + 1)
  <2>1. periods' = Append(periods, Growth!NewWeek(balance))
    BY <1>6, Weeks DEF Growth!NextCandle
  <2>2. periods \in Seq(WeekRecord) /\ Growth!NewWeek(balance) \in WeekRecord
        /\ Growth!NewWeek(balance).start = balance /\ Growth!NewWeek(balance).trades = 0
    BY GrowthLedger DEF GrowthInv, GrowthBooks, WeekBooks, Growth!NewWeek, WeekRecord
  <2>3. periods' # <<>> /\ Last(periods') = Growth!NewWeek(balance)
    BY <2>1, <2>2 DEF Last
  <2>4. BalanceAtWeek(Len(candles))' = balance /\ ClosedInWeek(Len(candles))' = {}
    BY <1>5, <1>6 DEF GrowthLimits, GrowthWeek
  <2>5. GrowthWeek'
    BY <1>3, <2>2, <2>3, <2>4, FS_EmptySet DEF GrowthLimits, GrowthWeek
  <2>6. QED
    BY <1>4, <2>5 DEF GrowthLimits
<1>7. CASE ~(periods = <<>> \/ PeriodOf(n) # PeriodOf(n + 1))
  <2>1. periods' = periods
    BY <1>7, Weeks DEF Growth!NextCandle
  <2>2. GrowthWeek'
    BY <1>3, <1>5, <1>7, <2>1 DEF GrowthLimits, GrowthWeek
  <2>3. QED
    BY <1>4, <2>2 DEF GrowthLimits
<1>8. QED
  BY <1>6, <1>7

LEMMA GrowthClosesWithin ==
  ASSUME GrowthInv, GrowthLimits, engine' = engine, candles' = candles, position # None,
         NEW raw \in Int, Growth!CloseAt(raw), phase' \notin {"exit", "enter"}
  PROVE  GrowthLimits'
<1> DEFINE n == Len(candles)
           t == Growth!TradeOf(position, raw)
           old == Last(periods)
           w == Growth!Booked(old, t.pnl)
<1>1. /\ t \in Trade /\ t.closed = n /\ t.opened = position.opened
  BY GrowthTradeType DEF GrowthInv, Growth!TradeOf
<1>2. /\ trades' = Append(trades, t) /\ position' = None
      /\ periods' = [periods EXCEPT ![Len(periods)] = Growth!Booked(@, t.pnl)]
  BY SameHelpers DEF Growth!CloseAt
<1>3. t.pnl \in Int
  BY <1>1 DEF Trade
<1> HIDE DEF t
<1>4. periods # <<>> /\ periods \in Seq(WeekRecord) /\ trades \in Seq(Trade)
  BY DEF GrowthInv, GrowthBooks, WeekBooks
<1>5. old = periods[Len(periods)] /\ old \in WeekRecord /\ Len(periods) \in Nat \ {0}
  BY <1>4 DEF Last
<1>6. w \in WeekRecord /\ w.start = old.start /\ w.trades = old.trades + 1
  BY <1>3, <1>5, BookedWeek
<1>7. periods' = [periods EXCEPT ![Len(periods)] = w]
  BY <1>2, <1>5
<1> HIDE DEF w, old
<1>8. periods' # <<>> /\ Last(periods') = w
  BY <1>4, <1>5, <1>6, <1>7 DEF Last
<1>9. /\ Dated' /\ LimitsAreWithin' /\ Entered' = Entered
      /\ BalanceAtWeek(Len(candles))' = BalanceAtWeek(n)
  BY <1>1, <1>2, GrowthLedger, TradeClosed DEF GrowthLimits
<1>10. Cardinality(ClosedInWeek(Len(candles)))' = Cardinality(ClosedInWeek(n)) + 1
  <2>1. /\ DOMAIN trades' = DOMAIN trades \cup {Len(trades) + 1}
        /\ Len(trades) + 1 \notin DOMAIN trades
        /\ trades'[Len(trades) + 1] = t /\ \A i \in DOMAIN trades : trades'[i] = trades[i]
    BY <1>2, <1>4
  <2>2. ClosedInWeek(Len(candles))' = ClosedInWeek(n) \cup {Len(trades) + 1}
        /\ Len(trades) + 1 \notin ClosedInWeek(n)
    BY <1>1, <2>1 DEF ClosedInWeek, PeriodOf
  <2>3. IsFiniteSet(ClosedInWeek(n))
    BY <1>4, PnlOfPart DEF ClosedInWeek
  <2>4. QED
    BY <2>2, <2>3, FS_AddElement
<1>11. GrowthWeek'
  BY <1>2, <1>4, <1>6, <1>8, <1>9, <1>10 DEF GrowthLimits, GrowthWeek, old
<1>12. QED
  BY <1>9, <1>11 DEF GrowthLimits

\* A position is opened on this candle and with money.
LEMMA GrowthEntryIsPaid ==
  ASSUME NEW d \in Sides, NEW h \in Histories, NEW money \in Int,
         Growth!Entry(d, h, money) # None
  PROVE  Growth!Entry(d, h, money).opened = Len(h) /\ money > 0
<1> DEFINE entry == WithEntryCost(d, Last(h).open)
           stop == Growth!StopPrice(d, entry, h)
           distance == Toward(d) * (entry - stop)
           volume == Growth!VolumeForRisk(money, distance)
<1>1. Growth!Entry(d, h, money) =
        IF distance <= 0 \/ volume <= 0 THEN None
        ELSE [direction |-> d, entry |-> entry, stop |-> stop,
              target |-> entry + Toward(d) * ((distance * RiskReward2) \div 2),
              volume |-> volume, risk |-> distance, amount |-> distance * volume,
              opened |-> Len(h)]
  BY SameHelpers, SameMoney DEF Growth!Entry
<1>2. money <= 0 => volume = 0
  BY DEF Growth!VolumeForRisk
<1> HIDE DEF entry, stop, distance, volume
<1>3. QED
  BY <1>1, <1>2

LEMMA GrowthEnterLimits ==
  ASSUME GrowthInv, GrowthLimits, engine' = engine, Growth!EnterPending
  PROVE  GrowthLimits'
<1> DEFINE n == Len(candles)
           start == Last(periods).start
<1>1. /\ position = None /\ pending # None /\ pending.direction \in Sides
      /\ phase = "enter" /\ phase' = "score"
      /\ UNCHANGED <<candles, balance, periods, trades>>
  BY SameHelpers DEF Growth!EnterPending, GrowthInv
<1>2. CASE position' = None
  BY <1>1, <1>2, GrowthPasses
<1>3. CASE position' # None
  <2>1. /\ ~Growth!WeekIsOver(Last(periods), balance)
        /\ position' = Growth!Entry(pending.direction, candles, balance)
    BY <1>3, SameHelpers DEF Growth!EnterPending, Growth!Week
  <2>2. position'.opened = n /\ balance > 0
    BY <1>1, <1>3, <2>1, GrowthEntryIsPaid DEF GrowthInv, GrowthBooks
  <2>3. periods # <<>> /\ Last(periods) \in WeekRecord
    BY <1>1, GrowthLedger DEF GrowthInv
  <2>4. /\ start \in Int /\ start > 0 /\ start = BalanceAtWeek(n)
        /\ Last(periods).trades \in Int
        /\ Last(periods).trades = Cardinality(ClosedInWeek(n))
    BY <2>2, <2>3 DEF GrowthLimits, GrowthWeek, WeekRecord
  <2>5. /\ 100 * (balance - start) < WeeklyTarget * start
        /\ 100 * (balance - start) > WeeklyLossLimit * start
        /\ Last(periods).trades < MaxTradesPerWeek
    <3> DEFINE most == WeeklyTarget * start
               least == WeeklyLossLimit * start
    <3>1. most \in Int /\ least \in Int /\ balance \in Int
      BY <2>4, LimitTypes, Products, GrowthLedger
    <3>2. /\ ~(start > 0 /\ 100 * (balance - start) >= most)
          /\ ~(start > 0 /\ 100 * (balance - start) <= least)
          /\ ~(Last(periods).trades >= MaxTradesPerWeek)
      BY <2>1 DEF Growth!WeekIsOver
    <3> HIDE DEF most, least, start
    <3>3. 100 * (balance - start) < most /\ 100 * (balance - start) > least
      BY <2>4, <3>1, <3>2
    <3>4. Last(periods).trades < MaxTradesPerWeek
      BY <2>4, <3>2, LimitTypes
    <3>5. QED
      BY <3>3, <3>4 DEF most, least
  <2>6. /\ Cardinality(EnteredInWeek(n)) \in Nat
        /\ Cardinality(EnteredInWeek(n)) <= Cardinality(ClosedInWeek(n))
    BY <1>1, GrowthLedger, EntriesAreClosed DEF GrowthLimits
  <2>7. Cardinality(EnteredInWeek(n)) < MaxTradesPerWeek
    BY <2>4, <2>5, <2>6, LimitTypes
  <2> HIDE DEF start
  <2>8. Dated' /\ LimitsAreWithin' /\ BalanceAtWeek(Len(candles))' = BalanceAtWeek(n)
    BY <1>1, <1>3, <2>2, <2>4, <2>5, <2>7, LimitTypes, GrowthLedger, TradeEntered
       DEF GrowthLimits
  <2>9. ClosedInWeek(Len(candles))' = ClosedInWeek(n)
    BY <1>1 DEF ClosedInWeek, PeriodOf
  <2>10. GrowthWeek'
    BY <1>1, <2>2, <2>3, <2>8, <2>9 DEF GrowthLimits, GrowthWeek
  <2>11. QED
    BY <2>8, <2>10 DEF GrowthLimits
<1>4. QED
  BY <1>2, <1>3

\* A protection moves the stop and nothing else.
LEMMA ProtectionKeepsEntry ==
  ASSUME NEW p \in GrowthPosition, NEW close \in Int
  PROVE  Growth!ApplyProfitProtection(p, close).opened = p.opened
<1> DEFINE q == Growth!ApplyProfitProtection(p, close)
<1>1. q = p \/ \E x : q = [p EXCEPT !.stop = x]
  BY DEF Growth!ApplyProfitProtection
<1> HIDE DEF q
<1>2. q.opened = p.opened
  BY <1>1 DEF GrowthPosition
<1>3. QED
  BY <1>2 DEF q

LEMMA GrowthStaysWithin ==
  ASSUME GrowthInv, GrowthLimits, engine' = engine, Growth!Next \/ Growth!V3Next
  PROVE  GrowthLimits'
<1>1. CASE Growth!NextCandle
  BY <1>1, GrowthCandleLimits
<1>2. CASE Growth!ExitPosition
  <2>1. PICK raw \in Growth!ExitPrices(position, Bar) : Growth!CloseAt(raw)
    BY <1>2, SameBars DEF Growth!ExitPosition
  <2>2. position # None /\ candles' = candles /\ phase' = "next"
    BY <1>2, SameHelpers DEF Growth!ExitPosition
  <2>3. raw \in Int
    BY <2>1, <2>2 DEF Growth!ExitPrices, GrowthInv, GrowthPosition
  <2>4. QED
    BY <2>1, <2>2, <2>3, GrowthClosesWithin
<1>3. CASE Growth!FinishRun
  <2>1. candles' = candles /\ phase' = "done"
    BY <1>3 DEF Growth!FinishRun
  <2>2. CASE position = None
    <3>1. UNCHANGED <<balance, position, periods, trades>>
      BY <1>3, <2>2, SameHelpers DEF Growth!FinishRun, Growth!account
    <3>2. QED
      BY <2>1, <2>2, <3>1, GrowthPasses
  <2>3. CASE position # None
    <3>1. Growth!CloseAt(Bar.close)
      BY <1>3, <2>3, SameHelpers, SameBars DEF Growth!FinishRun
    <3>2. Bar.close \in Int
      BY DEF GrowthInv, Histories, Bar, Last, Candle
    <3>3. QED
      BY <2>1, <2>3, <3>1, <3>2, GrowthClosesWithin
  <2>4. QED
    BY <2>2, <2>3
<1>4. CASE Growth!EnterPending
  BY <1>4, GrowthEnterLimits
<1>5. CASE Growth!KeepPosition \/ Growth!NothingToEnter \/ Growth!ScoreCandle
  <2>1. /\ UNCHANGED <<candles, balance, position, periods, trades>>
        /\ phase' \in {"exit", "enter"} => phase \in {"exit", "enter"}
    BY <1>5 DEF Growth!KeepPosition, Growth!NothingToEnter, Growth!ScoreCandle, Growth!account
  <2>2. QED
    BY <2>1, GrowthPasses
<1>6. CASE Growth!V3Protect
  <2>1. /\ UNCHANGED <<candles, balance, periods, trades>> /\ phase = "exit"
        /\ position' = IF position = None THEN None
                       ELSE Growth!ApplyProfitProtection(position, Bar.close)
    BY <1>6, SameHelpers, SameBars DEF Growth!V3Protect
  <2>2. Bar.close \in Int
    BY DEF GrowthInv, Histories, Bar, Last, Candle
  <2>3. position # None =>
          /\ Growth!ApplyProfitProtection(position, Bar.close) # None
          /\ Growth!ApplyProfitProtection(position, Bar.close).opened = position.opened
    BY <2>2, ProtectionTightens, ProtectionKeepsEntry, PositionIsNotNone DEF GrowthInv
  <2>4. QED
    BY <2>1, <2>3, GrowthPasses
<1>7. QED
  BY <1>1, <1>2, <1>3, <1>4, <1>5, <1>6
     DEF Growth!Next, Growth!V3Next, Growth!V3Candle, Growth!V3Exit, Growth!V3Enter,
         Growth!V3Score, Growth!V3Finish

\* V5 counts its entries, and begins its weeks past its first bar.
V5Week ==
  /\ periods \in Seq([start : Int, trades : Int])
  /\ phase \in {"exit", "enter"} => periods # <<>>
  /\ periods = <<>> => Entered = {}
  /\ periods # <<>> =>
       /\ Len(candles) > FirstBar
       /\ Last(periods).start = BalanceAtWeek(Len(candles))
       /\ Last(periods).trades = Cardinality(EnteredInWeek(Len(candles)))

V5Limits == Dated /\ LimitsAreWithin /\ V5Week

LEMMA V5Ledger == ASSUME V5Inv PROVE Ledger
BY DEF Ledger, V5Inv, V5Position

LEMMA V5Passes ==
  ASSUME V5Inv, V5Limits, engine' = engine, UNCHANGED <<candles, periods, trades>>,
         \/ position = None /\ position' = None
         \/ position # None /\ position' # None /\ position'.opened = position.opened,
         phase' \in {"exit", "enter"} => phase \in {"exit", "enter"}
  PROVE  V5Limits'
<1>1. /\ Dated' /\ LimitsAreWithin' /\ Entered' = Entered
      /\ BalanceAtWeek(Len(candles))' = BalanceAtWeek(Len(candles))
      /\ EnteredInWeek(Len(candles))' = EnteredInWeek(Len(candles))
  <2>1. /\ Dated' /\ LimitsAreWithin' /\ Entered' = Entered
    BY V5Ledger, NothingTraded DEF V5Limits
  <2>2. QED
    BY <2>1 DEF BalanceAtWeek, ClosedInEarlierWeeks, EnteredInWeek, PeriodOf
<1>2. V5Week'
  BY <1>1 DEF V5Limits, V5Week
<1>3. QED
  BY <1>1, <1>2 DEF V5Limits

LEMMA V5CandleLimits ==
  ASSUME V5Inv, V5Limits, engine' = engine, V5!V5Candle
  PROVE  V5Limits'
<1> DEFINE n == Len(candles)
           week == [start |-> balance, trades |-> 0]
<1>1. PICK move \in MovesOf(n + 1) : candles' = Append(candles, NextBar(Bar.close, move))
  BY SameBars DEF V5!V5Candle
<1>2. Len(candles') = n + 1 /\ n \in Nat /\ FirstBar \in Nat
  BY <1>1, NextHistoryType, BacktestAssumption DEF V5Inv, Bar, Histories, V5!ValidRun
<1>3. /\ position' = position /\ balance' = balance /\ trades' = trades
      /\ phase' = IF n < FirstBar THEN "next" ELSE "exit"
  BY DEF V5!V5Candle
<1>4. Dated' /\ LimitsAreWithin' /\ Entered' = Entered
  BY <1>2, <1>3, V5Ledger, NothingTraded DEF V5Limits
<1>5. /\ PeriodOf(n) = PeriodOf(n + 1) =>
           /\ BalanceAtWeek(Len(candles))' = BalanceAtWeek(n)
           /\ EnteredInWeek(Len(candles))' = EnteredInWeek(n)
      /\ PeriodOf(n) # PeriodOf(n + 1) \/ Entered = {} =>
           /\ BalanceAtWeek(Len(candles))' = balance
           /\ EnteredInWeek(Len(candles))' = {}
  <2>1. balance = StartBalance + PnlSum(trades)
    BY DEF V5Inv
  <2>2. QED
    BY <1>2, <1>3, <1>4, <2>1, V5Ledger, WeekTurns DEF V5Limits
<1>6. CASE n >= FirstBar /\ (periods = <<>> \/ PeriodOf(n) # PeriodOf(n + 1))
  <2>1. periods' = Append(periods, week)
    BY <1>6, Weeks DEF V5!V5Candle
  <2>2. /\ periods \in Seq([start : Int, trades : Int]) /\ week \in [start : Int, trades : Int]
        /\ week.start = balance /\ week.trades = 0
    BY DEF V5Limits, V5Week, V5Inv
  <2> HIDE DEF week
  <2>3. /\ periods' # <<>> /\ Last(periods') = week
        /\ periods' \in Seq([start : Int, trades : Int])
    BY <2>1, <2>2 DEF Last
  <2>4. BalanceAtWeek(Len(candles))' = balance /\ EnteredInWeek(Len(candles))' = {}
    BY <1>5, <1>6 DEF V5Limits, V5Week
  <2>5. Len(candles') > FirstBar
    BY <1>2, <1>6
  <2>6. Last(periods').start = BalanceAtWeek(Len(candles))'
        /\ Last(periods').trades = Cardinality(EnteredInWeek(Len(candles))')
    BY <2>2, <2>3, <2>4, FS_EmptySet
  <2>7. V5Week'
    BY <2>3, <2>5, <2>6 DEF V5Week
  <2>8. QED
    BY <1>4, <2>7 DEF V5Limits
<1>7. CASE ~(n >= FirstBar /\ (periods = <<>> \/ PeriodOf(n) # PeriodOf(n + 1)))
  <2>1. periods' = periods
    BY <1>7, Weeks DEF V5!V5Candle
  <2>2. periods # <<>> => PeriodOf(n) = PeriodOf(n + 1)
    BY <1>2, <1>7 DEF V5Limits, V5Week
  <2>3. phase' \in {"exit", "enter"} => periods # <<>>
    BY <1>2, <1>3, <1>7
  <2>4. V5Week'
    BY <1>2, <1>4, <1>5, <2>1, <2>2, <2>3 DEF V5Limits, V5Week
  <2>5. QED
    BY <1>4, <2>4 DEF V5Limits
<1>8. QED
  BY <1>6, <1>7

LEMMA V5ClosesWithin ==
  ASSUME V5Inv, V5Limits, engine' = engine, candles' = candles, periods' = periods,
         position # None, position' = None, NEW raw \in Int,
         trades' = Append(trades, V5!TradeOf(position, raw)),
         phase' # "exit", phase' = "enter" => phase = "exit"
  PROVE  V5Limits'
<1> DEFINE t == V5!TradeOf(position, raw)
<1>1. t \in Trade
  BY V5TradeType DEF V5Inv
<1>2. t.opened = position.opened /\ t.closed = Len(candles)
  BY DEF V5!TradeOf
<1> HIDE DEF t
<1>3. trades' = Append(trades, t)
  BY DEF t
<1>4. /\ Dated' /\ LimitsAreWithin' /\ Entered' = Entered
      /\ BalanceAtWeek(Len(candles))' = BalanceAtWeek(Len(candles))
      /\ EnteredInWeek(Len(candles))' = EnteredInWeek(Len(candles))
  BY <1>1, <1>2, <1>3, V5Ledger, TradeClosed DEF V5Limits
<1>5. V5Week'
  BY <1>4 DEF V5Limits, V5Week
<1>6. QED
  BY <1>4, <1>5 DEF V5Limits

LEMMA V5UpdateKeepsEntry ==
  ASSUME NEW p \in V5Position, NEW c \in Candle
  PROVE  V5!UpdatePosition(p, c) # None /\ V5!UpdatePosition(p, c).opened = p.opened
<1> DEFINE q == V5!ToBreakEven(p, c)
           r == V5!Extended(q, c)
           s == V5!Trailed(r, c)
<1>1. V5!UpdatePosition(p, c) = s
  BY DEF V5!UpdatePosition
<1>2. q \in V5Position /\ q.opened = p.opened
  <2>1. V5Kept(p, q)
    BY V5BreaksEven
  <2> DEFINE stop == V5!Tighter(p, p.entry + V5!Tenths(p, BreakEvenLock10))
  <2>2. q = p \/ q = [p EXCEPT !.stop = stop, !.even = TRUE]
    BY DEF V5!ToBreakEven
  <2> HIDE DEF q, stop
  <2>3. q.opened = p.opened
    BY <2>2 DEF V5Position
  <2>4. QED
    BY <2>1, <2>3 DEF V5Kept
<1> HIDE DEF q
<1>3. r \in V5Position /\ r.opened = q.opened
  <2>1. V5Kept(q, r)
    BY <1>2, V5Extends
  <2> DEFINE target == q.entry + V5!Tenths(q, V5!Max({5 * RiskReward2, 30}))
  <2>2. r = q \/ r = [q EXCEPT !.target = target, !.extended = TRUE]
    BY DEF V5!Extended
  <2> HIDE DEF r, target
  <2>3. r.opened = q.opened
    BY <1>2, <2>2 DEF V5Position
  <2>4. QED
    BY <2>1, <2>3 DEF V5Kept
<1> HIDE DEF r
<1>4. s \in V5Position /\ s.opened = r.opened
  <2>1. V5Kept(r, s)
    BY <1>3, V5Trails
  <2>2. s = r \/ \E x : s = [r EXCEPT !.stop = x]
    BY DEF V5!Trailed
  <2> HIDE DEF s
  <2>3. s.opened = r.opened
    BY <1>3, <2>2 DEF V5Position
  <2>4. QED
    BY <2>1, <2>3 DEF V5Kept
<1> HIDE DEF s
<1>5. s # None
  BY <1>4 DEF V5Position, None, Sides
<1>6. QED
  BY <1>1, <1>2, <1>3, <1>4, <1>5

LEMMA V5EntryIsHere ==
  ASSUME NEW d, NEW h, NEW money, V5!Entry(d, h, money) # None
  PROVE  V5!Entry(d, h, money).opened = Len(h)
BY SameHelpers DEF V5!Entry

LEMMA V5EnterLimits ==
  ASSUME engine = "v5", V5Inv, V5Limits, engine' = engine, V5!V5Enter
  PROVE  V5Limits'
<1> DEFINE n == Len(candles)
           direction == V5!GenerateSignal(candles, variant)
           opened == IF V5!MayEnter /\ direction # "WAIT"
                     THEN V5!Entry(direction, candles, balance) ELSE None
           week == Last(periods)
<1>1. /\ UNCHANGED <<candles, balance, trades>> /\ phase = "enter" /\ phase' = "next"
      /\ IF opened = None THEN UNCHANGED <<position, periods>>
         ELSE /\ position' = opened
              /\ periods' = [periods EXCEPT ![Len(periods)].trades = @ + 1]
  BY SameHelpers DEF V5!V5Enter
<1> HIDE DEF direction
<1>2. opened # None => V5!MayEnter /\ opened.opened = n
  BY V5EntryIsHere
<1> HIDE DEF opened
<1>3. CASE opened = None
  BY <1>1, <1>3, V5Passes
<1>4. CASE opened # None
  <2>1. /\ position = None /\ week.trades < MaxTradesPerWeek
        /\ week.start > 0 => 100 * (balance - week.start) > WeeklyLossLimit * week.start
    BY <1>2, <1>4, SameHelpers DEF V5!MayEnter, V5!Week
  <2>2. /\ periods \in Seq([start : Int, trades : Int]) /\ periods # <<>>
        /\ week.start = BalanceAtWeek(n) /\ week.trades = Cardinality(EnteredInWeek(n))
    BY <1>1 DEF V5Limits, V5Week
  <2>3. /\ position' # None /\ position'.opened = n
        /\ periods' = [periods EXCEPT ![Len(periods)].trades = @ + 1]
    BY <1>1, <1>2, <1>4
  <2>4. ~Weekly
    BY DEF Weekly
  <2>5. balance = StartBalance + PnlSum(trades)
    BY DEF V5Inv
  <2> HIDE DEF week
  <2>6. /\ Dated' /\ LimitsAreWithin' /\ BalanceAtWeek(Len(candles))' = BalanceAtWeek(n)
        /\ Cardinality(EnteredInWeek(Len(candles)))' = Cardinality(EnteredInWeek(n)) + 1
    BY <1>1, <2>1, <2>2, <2>3, <2>4, <2>5, LimitTypes, V5Ledger, TradeEntered DEF V5Limits
  <2>7. /\ periods' \in Seq([start : Int, trades : Int]) /\ periods' # <<>>
        /\ Last(periods').start = week.start /\ Last(periods').trades = week.trades + 1
    <3>1. week = periods[Len(periods)] /\ Len(periods) \in Nat \ {0}
          /\ week \in [start : Int, trades : Int]
      <4> DEFINE Counted == [start : Int, trades : Int]
      <4>1. periods \in Seq(Counted) /\ periods # <<>>
        BY <2>2
      <4> HIDE DEF Counted
      <4>2. Len(periods) \in Nat \ {0} /\ periods[Len(periods)] \in Counted
        BY <4>1
      <4>3. QED
        BY <4>2 DEF week, Last, Counted
    <3> DEFINE new == [week EXCEPT !.trades = @ + 1]
    <3>2. new \in [start : Int, trades : Int] /\ new.start = week.start
          /\ new.trades = week.trades + 1
      BY <3>1
    <3>3. periods' = [periods EXCEPT ![Len(periods)] = new]
      BY <2>3, <3>1
    <3> HIDE DEF new
    <3>4. periods' \in Seq([start : Int, trades : Int]) /\ Len(periods') = Len(periods)
          /\ periods'[Len(periods)] = new
      BY <2>2, <3>1, <3>2, <3>3
    <3>5. QED
      BY <3>1, <3>2, <3>4 DEF Last
  <2>8. V5Week'
    BY <1>1, <2>2, <2>6, <2>7 DEF V5Limits, V5Week
  <2>9. QED
    BY <2>6, <2>8 DEF V5Limits
<1>5. QED
  BY <1>3, <1>4

LEMMA V5StaysWithin ==
  ASSUME engine = "v5", V5Inv, V5Limits, engine' = engine, V5!V5Next
  PROVE  V5Limits'
<1>1. Bar \in Candle
  BY DEF V5Inv, Histories, Bar, Last
<1>2. CASE V5!V5Candle
  BY <1>2, V5CandleLimits
<1>3. CASE V5!V5Exit
  <2>1. PICK raw \in V5!ExitPrices(position, Bar) :
          trades' = Append(trades, V5!TradeOf(position, raw))
    BY <1>3, SameBars DEF V5!V5Exit
  <2>2. /\ position # None /\ position' = None /\ UNCHANGED <<candles, periods>>
        /\ phase = "exit" /\ phase' = "enter"
    BY <1>3, SameHelpers DEF V5!V5Exit
  <2>3. raw \in Int
    BY <2>1, <2>2 DEF V5!ExitPrices, V5Inv, V5Position
  <2>4. QED
    BY <2>1, <2>2, <2>3, V5ClosesWithin
<1>4. CASE V5!V5Update
  <2>1. /\ UNCHANGED <<candles, periods, trades>> /\ phase = "exit"
        /\ position' = IF position = None THEN None ELSE V5!UpdatePosition(position, Bar)
    BY <1>4, SameHelpers, SameBars DEF V5!V5Update
  <2>2. position # None => position' # None /\ position'.opened = position.opened
    BY <1>1, <2>1, V5UpdateKeepsEntry DEF V5Inv
  <2>3. QED
    BY <2>1, <2>2, V5Passes
<1>5. CASE V5!V5Enter
  BY <1>5, V5EnterLimits
<1>6. CASE V5!V5Finish
  <2>1. UNCHANGED <<candles, periods>> /\ phase' = "done" /\ position' = None
    BY <1>6, SameHelpers DEF V5!V5Finish
  <2>2. CASE position = None
    <3>1. trades' = trades
      BY <1>6, <2>2, SameHelpers DEF V5!V5Finish
    <3>2. QED
      BY <2>1, <2>2, <3>1, V5Passes
  <2>3. CASE position # None
    <3>1. trades' = Append(trades, V5!TradeOf(position, Bar.close))
      BY <1>6, <2>3, SameHelpers, SameBars DEF V5!V5Finish
    <3>2. Bar.close \in Int
      BY <1>1 DEF Candle
    <3>3. QED
      BY <2>1, <2>3, <3>1, <3>2, V5ClosesWithin
  <2>4. QED
    BY <2>2, <2>3
<1>7. QED
  BY <1>2, <1>3, <1>4, <1>5, <1>6 DEF V5!V5Next

LimitsInv ==
  /\ Weekly => GrowthLimits
  /\ engine = "v5" => V5Limits

LEMMA LimitsStart == Init => LimitsInv
<1> SUFFICES ASSUME Init PROVE LimitsInv
  OBVIOUS
<1>1. /\ phase = "next" /\ periods = <<>> /\ candles = <<FirstCandle>> /\ position = None
      /\ trades = <<>>
  BY DEF Init, SimulationInit
<1>2. Entered = {}
  BY <1>1 DEF Entered
<1>3. Dated /\ LimitsAreWithin
  BY <1>1, <1>2 DEF Dated, LimitsAreWithin
<1>4. GrowthWeek /\ V5Week
  BY <1>1, <1>2 DEF GrowthWeek, V5Week
<1>5. QED
  BY <1>3, <1>4 DEF LimitsInv, GrowthLimits, V5Limits

LEMMA LimitsStay == BacktestInv /\ LimitsInv /\ [Next]_vars => LimitsInv'
<1> SUFFICES ASSUME BacktestInv, LimitsInv, [Next]_vars PROVE LimitsInv'
  OBVIOUS
<1>1. engine' = engine
  BY DEF Next, vars
<1>2. CASE UNCHANGED vars
  <2>1. UNCHANGED <<candles, phase, balance, position, periods, trades>>
    BY <1>2 DEF vars, account
  <2>2. Weekly => GrowthLimits'
    BY <1>1, <2>1, GrowthPasses DEF LimitsInv, BacktestInv, Weekly, WeeklyEngines
  <2>3. engine = "v5" => V5Limits'
    BY <1>1, <2>1, V5Passes DEF LimitsInv, BacktestInv
  <2>4. QED
    BY <1>1, <2>2, <2>3 DEF LimitsInv, Weekly
<1>3. CASE Next
  <2>1. Weekly => GrowthLimits'
    BY <1>1, <1>3, GrowthStaysWithin DEF LimitsInv, BacktestInv, Weekly, WeeklyEngines, Next, Step
  <2>2. engine = "v5" => V5Limits'
    BY <1>1, <1>3, V5StaysWithin DEF LimitsInv, BacktestInv, Next, Step
  <2>3. QED
    BY <1>1, <2>1, <2>2 DEF LimitsInv, Weekly
<1>4. QED
  BY <1>2, <1>3

LEMMA EveryRunIsWithin == Spec => []LimitsInv
<1>1. QED
  BY LimitsStart, LimitsStay, EveryRunIsSound, PTL DEF Spec

-----------------------------------------------------------------------------
(* The exponential average                                                 *)

Series(n) == [1..n -> Int]

LEMMA QuotientIsOdd ==
  ASSUME NEW a \in Int, NEW b \in Nat \ {0}
  PROVE  Quotient(a, b) \in Int /\ Quotient(-a, b) = -Quotient(a, b)
<1>1. a \div b \in Int /\ (-a) \div b \in Int /\ 0 \div b = 0
  OBVIOUS
<1>2. CASE a < 0
  BY <1>1, <1>2 DEF Quotient
<1>3. CASE a > 0
  BY <1>1, <1>3 DEF Quotient
<1>4. CASE a = 0
  BY <1>1, <1>4 DEF Quotient
<1>5. QED
  BY <1>2, <1>3, <1>4

LEMMA EwmUnfolds ==
  ASSUME NEW n \in Nat, NEW s \in Series(n), NEW span \in Nat \ {0}
  PROVE  /\ Ewm(s, span) \in Series(n)
         /\ \A i \in 1..n :
              Ewm(s, span)[i] =
                IF i = 1 THEN s[1]
                ELSE Ewm(s, span)[i - 1] + Quotient(2 * (s[i] - Ewm(s, span)[i - 1]), span + 1)
<1> DEFINE after(x, i) == x + Quotient(2 * (s[i] - x), span + 1)
           step == [i \in 1..n |-> [x \in Int |-> after(x, i)]]
           IsEwm(g) == g = [i \in 1..n |-> IF i = 1 THEN s[1] ELSE after(g[i - 1], i)]
<1>1. DOMAIN s = 1..n /\ \A i \in 1..n : s[i] \in Int
  BY DEF Series
<1>2. Ewm(s, span) = CHOOSE g : IsEwm(g)
  BY <1>1 DEF Ewm
<1>3. ASSUME NEW x \in Int, NEW i \in 1..n
      PROVE  after(x, i) \in Int
  <2>1. 2 * (s[i] - x) \in Int /\ span + 1 \in Nat \ {0}
    BY <1>1
  <2>2. Quotient(2 * (s[i] - x), span + 1) \in Int
    BY <2>1, QuotientIsOdd
  <2>3. QED
    BY <2>2
<1>4. \A i \in 1..n, x \in Int : step[i][x] = after(x, i)
  OBVIOUS
<1> HIDE DEF after, step
<1>5. PICK g : IsRecursion(g, s[1], step, n)
  BY RecursionExists
<1>6. \A i \in 1..n : g[i] = IF i = 1 THEN s[1] ELSE step[i][g[i - 1]]
  BY <1>5 DEF IsRecursion
<1>7. \A i \in 1..n : g[i] \in Int
  <2> DEFINE P == {i \in 1..n : g[i] \in Int}
  <2>1. ASSUME NEW i \in 1..n, i = 1 \/ i - 1 \in P
        PROVE  i \in P
    <3>1. CASE i = 1
      BY <1>1, <1>6, <3>1
    <3>2. CASE i # 1
      <4>1. g[i - 1] \in Int
        BY <2>1, <3>2
      <4>2. g[i] = after(g[i - 1], i)
        BY <1>4, <1>6, <3>2, <4>1
      <4>3. after(g[i - 1], i) \in Int
        BY <1>3, <4>1
      <4>4. QED
        BY <4>2, <4>3
    <3>3. QED
      BY <3>1, <3>2
  <2> HIDE DEF P
  <2>2. \A i \in 1..n : i \in P
    BY <2>1, StepByStep
  <2>3. QED
    BY <2>2 DEF P
<1>8. IsEwm(g)
  <2>1. ASSUME NEW i \in 1..n
        PROVE  g[i] = IF i = 1 THEN s[1] ELSE after(g[i - 1], i)
    <3>1. i # 1 => i - 1 \in 1..n
      OBVIOUS
    <3>2. QED
      BY <1>4, <1>6, <1>7, <3>1
  <2>2. g = [i \in 1..n |-> g[i]]
    BY <1>5 DEF IsRecursion
  <2>3. QED
    BY <2>1, <2>2
<1> DEFINE f == Ewm(s, span)
<1>9. IsEwm(f)
  BY <1>2, <1>8
<1> HIDE DEF f
<1>10. \A i \in 1..n : f[i] = IF i = 1 THEN s[1] ELSE after(f[i - 1], i)
  BY <1>9
<1>11. \A i \in 1..n : f[i] \in Int
  <2> DEFINE P == {i \in 1..n : f[i] \in Int}
  <2>1. ASSUME NEW i \in 1..n, i = 1 \/ i - 1 \in P
        PROVE  i \in P
    BY <1>1, <1>3, <1>10, <2>1
  <2> HIDE DEF P
  <2>2. \A i \in 1..n : i \in P
    BY <2>1, StepByStep
  <2>3. QED
    BY <2>2 DEF P
<1>12. f \in Series(n)
  BY <1>9, <1>11 DEF Series
<1>13. QED
  BY <1>10, <1>12 DEF f, after

\* The average of a series turned round is the average turned round.
LEMMA EwmTurns ==
  ASSUME NEW n \in Nat, NEW s \in Series(n), NEW t \in Series(n), NEW span \in Nat \ {0},
         NEW c \in Int, \A i \in 1..n : t[i] = c - s[i]
  PROVE  \A i \in 1..n : Ewm(t, span)[i] = c - Ewm(s, span)[i]
<1> DEFINE f == Ewm(s, span)
           g == Ewm(t, span)
           P == {i \in 1..n : g[i] = c - f[i]}
<1>1. f \in Series(n) /\ \A i \in 1..n :
        f[i] = IF i = 1 THEN s[1] ELSE f[i - 1] + Quotient(2 * (s[i] - f[i - 1]), span + 1)
  BY EwmUnfolds
<1>2. g \in Series(n) /\ \A i \in 1..n :
        g[i] = IF i = 1 THEN t[1] ELSE g[i - 1] + Quotient(2 * (t[i] - g[i - 1]), span + 1)
  BY EwmUnfolds
<1> HIDE DEF f, g
<1>3. ASSUME NEW i \in 1..n, i = 1 \/ i - 1 \in P
      PROVE  i \in P
  <2>1. CASE i = 1
    BY <1>1, <1>2, <2>1
  <2>2. CASE i # 1
    <3> DEFINE a == 2 * (s[i] - f[i - 1])
    <3>1. i - 1 \in 1..n /\ g[i - 1] = c - f[i - 1]
      BY <1>3, <2>2
    <3>2. s[i] \in Int /\ f[i - 1] \in Int /\ t[i] = c - s[i]
      BY <1>1, <3>1 DEF Series
    <3>3. 2 * (t[i] - g[i - 1]) = -a /\ a \in Int
      BY <3>1, <3>2
    <3>4. f[i] = f[i - 1] + Quotient(a, span + 1)
      BY <1>1, <2>2
    <3>5. g[i] = c - f[i - 1] + Quotient(-a, span + 1)
      BY <1>2, <2>2, <3>1, <3>3
    <3> HIDE DEF a
    <3>6. Quotient(a, span + 1) \in Int /\ Quotient(-a, span + 1) = -Quotient(a, span + 1)
      <4>1. span + 1 \in Nat \ {0}
        OBVIOUS
      <4>2. QED
        BY <3>3, <4>1, QuotientIsOdd
    <3>7. QED
      BY <3>2, <3>4, <3>5, <3>6
  <2>3. QED
    BY <2>1, <2>2
<1> HIDE DEF P
<1>4. \A i \in 1..n : i \in P
  BY <1>3, StepByStep
<1>5. QED
  BY <1>4 DEF P, f, g

-----------------------------------------------------------------------------
(* A market upside down                                                    *)

Around == 2 * StartPrice

\* g is h turned round: what h has above StartPrice, g has below it.
Opposed(h, g) ==
  /\ h \in Histories /\ g \in Histories /\ Len(g) = Len(h)
  /\ \A i \in 1..Len(h) :
       /\ g[i].open = Around - h[i].open /\ g[i].close = Around - h[i].close
       /\ g[i].high = Around - h[i].low /\ g[i].low = Around - h[i].high

LEMMA CandlesOf ==
  ASSUME NEW h \in Histories
  PROVE  /\ Len(h) \in Nat \ {0} /\ DOMAIN h = 1..Len(h) /\ Last(h) = h[Len(h)]
         /\ \A i \in 1..Len(h) :
              /\ h[i] \in Candle
              /\ h[i].open \in Int /\ h[i].close \in Int /\ h[i].high \in Int /\ h[i].low \in Int
<1>1. h \in Seq(Candle) /\ Len(h) \in Nat \ {0} /\ DOMAIN h = 1..Len(h)
  BY DEF Histories
<1>2. \A i \in 1..Len(h) : h[i] \in Candle
  BY <1>1
<1>3. QED
  BY <1>1, <1>2 DEF Candle, Last

LEMMA AroundType == Around \in Int /\ Around = 2 * StartPrice
BY SimulationAssumption DEF Around

LEMMA OpposedTurns == ASSUME NEW h, NEW g, Opposed(h, g) PROVE Opposed(g, h)
<1>1. h \in Histories /\ g \in Histories /\ Len(g) = Len(h)
  BY DEF Opposed
<1>2. ASSUME NEW i \in 1..Len(h)
      PROVE  /\ h[i].open = Around - g[i].open /\ h[i].close = Around - g[i].close
             /\ h[i].high = Around - g[i].low /\ h[i].low = Around - g[i].high
  <2>1. /\ g[i].open = Around - h[i].open /\ g[i].close = Around - h[i].close
        /\ g[i].high = Around - h[i].low /\ g[i].low = Around - h[i].high
    BY DEF Opposed
  <2>2. h[i].open \in Int /\ h[i].close \in Int /\ h[i].high \in Int /\ h[i].low \in Int
    BY <1>1, CandlesOf
  <2>3. QED
    BY <2>1, <2>2, AroundType
<1>3. QED
  BY <1>1, <1>2 DEF Opposed

LEMMA MirrorIsOpposed == ASSUME NEW h \in Histories PROVE Opposed(h, Mirrored(h, StartPrice))
<1> DEFINE g == Mirrored(h, StartPrice)
<1>1. DOMAIN g = 1..Len(h) /\ Len(h) \in Nat \ {0}
  BY CandlesOf DEF Mirrored
<1>2. ASSUME NEW i \in 1..Len(h)
      PROVE  /\ g[i] \in Candle
             /\ g[i].open = Around - h[i].open /\ g[i].close = Around - h[i].close
             /\ g[i].high = Around - h[i].low /\ g[i].low = Around - h[i].high
  <2>1. g[i] = [open |-> Around - h[i].open, close |-> Around - h[i].close,
                high |-> Around - h[i].low, low |-> Around - h[i].high]
    BY CandlesOf, AroundType DEF Mirrored
  <2>2. h[i] \in Candle
    BY CandlesOf
  <2>3. QED
    BY <2>1, <2>2, AroundType DEF Candle
<1>3. g \in Seq(Candle) /\ Len(g) = Len(h)
  <2>1. g = [i \in 1..Len(h) |-> g[i]]
    BY <1>1 DEF Mirrored
  <2> HIDE DEF g
  <2>2. QED
    BY <1>1, <1>2, <2>1
<1>4. QED
  BY <1>1, <1>2, <1>3 DEF Opposed, Histories

\* The candles up to one of them, and those before the last.
LEMMA OpposedPart ==
  ASSUME NEW h, NEW g, Opposed(h, g), NEW n \in 1..Len(h)
  PROVE  Opposed(SubSeq(h, 1, n), SubSeq(g, 1, n))
<1>1. h \in Seq(Candle) /\ g \in Seq(Candle) /\ Len(h) \in Nat /\ Len(g) = Len(h)
  BY DEF Opposed, Histories
<1>2. /\ SubSeq(h, 1, n) \in Histories /\ Len(SubSeq(h, 1, n)) = n
      /\ SubSeq(g, 1, n) \in Histories /\ Len(SubSeq(g, 1, n)) = n
  BY <1>1 DEF Histories
<1>3. \A i \in 1..n : SubSeq(h, 1, n)[i] = h[i] /\ SubSeq(g, 1, n)[i] = g[i]
  BY <1>1
<1>4. 1..n \subseteq 1..Len(h)
  BY <1>1
<1>5. QED
  BY <1>2, <1>3, <1>4 DEF Opposed

-----------------------------------------------------------------------------
(* Averages of closes                                                      *)

LEMMA ClosesTurn ==
  ASSUME NEW h, NEW g, Opposed(h, g)
  PROVE  /\ Closes(h) \in Series(Len(h)) /\ Closes(g) \in Series(Len(h))
         /\ \A i \in 1..Len(h) : Closes(g)[i] = Around - Closes(h)[i]
<1>1. h \in Histories /\ g \in Histories /\ Len(g) = Len(h)
  BY DEF Opposed
<1>2. Closes(h) = [i \in 1..Len(h) |-> h[i].close] /\ Closes(g) = [i \in 1..Len(h) |-> g[i].close]
  BY <1>1, CandlesOf DEF Closes
<1>3. \A i \in 1..Len(h) : h[i].close \in Int /\ g[i].close \in Int
  BY <1>1, CandlesOf
<1>4. QED
  BY <1>2, <1>3 DEF Series, Opposed

LEMMA ScaledTurns ==
  ASSUME NEW n \in Nat, NEW s \in Series(n), NEW t \in Series(n), NEW c \in Int,
         \A i \in 1..n : t[i] = c - s[i]
  PROVE  /\ Scaled(s) \in Series(n) /\ Scaled(t) \in Series(n) /\ c * Scale \in Int
         /\ \A i \in 1..n : Scaled(t)[i] = c * Scale - Scaled(s)[i]
<1>1. Scale \in Int /\ c * Scale \in Int
  BY PeriodAssumption, Products
<1>2. Scaled(s) = [i \in 1..n |-> s[i] * Scale] /\ Scaled(t) = [i \in 1..n |-> t[i] * Scale]
  BY DEF Scaled, Series
<1>3. ASSUME NEW i \in 1..n
      PROVE  s[i] * Scale \in Int /\ t[i] * Scale = c * Scale - s[i] * Scale
  <2>1. s[i] \in Int
    BY DEF Series
  <2>2. QED
    BY <1>1, <2>1, Products
<1>4. QED
  BY <1>1, <1>2, <1>3 DEF Series

LEMMA PricesTurn ==
  ASSUME NEW h, NEW g, Opposed(h, g)
  PROVE  /\ Scaled(Closes(h)) \in Series(Len(h)) /\ Scaled(Closes(g)) \in Series(Len(h))
         /\ Around * Scale \in Int
         /\ \A i \in 1..Len(h) : Scaled(Closes(g))[i] = Around * Scale - Scaled(Closes(h))[i]
<1>1. Len(h) \in Nat
  BY CandlesOf DEF Opposed
<1> DEFINE s == Closes(h)
           t == Closes(g)
           n == Len(h)
<1>2. s \in Series(n) /\ t \in Series(n) /\ \A i \in 1..n : t[i] = Around - s[i]
  BY ClosesTurn
<1> HIDE DEF s, t, n
<1>3. /\ Scaled(s) \in Series(n) /\ Scaled(t) \in Series(n) /\ Around * Scale \in Int
      /\ \A i \in 1..n : Scaled(t)[i] = Around * Scale - Scaled(s)[i]
  <2>1. n \in Nat /\ Around \in Int
    BY <1>1, AroundType DEF n
  <2>2. QED
    BY <1>2, <2>1, ScaledTurns
<1>4. QED
  BY <1>3 DEF s, t, n

LEMMA EmaTurns ==
  ASSUME NEW h, NEW g, Opposed(h, g), NEW span \in Nat \ {0}
  PROVE  /\ Ema(h, span) \in Int /\ Ema(g, span) \in Int
         /\ Ema(g, span) = Around * Scale - Ema(h, span)
<1> DEFINE n == Len(h)
           s == Scaled(Closes(h))
           t == Scaled(Closes(g))
<1>1. n \in Nat \ {0}
  BY CandlesOf DEF Opposed
<1>2. /\ s \in Series(n) /\ t \in Series(n) /\ Around * Scale \in Int
      /\ \A i \in 1..n : t[i] = Around * Scale - s[i]
  BY PricesTurn
<1> HIDE DEF n, s, t
<1>3. Ewm(s, span) \in Series(n) /\ Ewm(t, span) \in Series(n)
  BY <1>1, <1>2, EwmUnfolds
<1>4. \A i \in 1..n : Ewm(t, span)[i] = Around * Scale - Ewm(s, span)[i]
  BY <1>1, <1>2, EwmTurns
<1>5. Len(Ewm(s, span)) = n /\ Len(Ewm(t, span)) = n
  BY <1>1, <1>3 DEF Series
<1>6. Ema(h, span) = Ewm(s, span)[n] /\ Ema(g, span) = Ewm(t, span)[n]
  BY <1>5 DEF Ema, Last, s, t
<1>7. QED
  BY <1>1, <1>3, <1>4, <1>6 DEF Series

\* The line and the histogram of a series turned round change sign.
LEMMA HistogramTurns ==
  ASSUME NEW n \in Nat \ {0}, NEW s \in Series(n), NEW t \in Series(n), NEW c \in Int,
         \A i \in 1..n : t[i] = c - s[i],
         NEW fast \in Nat \ {0}, NEW slow \in Nat \ {0}, NEW signal \in Nat \ {0}
  PROVE  /\ MacdHistogram(s, fast, slow, signal) \in Int
         /\ MacdHistogram(t, fast, slow, signal) = -MacdHistogram(s, fast, slow, signal)
<1> DEFINE a == MacdLine(s, fast, slow)
           b == MacdLine(t, fast, slow)
<1>1. /\ Ewm(s, fast) \in Series(n) /\ Ewm(s, slow) \in Series(n)
      /\ Ewm(t, fast) \in Series(n) /\ Ewm(t, slow) \in Series(n)
  BY EwmUnfolds
<1>2. \A i \in 1..n : Ewm(t, fast)[i] = c - Ewm(s, fast)[i] /\ Ewm(t, slow)[i] = c - Ewm(s, slow)[i]
  BY EwmTurns
<1>3. /\ a = [i \in 1..n |-> Ewm(s, fast)[i] - Ewm(s, slow)[i]]
      /\ b = [i \in 1..n |-> Ewm(t, fast)[i] - Ewm(t, slow)[i]]
  BY DEF MacdLine, Series
<1>4. a \in Series(n) /\ b \in Series(n) /\ \A i \in 1..n : b[i] = 0 - a[i]
  <2>1. ASSUME NEW i \in 1..n
        PROVE  a[i] \in Int /\ b[i] \in Int /\ b[i] = 0 - a[i]
    <3>1. /\ Ewm(s, fast)[i] \in Int /\ Ewm(s, slow)[i] \in Int
          /\ Ewm(t, fast)[i] = c - Ewm(s, fast)[i] /\ Ewm(t, slow)[i] = c - Ewm(s, slow)[i]
      BY <1>1, <1>2 DEF Series
    <3>2. /\ a[i] = Ewm(s, fast)[i] - Ewm(s, slow)[i]
          /\ b[i] = Ewm(t, fast)[i] - Ewm(t, slow)[i]
      BY <1>3
    <3> HIDE DEF a, b
    <3>3. QED
      BY <3>1, <3>2
  <2>2. a = [i \in 1..n |-> a[i]] /\ b = [i \in 1..n |-> b[i]]
    BY <1>3
  <2> HIDE DEF a, b
  <2>3. QED
    BY <2>1, <2>2 DEF Series
<1> HIDE DEF a, b
<1>5. Ewm(a, signal) \in Series(n) /\ Ewm(b, signal) \in Series(n)
  BY <1>4, EwmUnfolds
<1>6. \A i \in 1..n : Ewm(b, signal)[i] = 0 - Ewm(a, signal)[i]
  BY <1>4, EwmTurns
<1>7. Len(a) = n /\ Len(b) = n /\ Len(Ewm(a, signal)) = n /\ Len(Ewm(b, signal)) = n
  BY <1>4, <1>5 DEF Series
<1>8. /\ MacdHistogram(s, fast, slow, signal) = a[n] - Ewm(a, signal)[n]
      /\ MacdHistogram(t, fast, slow, signal) = b[n] - Ewm(b, signal)[n]
  BY <1>7 DEF MacdHistogram, Last, a, b
<1>9. a[n] \in Int /\ Ewm(a, signal)[n] \in Int
  BY <1>4, <1>5 DEF Series
<1>10. QED
  BY <1>4, <1>6, <1>8, <1>9

LEMMA MomentumTurns ==
  ASSUME NEW h, NEW g, Opposed(h, g)
  PROVE  Momentum(h) \in Int /\ Momentum(g) = -Momentum(h)
<1> DEFINE n == Len(h)
           s == Scaled(Closes(h))
           t == Scaled(Closes(g))
<1>1. n \in Nat \ {0}
  BY CandlesOf DEF Opposed
<1>2. /\ s \in Series(n) /\ t \in Series(n) /\ Around * Scale \in Int
      /\ \A i \in 1..n : t[i] = Around * Scale - s[i]
  BY PricesTurn
<1>3. MacdSpans[1] \in Nat \ {0} /\ MacdSpans[2] \in Nat \ {0} /\ MacdSpans[3] \in Nat \ {0}
  BY PeriodAssumption
<1>4. /\ MacdHistogram(s, MacdSpans[1], MacdSpans[2], MacdSpans[3]) \in Int
      /\ MacdHistogram(t, MacdSpans[1], MacdSpans[2], MacdSpans[3])
           = -MacdHistogram(s, MacdSpans[1], MacdSpans[2], MacdSpans[3])
  <2> HIDE DEF s, t, n
  <2> DEFINE c == Around * Scale
             fast == MacdSpans[1]
             slow == MacdSpans[2]
             signal == MacdSpans[3]
  <2>1. c \in Int /\ fast \in Nat \ {0} /\ slow \in Nat \ {0} /\ signal \in Nat \ {0}
    BY <1>2, <1>3
  <2>2. \A i \in 1..n : t[i] = c - s[i]
    BY <1>2
  <2> HIDE DEF c, fast, slow, signal
  <2>3. /\ MacdHistogram(s, fast, slow, signal) \in Int
        /\ MacdHistogram(t, fast, slow, signal) = -MacdHistogram(s, fast, slow, signal)
    BY <1>1, <1>2, <2>1, <2>2, HistogramTurns
  <2>4. QED
    BY <2>3 DEF fast, slow, signal
<1>5. QED
  BY <1>4 DEF Momentum

-----------------------------------------------------------------------------
(* Gains and losses                                                        *)

\* What one series gains the other loses.
LEMMA GainsTurn ==
  ASSUME NEW h, NEW g, Opposed(h, g), Len(h) > 1
  PROVE  /\ Gains(Closes(g)) = Losses(Closes(h))
         /\ Gains(Closes(h)) \in Series(Len(h) - 1)
<1> DEFINE n == Len(h)
           s == Closes(h)
           t == Closes(g)
<1>1. n \in Nat \ {0} /\ n > 1
  BY CandlesOf DEF Opposed
<1>2. s \in Series(n) /\ t \in Series(n) /\ \A i \in 1..n : t[i] = Around - s[i]
  BY ClosesTurn
<1> HIDE DEF n, s, t
<1>3. Len(s) = n /\ Len(t) = n
  BY <1>1, <1>2 DEF Series
<1>4. ASSUME NEW i \in 1..(n - 1)
      PROVE  Max({t[i + 1] - t[i], 0}) = Max({s[i] - s[i + 1], 0}) /\ Max({s[i + 1] - s[i], 0}) \in Int
  <2>1. i \in 1..n /\ i + 1 \in 1..n
    BY <1>1
  <2>2. s[i] \in Int /\ s[i + 1] \in Int /\ t[i] = Around - s[i] /\ t[i + 1] = Around - s[i + 1]
    BY <1>2, <2>1 DEF Series
  <2>3. t[i + 1] - t[i] = s[i] - s[i + 1] /\ s[i + 1] - s[i] \in Int
    BY <2>2, AroundType
  <2>4. Max({t[i + 1] - t[i], 0}) = Max({s[i] - s[i + 1], 0})
    BY <2>3
  <2>5. ASSUME NEW x \in Int
        PROVE  Max({x, 0}) \in Int
    <3>1. \A y \in Int : Max({x, y}) \in Int
      BY LargerOfTwo
    <3>2. QED
      BY ONLY <3>1
  <2>6. Max({s[i + 1] - s[i], 0}) \in Int
    BY <2>3, <2>5
  <2>7. QED
    BY <2>4, <2>6
<1>5. /\ Gains(t) = [i \in 1..(n - 1) |-> Max({t[i + 1] - t[i], 0})]
      /\ Gains(s) = [i \in 1..(n - 1) |-> Max({s[i + 1] - s[i], 0})]
      /\ Losses(s) = [i \in 1..(n - 1) |-> Max({s[i] - s[i + 1], 0})]
  BY <1>3 DEF Gains, Losses
<1>6. Gains(t) = Losses(s) /\ Gains(s) \in Series(n - 1)
  BY <1>4, <1>5 DEF Series
<1>7. QED
  BY <1>6 DEF n, s, t

LEMMA WilderType ==
  ASSUME NEW n \in Nat \ {0}, NEW s \in Series(n)
  PROVE  WilderAverage(s) \in Int
<1> DEFINE t == [i \in DOMAIN s |-> s[i] * RsiScale]
<1>1. RsiScale \in Int /\ 2 * RsiPeriod - 1 \in Nat \ {0}
  BY PeriodAssumption
<1>2. \A i \in 1..n : s[i] * RsiScale \in Int
  BY <1>1, Products DEF Series
<1>3. t \in Series(n)
  BY <1>2 DEF Series
<1>4. WilderAverage(s) = Last(Ewm(t, 2 * RsiPeriod - 1))
  BY DEF WilderAverage
<1> HIDE DEF t
<1>5. Ewm(t, 2 * RsiPeriod - 1) \in Series(n)
  BY <1>1, <1>3, EwmUnfolds
<1>6. QED
  BY <1>4, <1>5 DEF Last, Series

\* The two averages of a market, and those of the market upside down.
LEMMA AveragesTurn ==
  ASSUME NEW h, NEW g, Opposed(h, g), HasRsi(h)
  PROVE  /\ WilderAverage(Gains(Closes(h))) \in Int /\ WilderAverage(Losses(Closes(h))) \in Int
         /\ WilderAverage(Gains(Closes(g))) = WilderAverage(Losses(Closes(h)))
         /\ WilderAverage(Losses(Closes(g))) = WilderAverage(Gains(Closes(h)))
<1>1. Len(h) \in Nat \ {0} /\ Len(h) > 1 /\ Len(g) = Len(h)
  BY CandlesOf, PeriodAssumption DEF HasRsi, Opposed
<1>2. Opposed(g, h)
  BY OpposedTurns
<1>3. Gains(Closes(g)) = Losses(Closes(h)) /\ Gains(Closes(h)) = Losses(Closes(g))
  BY <1>1, <1>2, GainsTurn
<1>4. Gains(Closes(h)) \in Series(Len(h) - 1) /\ Gains(Closes(g)) \in Series(Len(h) - 1)
  BY <1>1, <1>2, GainsTurn
<1>5. WilderAverage(Gains(Closes(h))) \in Int /\ WilderAverage(Gains(Closes(g))) \in Int
  <2>1. Len(h) - 1 \in Nat \ {0}
    BY <1>1
  <2>2. QED
    BY <1>4, <2>1, WilderType
<1>6. QED
  BY <1>3, <1>5

LEMMA BetweenTurns ==
  ASSUME NEW gain \in Int, NEW loss \in Int, NEW low \in Int, NEW high \in Int
  PROVE  RsiBetween(loss, gain, 100 - high, 100 - low) <=> RsiBetween(gain, loss, low, high)
<1>1. /\ (100 - high) * (loss + gain) = 100 * loss + 100 * gain - high * (gain + loss)
      /\ (100 - low) * (loss + gain) = 100 * loss + 100 * gain - low * (gain + loss)
  OBVIOUS
<1>2. high * (gain + loss) \in Int /\ low * (gain + loss) \in Int
  BY Products
<1>3. QED
  BY <1>1, <1>2 DEF RsiBetween

\* Where one RSI is between two bounds, the other is between their
\* complements.
LEMMA RsiTurns ==
  ASSUME NEW h, NEW g, Opposed(h, g), HasRsi(h), NEW low \in Int, NEW high \in Int
  PROVE  RsiWithin(g, 100 - high, 100 - low) <=> RsiWithin(h, low, high)
BY AveragesTurn, BetweenTurns DEF RsiWithin

-----------------------------------------------------------------------------
(* Ranges and levels                                                       *)

LEMMA TrueRangesAgree ==
  ASSUME NEW h, NEW g, Opposed(h, g)
  PROVE  TrueRange(g) = TrueRange(h)
<1>1. h \in Histories /\ g \in Histories /\ Len(g) = Len(h)
  BY DEF Opposed
<1>2. DOMAIN h = 1..Len(h) /\ DOMAIN g = 1..Len(h) /\ Len(h) \in Nat \ {0}
  BY <1>1, CandlesOf
<1>3. ASSUME NEW i \in 1..Len(h)
      PROVE  g[i].high - g[i].low = h[i].high - h[i].low
  BY <1>1, <1>3, CandlesOf, AroundType DEF Opposed
<1>4. ASSUME NEW i \in 1..Len(h), i # 1
      PROVE  Max({g[i].high, g[i - 1].close}) - Min({g[i].low, g[i - 1].close})
               = Max({h[i].high, h[i - 1].close}) - Min({h[i].low, h[i - 1].close})
  <2> DEFINE a == h[i].high
             b == h[i - 1].close
             c == h[i].low
  <2>1. i - 1 \in 1..Len(h)
    BY <1>2, <1>4
  <2>2. a \in Int /\ b \in Int /\ c \in Int
    BY <1>1, <2>1, CandlesOf
  <2>3. g[i].high = Around - c /\ g[i - 1].close = Around - b /\ g[i].low = Around - a
    BY <2>1 DEF Opposed
  <2> HIDE DEF a, b, c
  <2>4. /\ Max({Around - c, Around - b}) = Around - Min({c, b})
        /\ Min({Around - a, Around - b}) = Around - Max({a, b})
    <3>1. /\ Min({c, b}) \in {c, b} /\ Min({c, b}) <= c /\ Min({c, b}) <= b
          /\ Max({a, b}) \in {a, b} /\ Max({a, b}) >= a /\ Max({a, b}) >= b
      BY <2>2, LargerOfTwo, SmallerOfTwo
    <3>2. Around - c \in Int /\ Around - b \in Int /\ Around - a \in Int
      BY <2>2, AroundType
    <3>3. /\ Max({Around - c, Around - b}) \in {Around - c, Around - b}
          /\ Max({Around - c, Around - b}) >= Around - c /\ Max({Around - c, Around - b}) >= Around - b
          /\ Min({Around - a, Around - b}) \in {Around - a, Around - b}
          /\ Min({Around - a, Around - b}) <= Around - a /\ Min({Around - a, Around - b}) <= Around - b
      BY <3>2, LargerOfTwo, SmallerOfTwo
    <3>4. QED
      BY <2>2, <3>1, <3>3, AroundType
  <2>5. Max({a, b}) \in Int /\ Min({c, b}) \in Int
    BY <2>2, LargerOfTwo, SmallerOfTwo
  <2>6. QED
    BY <2>3, <2>4, <2>5, AroundType DEF a, b, c
<1>5. QED
  BY <1>2, <1>3, <1>4 DEF TrueRange

LEMMA AtrSumsAgree ==
  ASSUME NEW h, NEW g, Opposed(h, g), NEW n \in 1..Len(h)
  PROVE  AtrSum(g, n) = AtrSum(h, n)
BY OpposedPart, TrueRangesAgree DEF AtrSum

\* The high before the last candle becomes the low.
LEMMA LevelsTurn ==
  ASSUME NEW h, NEW g, Opposed(h, g), NEW n \in Nat \ {0}, Len(h) > n
  PROVE  /\ PreviousHigh(h, n) \in Int /\ PreviousLow(h, n) \in Int
         /\ PreviousLow(g, n) = Around - PreviousHigh(h, n)
         /\ PreviousHigh(g, n) = Around - PreviousLow(h, n)
<1> DEFINE m == Len(h) - 1
           D == (m - n + 1)..m
           high == [i \in D |-> h[i].high]
           low == [i \in D |-> h[i].low]
           turned(f) == {Around - f[i] : i \in D}
           values(f) == {f[i] : i \in D}
<1>1. h \in Seq(Candle) /\ g \in Seq(Candle) /\ Len(g) = Len(h) /\ Len(h) \in Nat
  BY DEF Opposed, Histories
<1>2. m \in Nat \ {0} /\ D \subseteq 1..m /\ m \in D /\ IsFiniteSet(D)
  <2>1. m \in Nat \ {0} /\ m - n + 1 \in Nat \ {0} /\ m - n + 1 <= m
    BY <1>1
  <2> HIDE DEF m
  <2>2. IsFiniteSet((m - n + 1)..m)
    BY <2>1, FS_Interval
  <2>3. QED
    BY <2>1, <2>2
<1>3. \A i \in 1..m : i \in 1..Len(h)
  BY <1>1
<1>4. ASSUME NEW i \in D
      PROVE  /\ high[i] \in Int /\ low[i] \in Int
             /\ g[i].high = Around - low[i] /\ g[i].low = Around - high[i]
  <2>1. i \in 1..Len(h)
    BY <1>2, <1>3
  <2>2. QED
    BY <2>1, CandlesOf DEF Opposed
<1>5. /\ Newest(Highs(Front(h)), n) = values(high)
      /\ Newest(Lows(Front(h)), n) = values(low)
      /\ Newest(Highs(Front(g)), n) = turned(low)
      /\ Newest(Lows(Front(g)), n) = turned(high)
  <2>1. ASSUME NEW x \in {h, g}
        PROVE  /\ Newest(Highs(Front(x)), n) = {x[i].high : i \in D}
               /\ Newest(Lows(Front(x)), n) = {x[i].low : i \in D}
    <3>1. x \in Seq(Candle) /\ Len(x) = m + 1
      BY <1>1
    <3>2. Len(Front(x)) = m /\ DOMAIN Front(x) = 1..m /\ \A i \in 1..m : Front(x)[i] = x[i]
      BY <1>2, <3>1 DEF Front
    <3>3. /\ Highs(Front(x)) = [i \in 1..m |-> Front(x)[i].high]
          /\ Lows(Front(x)) = [i \in 1..m |-> Front(x)[i].low]
      BY <3>2 DEF Highs, Lows
    <3>4. Len(Highs(Front(x))) = m /\ Len(Lows(Front(x))) = m
      BY <1>2, <3>3
    <3> HIDE DEF m
    <3>5. /\ Newest(Highs(Front(x)), n) = {Highs(Front(x))[i] : i \in D}
          /\ Newest(Lows(Front(x)), n) = {Lows(Front(x))[i] : i \in D}
      BY <3>4 DEF Newest
    <3>6. ASSUME NEW i \in D
          PROVE  Highs(Front(x))[i] = x[i].high /\ Lows(Front(x))[i] = x[i].low
      <4>1. i \in 1..m
        BY <1>2
      <4>2. Front(x)[i] = x[i]
        BY ONLY <3>2, <4>1
      <4>3. Highs(Front(x))[i] = Front(x)[i].high /\ Lows(Front(x))[i] = Front(x)[i].low
        BY ONLY <3>3, <4>1
      <4>4. QED
        BY <4>2, <4>3
    <3>7. QED
      BY <3>5, <3>6
  <2> HIDE DEF D
  <2>2. QED
    BY <1>4, <2>1
<1> HIDE DEF D, high, low
<1>6. ASSUME NEW f \in [D -> Int]
      PROVE  /\ Max(values(f)) \in Int /\ Min(values(f)) \in Int
             /\ Min(turned(f)) = Around - Max(values(f))
             /\ Max(turned(f)) = Around - Min(values(f))
  <2> DEFINE t == [i \in D |-> Around - f[i]]
             S == values(f)
             T == turned(f)
  <2>1. t \in [D -> Int]
    BY AroundType
  <2>2. IsFiniteSet(S) /\ S \subseteq Int /\ S # {}
    BY <1>2, ValuesAreFinite
  <2>3. IsFiniteSet(T) /\ T \subseteq Int /\ T # {}
    <3>1. T = {t[i] : i \in DOMAIN t}
      BY <2>1
    <3>2. IsFiniteSet(T)
      BY <1>2, <3>1, ValuesAreFinite
    <3>3. QED
      BY <1>2, <2>1, <3>1, <3>2
  <2>4. (\A x \in S : Around - x \in T) /\ (\A y \in T : Around - y \in S)
    BY AroundType
  <2> HIDE DEF S, T
  <2>5. /\ Min(S) \in S /\ Max(S) \in S /\ \A x \in S : Min(S) <= x /\ x <= Max(S)
        /\ Min(T) \in T /\ Max(T) \in T /\ \A x \in T : Min(T) <= x /\ x <= Max(T)
    BY <2>2, <2>3, SmallestOfMany
  <2>6. /\ Min(T) <= Around - Max(S) /\ Around - Min(T) <= Max(S)
        /\ Max(T) >= Around - Min(S) /\ Around - Max(T) >= Min(S)
    BY <2>4, <2>5
  <2>7. Min(S) \in Int /\ Max(S) \in Int /\ Min(T) \in Int /\ Max(T) \in Int
    BY <2>2, <2>3, <2>5
  <2>8. Min(T) = Around - Max(S) /\ Max(T) = Around - Min(S)
    BY <2>6, <2>7, AroundType
  <2>9. QED
    BY <2>7, <2>8 DEF S, T
<1>7. high \in [D -> Int] /\ low \in [D -> Int]
  BY <1>4 DEF high, low
<1>8. QED
  <2> HIDE DEF values, turned
  <2>1. QED
    BY <1>5, <1>6, <1>7 DEF PreviousHigh, PreviousLow

LEMMA LastTurns ==
  ASSUME NEW h, NEW g, Opposed(h, g)
  PROVE  /\ Last(h).open \in Int /\ Last(h).close \in Int
         /\ Last(h).high \in Int /\ Last(h).low \in Int
         /\ Last(g).open = Around - Last(h).open /\ Last(g).close = Around - Last(h).close
         /\ Last(g).high = Around - Last(h).low /\ Last(g).low = Around - Last(h).high
<1>1. h \in Histories /\ g \in Histories /\ Len(g) = Len(h) /\ Len(h) \in 1..Len(h)
  BY CandlesOf DEF Opposed
<1>2. Last(h) = h[Len(h)] /\ Last(g) = g[Len(h)]
  BY <1>1, CandlesOf
<1>3. QED
  BY <1>1, <1>2, CandlesOf DEF Opposed

LEMMA PlaceTurns ==
  ASSUME NEW h, NEW g, Opposed(h, g), NEW percent \in Int
  PROVE  /\ CloseAtMost(Last(g), 100 - percent) <=> CloseAtLeast(Last(h), percent)
         /\ Last(g).high > Last(g).low <=> Last(h).high > Last(h).low
<1> DEFINE range == Last(h).high - Last(h).low
           place == Last(h).close - Last(h).low
<1>1. range \in Int /\ place \in Int
  BY LastTurns
<1>2. Last(g).high - Last(g).low = range /\ Last(g).close - Last(g).low = range - place
  BY LastTurns, AroundType
<1>3. /\ CloseAtLeast(Last(h), percent) <=> 100 * place >= percent * range
      /\ CloseAtMost(Last(g), 100 - percent) <=> 100 * (range - place) <= (100 - percent) * range
  BY <1>2 DEF CloseAtLeast, CloseAtMost
<1>4. Last(g).high > Last(g).low <=> Last(h).high > Last(h).low
  BY LastTurns, AroundType
<1> HIDE DEF range, place
<1>5. 100 * (range - place) <= (100 - percent) * range <=> 100 * place >= percent * range
  <2>1. (100 - percent) * range = 100 * range - percent * range /\ percent * range \in Int
    BY <1>1
  <2>2. QED
    BY <1>1, <2>1
<1>6. QED
  BY <1>3, <1>4, <1>5

-----------------------------------------------------------------------------
(* The copies of the indicators                                            *)

LEMMA SameEwm ==
  \A s, span : Growth!Ewm(s, span) = Ewm(s, span) /\ Signals!Ewm(s, span) = Ewm(s, span)
BY DEF Ewm, Quotient, Growth!Ewm, Growth!Quotient, Signals!Ewm, Signals!Quotient

LEMMA SameSeries ==
  /\ \A s : /\ Growth!Last(s) = Last(s) /\ Signals!Last(s) = Last(s)
            /\ Growth!Scaled(s) = Scaled(s) /\ Signals!Scaled(s) = Scaled(s)
            /\ Growth!Closes(s) = Closes(s) /\ Signals!Closes(s) = Closes(s)
            /\ Growth!Gains(s) = Gains(s) /\ Signals!Gains(s) = Gains(s)
            /\ Growth!Losses(s) = Losses(s) /\ Signals!Losses(s) = Losses(s)
  /\ \A c, p : Growth!Points(c, p) = Points(c, p) /\ Signals!Points(c, p) = Points(c, p)
  /\ \A c, p : /\ Growth!CloseAtLeast(c, p) <=> CloseAtLeast(c, p)
               /\ Growth!CloseAtMost(c, p) <=> CloseAtMost(c, p)
               /\ Signals!CloseAtLeast(c, p) <=> CloseAtLeast(c, p)
               /\ Signals!CloseAtMost(c, p) <=> CloseAtMost(c, p)
BY DEF Last, Scaled, Closes, Gains, Losses, Points, CloseAtLeast, CloseAtMost, Max,
       Growth!Last, Growth!Scaled, Growth!Closes, Growth!Gains, Growth!Losses, Growth!Points,
       Growth!CloseAtLeast, Growth!CloseAtMost, Growth!Max,
       Signals!Last, Signals!Scaled, Signals!Closes, Signals!Gains, Signals!Losses,
       Signals!Points, Signals!CloseAtLeast, Signals!CloseAtMost, Signals!Max

LEMMA SameEma ==
  \A h, span : Growth!Ema(h, span) = Ema(h, span) /\ Signals!Ema(h, span) = Ema(h, span)
BY SameEwm, SameSeries DEF Ema, Growth!Ema, Signals!Ema

LEMMA SameMomentum ==
  \A h : Growth!Momentum(h) = Momentum(h) /\ Signals!Momentum(h) = Momentum(h)
<1>1. \A s, fast, slow : /\ Growth!MacdLine(s, fast, slow) = MacdLine(s, fast, slow)
                         /\ Signals!MacdLine(s, fast, slow) = MacdLine(s, fast, slow)
  BY SameEwm DEF MacdLine, Growth!MacdLine, Signals!MacdLine
<1>2. \A s, fast, slow, signal :
        /\ Growth!MacdHistogram(s, fast, slow, signal) = MacdHistogram(s, fast, slow, signal)
        /\ Signals!MacdHistogram(s, fast, slow, signal) = MacdHistogram(s, fast, slow, signal)
  BY <1>1, SameEwm, SameSeries DEF MacdHistogram, Growth!MacdHistogram, Signals!MacdHistogram
<1>3. QED
  BY <1>2, SameSeries DEF Momentum, Growth!Momentum, Signals!Momentum

LEMMA SameRsi ==
  \A h : /\ Growth!HasRsi(h) <=> HasRsi(h)
         /\ Signals!HasRsi(h) <=> HasRsi(h)
         /\ \A low, high : /\ Growth!RsiWithin(h, low, high) <=> RsiWithin(h, low, high)
                           /\ Signals!RsiWithin(h, low, high) <=> RsiWithin(h, low, high)
<1>1. \A s : Growth!WilderAverage(s) = WilderAverage(s) /\ Signals!WilderAverage(s) = WilderAverage(s)
  BY SameEwm, SameSeries DEF WilderAverage, Growth!WilderAverage, Signals!WilderAverage
<1>2. QED
  BY <1>1, SameSeries
     DEF HasRsi, RsiWithin, RsiBetween, Growth!HasRsi, Growth!RsiWithin, Growth!RsiBetween,
         Signals!HasRsi, Signals!RsiWithin, Signals!RsiBetween

LEMMA SameLevels ==
  \A h, n : Signals!PreviousHigh(h, n) = PreviousHigh(h, n) /\ Signals!PreviousLow(h, n) = PreviousLow(h, n)
BY DEF PreviousHigh, PreviousLow, Newest, Highs, Lows, Front, Max, Min,
       Signals!PreviousHigh, Signals!PreviousLow, Signals!Newest, Signals!Highs, Signals!Lows,
       Signals!Front, Signals!Max, Signals!Min

LEMMA SameSignalsAtrSum ==
  ASSUME NEW h, NEW i
  PROVE  Signals!AtrSum(h, i) = AtrSum(h, i)
<1>1. \A s : Signals!TrueRange(s) = TrueRange(s)
  BY DEF TrueRange, Max, Min, Signals!TrueRange, Signals!Max, Signals!Min
<1>2. \A f, S : Signals!SumFunctionOnSet(f, S) = SumFunctionOnSet(f, S)
  BY SumIsChosen
     DEF IsSum, Element, Signals!SumFunctionOnSet, Signals!FoldFunctionOnSet,
         Signals!MapThenFoldSet
<1>3. QED
  BY <1>1, <1>2 DEF AtrSum, RollingSum, Signals!AtrSum, Signals!RollingSum

\* The ratio of the average true range to its median, in either copy.
LEMMA SameRatios ==
  ASSUME NEW h, NEW g, Opposed(h, g), HasAtrRatio(h)
  PROVE  /\ Growth!HasAtrRatio(h) /\ Growth!HasAtrRatio(g)
         /\ Signals!HasAtrRatio(h) /\ Signals!HasAtrRatio(g)
         /\ \A x : /\ Growth!AtrRatioAtLeast(g, x) <=> Growth!AtrRatioAtLeast(h, x)
                   /\ Growth!AtrRatioAtMost(g, x) <=> Growth!AtrRatioAtMost(h, x)
                   /\ Signals!AtrRatioAtLeast(g, x) <=> Signals!AtrRatioAtLeast(h, x)
                   /\ Signals!AtrRatioAtMost(g, x) <=> Signals!AtrRatioAtMost(h, x)
<1>1. Len(h) \in 1..Len(h) /\ Len(g) = Len(h) /\ Len(h) \in Nat
  BY CandlesOf DEF Opposed
<1>2. \A k \in 1..MedianPeriod : Len(h) - k + 1 \in 1..Len(h)
  BY <1>1, PeriodAssumption DEF HasAtrRatio
<1>3. \A i \in 1..Len(h) : /\ Growth!AtrSum(g, i) = Growth!AtrSum(h, i)
                           /\ Signals!AtrSum(g, i) = Signals!AtrSum(h, i)
  BY AtrSumsAgree, SameAtrSum, SameSignalsAtrSum
<1>4. /\ [k \in 1..MedianPeriod |-> Growth!AtrSum(g, Len(g) - k + 1)]
           = [k \in 1..MedianPeriod |-> Growth!AtrSum(h, Len(h) - k + 1)]
      /\ [k \in 1..MedianPeriod |-> Signals!AtrSum(g, Len(g) - k + 1)]
           = [k \in 1..MedianPeriod |-> Signals!AtrSum(h, Len(h) - k + 1)]
  BY <1>1, <1>2, <1>3
<1>5. /\ Growth!MedianAtrSum(g) = Growth!MedianAtrSum(h)
      /\ Signals!MedianAtrSum(g) = Signals!MedianAtrSum(h)
  BY <1>4 DEF Growth!MedianAtrSum, Signals!MedianAtrSum
<1>6. QED
  BY <1>1, <1>3, <1>5
     DEF HasAtrRatio, Growth!HasAtrRatio, Growth!AtrRatioAtLeast, Growth!AtrRatioAtMost,
         Signals!HasAtrRatio, Signals!AtrRatioAtLeast, Signals!AtrRatioAtMost

-----------------------------------------------------------------------------
(* The scores of the weekly strategies                                     *)

\* Where the last candle is, about an average and about the levels.
LEMMA SidesTurn ==
  ASSUME NEW h, NEW g, Opposed(h, g), NEW span \in Nat \ {0}
  PROVE  /\ Last(h).close * Scale > Ema(h, span) <=> Last(g).close * Scale < Ema(g, span)
         /\ Last(h).low * Scale <= Ema(h, span) <=> Last(g).high * Scale >= Ema(g, span)
<1>1. Ema(h, span) \in Int /\ Ema(g, span) = Around * Scale - Ema(h, span)
  BY EmaTurns
<1>2. ASSUME NEW x \in Int
      PROVE  x * Scale \in Int /\ (Around - x) * Scale = Around * Scale - x * Scale
  BY AroundType, PeriodAssumption
<1>3. Around * Scale \in Int
  BY AroundType, PeriodAssumption
<1>4. /\ Last(h).close \in Int /\ Last(g).close = Around - Last(h).close
      /\ Last(h).low \in Int /\ Last(g).high = Around - Last(h).low
  BY LastTurns
<1>5. /\ Last(h).close * Scale \in Int /\ Last(h).low * Scale \in Int
      /\ Last(g).close * Scale = Around * Scale - Last(h).close * Scale
      /\ Last(g).high * Scale = Around * Scale - Last(h).low * Scale
  BY <1>2, <1>4
<1>6. QED
  BY <1>1, <1>3, <1>5

LEMMA SweepsTurn ==
  ASSUME NEW h, NEW g, Opposed(h, g), NEW n \in Nat \ {0}, Len(h) > n
  PROVE  /\ Last(h).low < PreviousLow(h, n) <=> Last(g).high > PreviousHigh(g, n)
         /\ Last(h).close > PreviousLow(h, n) <=> Last(g).close < PreviousHigh(g, n)
         /\ Last(h).close > PreviousHigh(h, n) <=> Last(g).close < PreviousLow(g, n)
BY LevelsTurn, LastTurns, AroundType

LEMMA GroupsTurn ==
  ASSUME NEW h, NEW g, Opposed(h, g)
  PROVE  LET n == Len(h) \div GroupBars
         IN  /\ n \in Nat
             /\ Growth!Grouped(h) \in Series(n) /\ Growth!Grouped(g) \in Series(n)
             /\ \A k \in 1..n : Growth!Grouped(g)[k] = Around - Growth!Grouped(h)[k]
<1> DEFINE n == Len(h) \div GroupBars
<1>1. /\ GroupBars \in Nat \ {0} /\ Len(h) \in Nat \ {0} /\ Len(g) = Len(h)
      /\ h \in Histories /\ g \in Histories
  BY BacktestAssumption, CandlesOf DEF Opposed, Growth!ValidSpans
<1>2. n \in Nat /\ n * GroupBars <= Len(h)
  BY <1>1
<1>3. ASSUME NEW k \in 1..n
      PROVE  k * GroupBars \in 1..Len(h)
  <2>1. k * GroupBars \in Nat \ {0}
    BY <1>1
  <2>2. (n - k) * GroupBars \in Nat /\ (n - k) * GroupBars = n * GroupBars - k * GroupBars
    BY <1>1, <1>2
  <2>3. n * GroupBars \in Int
    BY <1>1, <1>2, Products
  <2> HIDE DEF n
  <2>4. QED
    BY <1>1, <1>2, <2>1, <2>2, <2>3
<1>4. /\ Growth!Grouped(h) = [k \in 1..n |-> h[k * GroupBars].close]
      /\ Growth!Grouped(g) = [k \in 1..n |-> g[k * GroupBars].close]
  BY <1>1 DEF Growth!Grouped
<1>5. ASSUME NEW k \in 1..n
      PROVE  /\ h[k * GroupBars].close \in Int /\ g[k * GroupBars].close \in Int
             /\ g[k * GroupBars].close = Around - h[k * GroupBars].close
  <2>1. k * GroupBars \in 1..Len(h)
    BY <1>3
  <2>2. QED
    BY <1>1, <2>1, CandlesOf DEF Opposed
<1> HIDE DEF n
<1>6. /\ Growth!Grouped(h) \in Series(n) /\ Growth!Grouped(g) \in Series(n)
      /\ \A k \in 1..n : Growth!Grouped(g)[k] = Around - Growth!Grouped(h)[k]
  BY <1>4, <1>5 DEF Series
<1>7. QED
  BY <1>2, <1>6 DEF n

\* The trend of the higher timeframe.
LEMMA TrendTurns ==
  ASSUME NEW h, NEW g, Opposed(h, g)
  PROVE  Growth!HigherTrend(h) = "BULL" <=> Growth!HigherTrend(g) = "BEAR"
<1> DEFINE n == Len(h) \div GroupBars
           a == Growth!Grouped(h)
           b == Growth!Grouped(g)
           s == Scaled(a)
           t == Scaled(b)
           c == Around * Scale
<1>1. n \in Nat /\ a \in Series(n) /\ b \in Series(n) /\ \A k \in 1..n : b[k] = Around - a[k]
  BY GroupsTurn
<1> HIDE DEF n, a, b
<1>2. /\ s \in Series(n) /\ t \in Series(n) /\ c \in Int
      /\ \A k \in 1..n : t[k] = c - s[k]
  BY <1>1, ScaledTurns, AroundType
<1>3. Len(s) = n /\ Len(t) = n
  BY <1>1, <1>2 DEF Series
<1>4. /\ Growth!HigherTrend(h) =
           CASE Len(s) = 0 -> "NONE"
             [] Len(s) > 0 /\ Last(Ewm(s, EmaFast)) > Last(Ewm(s, EmaSlow))
                /\ Last(s) > Last(Ewm(s, EmaFast)) -> "BULL"
             [] Len(s) > 0 /\ Last(Ewm(s, EmaFast)) < Last(Ewm(s, EmaSlow))
                /\ Last(s) < Last(Ewm(s, EmaFast)) -> "BEAR"
             [] OTHER -> "NEUTRAL"
      /\ Growth!HigherTrend(g) =
           CASE Len(t) = 0 -> "NONE"
             [] Len(t) > 0 /\ Last(Ewm(t, EmaFast)) > Last(Ewm(t, EmaSlow))
                /\ Last(t) > Last(Ewm(t, EmaFast)) -> "BULL"
             [] Len(t) > 0 /\ Last(Ewm(t, EmaFast)) < Last(Ewm(t, EmaSlow))
                /\ Last(t) < Last(Ewm(t, EmaFast)) -> "BEAR"
             [] OTHER -> "NEUTRAL"
  BY SameEwm, SameSeries DEF Growth!HigherTrend, a, b
<1> HIDE DEF s, t, c
<1>5. CASE n = 0
  BY <1>3, <1>4, <1>5
<1>6. CASE n # 0
  <2>1. /\ Ewm(s, EmaFast) \in Series(n) /\ Ewm(s, EmaSlow) \in Series(n)
        /\ Ewm(t, EmaFast) \in Series(n) /\ Ewm(t, EmaSlow) \in Series(n)
    BY <1>1, <1>2, EwmUnfolds, PeriodAssumption
  <2>2. /\ \A k \in 1..n : Ewm(t, EmaFast)[k] = c - Ewm(s, EmaFast)[k]
        /\ \A k \in 1..n : Ewm(t, EmaSlow)[k] = c - Ewm(s, EmaSlow)[k]
    <3>1. ASSUME NEW span \in Nat \ {0}
          PROVE  \A k \in 1..n : Ewm(t, span)[k] = c - Ewm(s, span)[k]
      BY <1>1, <1>2, EwmTurns
    <3>2. QED
      BY <3>1, PeriodAssumption
  <2>3. \A f \in Series(n) : Last(f) = f[n] /\ Last(f) \in Int
    BY <1>1, <1>6 DEF Last, Series
  <2> DEFINE x == Last(Ewm(s, EmaFast))
             y == Last(Ewm(s, EmaSlow))
             z == Last(s)
             u == Last(Ewm(t, EmaFast))
             v == Last(Ewm(t, EmaSlow))
             w == Last(t)
  <2>4. n \in 1..n
    BY <1>1, <1>6
  <2>5. x \in Int /\ y \in Int /\ z \in Int /\ u = c - x /\ v = c - y /\ w = c - z
    BY <1>2, <2>1, <2>2, <2>3, <2>4
  <2> HIDE DEF x, y, z, u, v, w
  <2>6. /\ Growth!HigherTrend(h) = "BULL" <=> x > y /\ z > x
        /\ Growth!HigherTrend(g) = "BEAR" <=> u < v /\ w < u
    BY <1>1, <1>2, <1>3, <1>4, <1>6, <2>5 DEF x, y, z, u, v, w
  <2>7. QED
    BY <1>2, <2>5, <2>6
<1>7. QED
  BY <1>5, <1>6

LEMMA IndicatorsTurn ==
  ASSUME NEW h, NEW g, Opposed(h, g), HasRsi(g), Growth!HasIndicators(h)
  PROVE  Growth!HasIndicators(g)
<1>1. Len(g) = Len(h)
  BY DEF Opposed
<1>2. QED
  BY <1>1, SameRsi DEF Growth!HasIndicators, Growth!HasAtrRatio

LEMMA ScoresTurn ==
  ASSUME NEW h, NEW g, Opposed(h, g), Growth!HasIndicators(h)
  PROVE  Growth!BuyScore(h) = Growth!SellScore(g)
<1>1. HasRsi(h) /\ Len(h) > LiquidityLookback
  BY SameRsi DEF Growth!HasIndicators
<1> DEFINE n == LiquidityLookback
           b1 == Growth!HigherTrend(h) = "BULL"
           b2 == Last(h).close * Scale > Ema(h, EmaSlow)
           b3 == Last(h).low * Scale <= Ema(h, EmaFast) /\ Last(h).close * Scale > Ema(h, EmaFast)
           b4 == Last(h).low < PreviousLow(h, n) /\ Last(h).close > PreviousLow(h, n)
           b5 == RsiWithin(h, 52, 72) /\ Momentum(h) > 0
           b6 == Last(h).high > Last(h).low /\ CloseAtLeast(Last(h), 65)
           s1 == Growth!HigherTrend(g) = "BEAR"
           s2 == Last(g).close * Scale < Ema(g, EmaSlow)
           s3 == Last(g).high * Scale >= Ema(g, EmaFast) /\ Last(g).close * Scale < Ema(g, EmaFast)
           s4 == Last(g).high > PreviousHigh(g, n) /\ Last(g).close < PreviousHigh(g, n)
           s5 == RsiWithin(g, 28, 48) /\ Momentum(g) < 0
           s6 == Last(g).high > Last(g).low /\ CloseAtMost(Last(g), 35)
<1>2. Growth!BuyScore(h) = Points(b1, 20) + Points(b2, 15) + Points(b3, 15) + Points(b4, 15)
                             + Points(b5, 15) + Points(b6, 10)
  BY SameSeries, SameEma, SameMomentum, SameRsi, SameExtremes DEF Growth!BuyScore
<1>3. Growth!SellScore(g) = Points(s1, 20) + Points(s2, 15) + Points(s3, 15) + Points(s4, 15)
                              + Points(s5, 15) + Points(s6, 10)
  BY SameSeries, SameEma, SameMomentum, SameRsi, SameExtremes DEF Growth!SellScore
<1>4. b1 <=> s1
  BY TrendTurns
<1>5. (b2 <=> s2) /\ (b3 <=> s3)
  BY SidesTurn, PeriodAssumption
<1>6. b4 <=> s4
  BY <1>1, SweepsTurn, PeriodAssumption
<1>7. b5 <=> s5
  <2>1. RsiWithin(g, 100 - 72, 100 - 52) <=> RsiWithin(h, 52, 72)
    BY <1>1, RsiTurns
  <2>2. 100 - 72 = 28 /\ 100 - 52 = 48
    OBVIOUS
  <2>3. Momentum(h) > 0 <=> Momentum(g) < 0
    BY MomentumTurns
  <2>4. QED
    BY <2>1, <2>2, <2>3
<1>8. b6 <=> s6
  <2>1. 100 - 65 = 35 /\ 65 \in Int
    OBVIOUS
  <2>2. QED
    BY <2>1, PlaceTurns
<1> HIDE DEF b1, b2, b3, b4, b5, b6, s1, s2, s3, s4, s5, s6
<1>9. QED
  BY <1>2, <1>3, <1>4, <1>5, <1>6, <1>7, <1>8 DEF Points

\* The buying score of a market is the selling score of the other.
LEMMA WeeklySignalsTurn ==
  ASSUME NEW h, NEW g, Opposed(h, g), HasRsi(h), HasRsi(g), HasAtrRatio(h)
  PROVE  /\ Growth!HasIndicators(h) => Growth!BuyScore(h) = Growth!SellScore(g)
         /\ Growth!V4Direction(g) = Opposite(Growth!V4Direction(h))
<1>1. Opposed(g, h)
  BY OpposedTurns
<1>2. Growth!HasIndicators(h) <=> Growth!HasIndicators(g)
  BY <1>1, IndicatorsTurn
<1>3. Growth!VolatilityOk(h) <=> Growth!VolatilityOk(g)
  BY SameRatios DEF Growth!VolatilityOk
<1>4. Growth!HasIndicators(h) =>
        Growth!BuyScore(h) = Growth!SellScore(g) /\ Growth!SellScore(h) = Growth!BuyScore(g)
  BY <1>1, <1>2, ScoresTurn
<1>5. /\ Growth!V4BuyScore(h) = Growth!V4SellScore(g)
      /\ Growth!V4SellScore(h) = Growth!V4BuyScore(g)
  <2>1. Growth!Rated(h) <=> Growth!Rated(g)
    BY <1>2, <1>3 DEF Growth!Rated
  <2>2. CASE Growth!Rated(h)
    BY <1>4, <2>1, <2>2, SameSeries
       DEF Growth!Rated, Growth!V4BuyScore, Growth!V4SellScore, Points
  <2>3. CASE ~Growth!Rated(h)
    BY <2>1, <2>3, SameSeries DEF Growth!V4BuyScore, Growth!V4SellScore, Points
  <2>4. QED
    BY <2>2, <2>3
<1>6. Growth!V4BuyScore(h) \in Int /\ Growth!V4SellScore(h) \in Int
  <2>1. \A c : \A p \in Int : Growth!Points(c, p) \in Int
    BY DEF Growth!Points
  <2>2. Growth!BuyScore(h) \in Int /\ Growth!SellScore(h) \in Int
    BY <2>1 DEF Growth!BuyScore, Growth!SellScore
  <2>3. QED
    BY <2>1, <2>2 DEF Growth!V4BuyScore, Growth!V4SellScore
<1>7. MinSignalScore \in Int
  BY BacktestAssumption DEF Growth!ValidConfig
<1>8. Growth!V4Direction(g) = Opposite(Growth!V4Direction(h))
  <2> DEFINE buy == Growth!V4BuyScore(h)
             sell == Growth!V4SellScore(h)
  <2>1. Growth!V4Direction(h) =
          CASE buy >= MinSignalScore /\ (sell < MinSignalScore \/ buy > sell) -> "BUY"
            [] sell >= MinSignalScore /\ (buy < MinSignalScore \/ sell > buy) -> "SELL"
            [] OTHER -> "NONE"
    BY DEF Growth!V4Direction
  <2>2. Growth!V4Direction(g) =
          CASE sell >= MinSignalScore /\ (buy < MinSignalScore \/ sell > buy) -> "BUY"
            [] buy >= MinSignalScore /\ (sell < MinSignalScore \/ buy > sell) -> "SELL"
            [] OTHER -> "NONE"
    BY <1>5 DEF Growth!V4Direction
  <2>3. buy \in Int /\ sell \in Int
    BY <1>6
  <2> HIDE DEF buy, sell
  <2>4. QED
    BY <1>7, <2>1, <2>2, <2>3 DEF Opposite
<1>9. QED
  BY <1>4, <1>8

LEMMA LowerTurns ==
  ASSUME NEW h, NEW g, Opposed(h, g), HasRsi(h), HasRsi(g)
  PROVE  Growth!LowerOk(h, "BUY") <=> Growth!LowerOk(g, "SELL")
<1> DEFINE close == Last(h).close * Scale
           fast == Ema(h, LowerFast)
           slow == Ema(h, LowerSlow)
           body == Last(h).close - Last(h).open
           turnedClose == Last(g).close * Scale
           turnedFast == Ema(g, LowerFast)
           turnedSlow == Ema(g, LowerSlow)
           turnedBody == Last(g).close - Last(g).open
           c == Around * Scale
<1>1. /\ fast \in Int /\ slow \in Int
      /\ turnedFast = c - fast /\ turnedSlow = c - slow
  BY EmaTurns, BacktestAssumption DEF Growth!ValidSpans
<1>2. close \in Int /\ body \in Int /\ c \in Int /\ turnedClose = c - close /\ turnedBody = -body
  <2>1. /\ Last(h).close \in Int /\ Last(h).open \in Int
        /\ Last(g).close = Around - Last(h).close /\ Last(g).open = Around - Last(h).open
    BY LastTurns
  <2>2. Scale \in Int /\ Around \in Int
    BY PeriodAssumption, AroundType
  <2>3. QED
    BY <2>1, <2>2
<1>3. RsiWithin(g, 25, 48) <=> RsiWithin(h, 52, 75)
  <2>1. RsiWithin(g, 100 - 75, 100 - 52) <=> RsiWithin(h, 52, 75)
    BY RsiTurns
  <2>2. 100 - 75 = 25 /\ 100 - 52 = 48
    OBVIOUS
  <2>3. QED
    BY <2>1, <2>2
<1>4. /\ Growth!Toward("BUY") = 1 /\ Growth!Toward("SELL") = -1
      /\ Growth!LowerOk(h, "BUY") <=>
           /\ HasRsi(h)
           /\ Growth!Toward("BUY") * (close - fast) > 0
           /\ Growth!Toward("BUY") * (fast - slow) > 0
           /\ RsiWithin(h, 52, 75)
           /\ Growth!Toward("BUY") * body > 0
      /\ Growth!LowerOk(g, "SELL") <=>
           /\ HasRsi(g)
           /\ Growth!Toward("SELL") * (turnedClose - turnedFast) > 0
           /\ Growth!Toward("SELL") * (turnedFast - turnedSlow) > 0
           /\ RsiWithin(g, 25, 48)
           /\ Growth!Toward("SELL") * turnedBody > 0
  <2>1. Growth!Toward("BUY") = 1 /\ Growth!Toward("SELL") = -1
    BY DEF Growth!Toward
  <2>2. /\ Growth!Last(h) = Last(h) /\ Growth!Last(g) = Last(g)
        /\ Growth!Ema(h, LowerFast) = Ema(h, LowerFast) /\ Growth!Ema(h, LowerSlow) = Ema(h, LowerSlow)
        /\ Growth!Ema(g, LowerFast) = Ema(g, LowerFast) /\ Growth!Ema(g, LowerSlow) = Ema(g, LowerSlow)
    BY SameSeries, SameEma
  <2>3. /\ Growth!HasRsi(h) <=> HasRsi(h)
        /\ Growth!HasRsi(g) <=> HasRsi(g)
        /\ Growth!RsiWithin(h, 52, 75) <=> RsiWithin(h, 52, 75)
        /\ Growth!RsiWithin(g, 25, 48) <=> RsiWithin(g, 25, 48)
    BY SameRsi
  <2>4. Growth!LowerOk(h, "BUY") <=>
          /\ HasRsi(h)
          /\ Growth!Toward("BUY") * (close - fast) > 0
          /\ Growth!Toward("BUY") * (fast - slow) > 0
          /\ RsiWithin(h, 52, 75)
          /\ Growth!Toward("BUY") * body > 0
    BY <2>2, <2>3 DEF Growth!LowerOk
  <2>5. Growth!LowerOk(g, "SELL") <=>
          /\ HasRsi(g)
          /\ Growth!Toward("SELL") * (turnedClose - turnedFast) > 0
          /\ Growth!Toward("SELL") * (turnedFast - turnedSlow) > 0
          /\ RsiWithin(g, 25, 48)
          /\ Growth!Toward("SELL") * turnedBody > 0
    BY <2>2, <2>3 DEF Growth!LowerOk
  <2>6. QED
    BY <2>1, <2>4, <2>5
<1> HIDE DEF close, fast, slow, body, turnedClose, turnedFast, turnedSlow, turnedBody, c
<1>5. /\ Growth!Toward("BUY") * (close - fast) > 0
           <=> Growth!Toward("SELL") * (turnedClose - turnedFast) > 0
      /\ Growth!Toward("BUY") * (fast - slow) > 0
           <=> Growth!Toward("SELL") * (turnedFast - turnedSlow) > 0
      /\ Growth!Toward("BUY") * body > 0 <=> Growth!Toward("SELL") * turnedBody > 0
  BY <1>1, <1>2, <1>4
<1>6. HasRsi(h) /\ HasRsi(g)
  OBVIOUS
<1>7. QED
  BY ONLY <1>3, <1>4, <1>5, <1>6
-----------------------------------------------------------------------------
(* The columns of V5                                                       *)

\* Two markets that both have every column, apart from the levels.
Paired(h, g) == Opposed(h, g) /\ HasRsi(h) /\ HasRsi(g) /\ HasAtrRatio(h) /\ HasAtrRatio(g)

LEMMA PairedTurns == ASSUME NEW h, NEW g, Paired(h, g) PROVE Paired(g, h)
BY OpposedTurns DEF Paired

LEMMA AveragesOfV5 ==
  ASSUME NEW h, NEW g, Paired(h, g)
  PROVE  /\ Signals!Above(h, EmaFast) <=> Signals!Below(g, EmaFast)
         /\ Signals!Above(h, EmaSlow) <=> Signals!Below(g, EmaSlow)
         /\ Signals!Ema(h, EmaFast) > Signals!Ema(h, EmaSlow)
              <=> Signals!Ema(g, EmaFast) < Signals!Ema(g, EmaSlow)
         /\ Signals!Last(h).low * Scale <= Signals!Ema(h, EmaFast)
              <=> Signals!Last(g).high * Scale >= Signals!Ema(g, EmaFast)
         /\ Signals!Momentum(h) > 0 <=> Signals!Momentum(g) < 0
<1>1. Opposed(h, g) /\ EmaFast \in Nat \ {0} /\ EmaSlow \in Nat \ {0}
  BY PeriodAssumption DEF Paired
<1>2. /\ Last(h).close * Scale > Ema(h, EmaFast) <=> Last(g).close * Scale < Ema(g, EmaFast)
      /\ Last(h).close * Scale > Ema(h, EmaSlow) <=> Last(g).close * Scale < Ema(g, EmaSlow)
      /\ Last(h).low * Scale <= Ema(h, EmaFast) <=> Last(g).high * Scale >= Ema(g, EmaFast)
  BY <1>1, SidesTurn
<1>3. Ema(h, EmaFast) > Ema(h, EmaSlow) <=> Ema(g, EmaFast) < Ema(g, EmaSlow)
  <2>1. /\ Ema(h, EmaFast) \in Int /\ Ema(g, EmaFast) = Around * Scale - Ema(h, EmaFast)
        /\ Ema(h, EmaSlow) \in Int /\ Ema(g, EmaSlow) = Around * Scale - Ema(h, EmaSlow)
    BY <1>1, EmaTurns
  <2>2. Around * Scale \in Int
    BY AroundType, PeriodAssumption
  <2>3. QED
    BY <2>1, <2>2
<1>4. Momentum(h) > 0 <=> Momentum(g) < 0
  BY <1>1, MomentumTurns
<1>5. QED
  BY <1>2, <1>3, <1>4, SameSeries, SameEma, SameMomentum DEF Signals!Above, Signals!Below

LEMMA RsiOfV5 ==
  ASSUME NEW h, NEW g, Paired(h, g)
  PROVE  /\ Signals!Rsi(h, 52, 72) <=> Signals!Rsi(g, 28, 48)
         /\ Signals!Rsi(h, 50, 100) <=> Signals!Rsi(g, 0, 50)
         /\ Signals!Rsi(h, 0, 45) <=> Signals!Rsi(g, 55, 100)
         /\ Signals!Rsi(h, 0, 35) <=> Signals!Rsi(g, 65, 100)
         /\ Signals!Rsi(h, 58, 100) <=> Signals!Rsi(g, 0, 42)
<1>1. ASSUME NEW low \in Int, NEW high \in Int, NEW l \in Int, NEW k \in Int,
             l = 100 - high, k = 100 - low
      PROVE  Signals!Rsi(h, low, high) <=> Signals!Rsi(g, l, k)
  <2>1. RsiWithin(g, l, k) <=> RsiWithin(h, low, high)
    BY <1>1, RsiTurns DEF Paired
  <2>2. HasRsi(h) /\ HasRsi(g)
    BY DEF Paired
  <2>3. QED
    BY <2>1, <2>2, SameRsi DEF Signals!Rsi
<1>2. QED
  BY <1>1

LEMMA PlacesOfV5 ==
  ASSUME NEW h, NEW g, Paired(h, g)
  PROVE  /\ Signals!LocationAtLeast(Signals!Last(h), 65) <=> Signals!LocationAtMost(Signals!Last(g), 35)
         /\ Signals!LocationAtLeast(Signals!Last(h), 70) <=> Signals!LocationAtMost(Signals!Last(g), 30)
         /\ Signals!LocationAtLeast(Signals!Last(h), 45) <=> Signals!LocationAtMost(Signals!Last(g), 55)
         /\ Signals!LocationAtLeast(Signals!Last(h), 75) <=> Signals!LocationAtMost(Signals!Last(g), 25)
         /\ \A p : Signals!BodyAtLeast(Signals!Last(h), p) <=> Signals!BodyAtLeast(Signals!Last(g), p)
         /\ Signals!Last(h).close > Signals!Last(h).open
              <=> Signals!Last(g).close < Signals!Last(g).open
<1>1. Signals!Last(h) = Last(h) /\ Signals!Last(g) = Last(g)
  BY SameSeries
<1>2. ASSUME NEW p \in Int, NEW q \in Int, q = 100 - p
      PROVE  Signals!LocationAtLeast(Last(h), p) <=> Signals!LocationAtMost(Last(g), q)
  <2>1. /\ CloseAtMost(Last(g), q) <=> CloseAtLeast(Last(h), p)
        /\ Last(g).high > Last(g).low <=> Last(h).high > Last(h).low
    BY <1>2, PlaceTurns DEF Paired
  <2>2. p <= 50 <=> q >= 50
    BY <1>2
  <2>3. QED
    BY <2>1, <2>2, SameSeries DEF Signals!LocationAtLeast, Signals!LocationAtMost
<1> DEFINE a == Last(h).close - Last(h).open
           b == Last(h).open - Last(h).close
<1>3. /\ Last(g).close - Last(g).open = b /\ Last(g).open - Last(g).close = a
      /\ Last(g).high - Last(g).low = Last(h).high - Last(h).low
      /\ Last(g).high > Last(g).low <=> Last(h).high > Last(h).low
      /\ Last(h).close > Last(h).open <=> Last(g).close < Last(g).open
  BY LastTurns, AroundType DEF Paired
<1>4. {Last(g).close - Last(g).open, Last(g).open - Last(g).close}
        = {Last(h).close - Last(h).open, Last(h).open - Last(h).close}
  BY <1>3
<1>5. ASSUME NEW p
      PROVE  Signals!BodyAtLeast(Last(h), p) <=> Signals!BodyAtLeast(Last(g), p)
  BY <1>3, <1>4 DEF Signals!BodyAtLeast
<1>6. QED
  BY <1>1, <1>2, <1>3, <1>5

LEMMA LevelsOfV5 ==
  ASSUME NEW h, NEW g, Paired(h, g)
  PROVE  /\ Signals!HasColumns(h) <=> Signals!HasColumns(g)
         /\ Signals!AtrSum(h, Len(h)) = Signals!AtrSum(g, Len(g))
         /\ \A x : /\ Signals!AtrRatioAtLeast(h, x) <=> Signals!AtrRatioAtLeast(g, x)
                   /\ Signals!AtrRatioAtMost(h, x) <=> Signals!AtrRatioAtMost(g, x)
         /\ Signals!HasColumns(h) =>
              /\ Signals!Last(h).close > Signals!RangeHigh(h)
                   <=> Signals!Last(g).close < Signals!RangeLow(g)
              /\ Signals!Last(h).low < Signals!RangeLow(h)
                   <=> Signals!Last(g).high > Signals!RangeHigh(g)
              /\ Signals!Last(h).close > Signals!RangeLow(h)
                   <=> Signals!Last(g).close < Signals!RangeHigh(g)
              /\ Signals!Last(h).close - Signals!RangeLow(h)
                   = Signals!RangeHigh(g) - Signals!Last(g).close
              /\ Signals!RangeHigh(h) - Signals!RangeLow(h)
                   = Signals!RangeHigh(g) - Signals!RangeLow(g)
<1>1. Opposed(h, g) /\ Len(g) = Len(h) /\ Len(h) \in 1..Len(h)
  BY CandlesOf DEF Paired, Opposed
<1>2. /\ Signals!HasAtrRatio(h) /\ Signals!HasAtrRatio(g)
      /\ \A x : /\ Signals!AtrRatioAtLeast(h, x) <=> Signals!AtrRatioAtLeast(g, x)
                /\ Signals!AtrRatioAtMost(h, x) <=> Signals!AtrRatioAtMost(g, x)
  BY SameRatios DEF Paired
<1>3. Signals!HasColumns(h) <=> Signals!HasColumns(g)
  BY <1>1, <1>2 DEF Signals!HasColumns
<1>4. Signals!AtrSum(h, Len(h)) = Signals!AtrSum(g, Len(g))
  BY <1>1, AtrSumsAgree, SameSignalsAtrSum
<1>5. ASSUME Signals!HasColumns(h)
      PROVE  /\ Last(h).close > PreviousHigh(h, LiquidityLookback)
                  <=> Last(g).close < PreviousLow(g, LiquidityLookback)
             /\ Last(h).low < PreviousLow(h, LiquidityLookback)
                  <=> Last(g).high > PreviousHigh(g, LiquidityLookback)
             /\ Last(h).close > PreviousLow(h, LiquidityLookback)
                  <=> Last(g).close < PreviousHigh(g, LiquidityLookback)
             /\ Last(h).close - PreviousLow(h, LiquidityLookback)
                  = PreviousHigh(g, LiquidityLookback) - Last(g).close
             /\ PreviousHigh(h, LiquidityLookback) - PreviousLow(h, LiquidityLookback)
                  = PreviousHigh(g, LiquidityLookback) - PreviousLow(g, LiquidityLookback)
  <2>1. LiquidityLookback \in Nat \ {0} /\ Len(h) > LiquidityLookback
    BY <1>5, PeriodAssumption DEF Signals!HasColumns
  <2>2. QED
    BY <1>1, <2>1, SweepsTurn, LevelsTurn, LastTurns, AroundType
<1>6. QED
  BY <1>2, <1>3, <1>4, <1>5, SameSeries, SameLevels DEF Signals!RangeHigh, Signals!RangeLow

TurnedRegime(regime) ==
  CASE regime = "BULL_TREND" -> "BEAR_TREND" [] regime = "BEAR_TREND" -> "BULL_TREND"
    [] OTHER -> regime

LEMMA PointsOfV5 ==
  ASSUME NEW h, NEW g, Paired(h, g)
  PROVE  /\ Signals!TrendPoints(h, 1) = 3 <=> Signals!TrendPoints(g, -1) = 3
         /\ ~(Signals!TrendPoints(h, 1) = 3 /\ Signals!TrendPoints(h, -1) = 3)
<1> DEFINE fast == Ema(h, EmaFast)
           slow == Ema(h, EmaSlow)
           close == Last(h).close * Scale
           m == Momentum(h)
           turnedFast == Ema(g, EmaFast)
           turnedSlow == Ema(g, EmaSlow)
           turnedClose == Last(g).close * Scale
           turnedM == Momentum(g)
           c == Around * Scale
<1>1. Opposed(h, g)
  BY DEF Paired
<1>2. fast \in Int /\ slow \in Int /\ turnedFast = c - fast /\ turnedSlow = c - slow
  BY <1>1, EmaTurns, PeriodAssumption
<1>3. c \in Int /\ close \in Int /\ turnedClose = c - close
  <2>1. Last(h).close \in Int /\ Last(g).close = Around - Last(h).close
    BY <1>1, LastTurns
  <2>2. QED
    BY <2>1, AroundType, PeriodAssumption
<1>4. m \in Int /\ turnedM = -m
  BY <1>1, MomentumTurns
<1>5. \A sign \in {1, -1} :
        /\ Signals!TrendPoints(h, sign) =
             (IF sign * (fast - slow) > 0 THEN 1 ELSE 0)
             + (IF sign * (close - fast) > 0 THEN 1 ELSE 0) + (IF sign * m > 0 THEN 1 ELSE 0)
        /\ Signals!TrendPoints(g, sign) =
             (IF sign * (turnedFast - turnedSlow) > 0 THEN 1 ELSE 0)
             + (IF sign * (turnedClose - turnedFast) > 0 THEN 1 ELSE 0)
             + (IF sign * turnedM > 0 THEN 1 ELSE 0)
  BY SameEma, SameMomentum, SameSeries DEF Signals!TrendPoints, Signals!Points
<1> HIDE DEF fast, slow, close, m, turnedFast, turnedSlow, turnedClose, turnedM, c
<1>6. /\ Signals!TrendPoints(h, 1) = 3 <=> fast > slow /\ close > fast /\ m > 0
      /\ Signals!TrendPoints(h, -1) = 3 <=> fast < slow /\ close < fast /\ m < 0
  BY <1>2, <1>3, <1>4, <1>5
<1>7. Signals!TrendPoints(g, -1) = 3
        <=> turnedFast < turnedSlow /\ turnedClose < turnedFast /\ turnedM < 0
  BY <1>2, <1>3, <1>4, <1>5
<1>8. QED
  BY <1>2, <1>3, <1>4, <1>6, <1>7

LEMMA RegimeTurns ==
  ASSUME NEW h, NEW g, Paired(h, g)
  PROVE  /\ Signals!Regime(g) = TurnedRegime(Signals!Regime(h))
         /\ Signals!Regime(h) \in {"BULL_TREND", "BEAR_TREND", "RANGE"} => Signals!HasColumns(h)
<1> DEFINE up(x) == Signals!TrendPoints(x, 1) = 3
           down(x) == Signals!TrendPoints(x, -1) = 3
           narrow(x) == AtrPeriod * (Signals!RangeHigh(x) - Signals!RangeLow(x))
                          < 6 * Signals!AtrSum(x, Len(x))
           rest(x) == IF ~Signals!AtrRatioAtLeast(x, 70) THEN "VOLATILITY_COMPRESSION"
                      ELSE IF ~Signals!AtrRatioAtMost(x, 150) THEN "VOLATILITY_EXPANSION"
                      ELSE IF narrow(x) THEN "RANGE" ELSE "TRANSITION"
           regime(x) == CASE ~Signals!HasColumns(x) -> "TRANSITION"
                          [] Signals!HasColumns(x) /\ up(x) /\ Signals!AtrRatioAtLeast(x, 85) ->
                               "BULL_TREND"
                          [] Signals!HasColumns(x) /\ down(x) /\ Signals!AtrRatioAtLeast(x, 85) ->
                               "BEAR_TREND"
                          [] OTHER -> rest(x)
<1>1. Signals!Regime(h) = regime(h) /\ Signals!Regime(g) = regime(g)
  BY DEF Signals!Regime
<1>2. /\ up(h) <=> down(g)
      /\ down(h) <=> up(g)
      /\ ~(up(h) /\ down(h))
  BY PointsOfV5, PairedTurns
<1>3. /\ Signals!HasColumns(h) <=> Signals!HasColumns(g)
      /\ \A x : /\ Signals!AtrRatioAtLeast(h, x) <=> Signals!AtrRatioAtLeast(g, x)
                /\ Signals!AtrRatioAtMost(h, x) <=> Signals!AtrRatioAtMost(g, x)
      /\ Signals!HasColumns(h) => (narrow(h) <=> narrow(g))
  BY LevelsOfV5
<1> HIDE DEF up, down, narrow
<1>4. Signals!HasColumns(h) => rest(g) = rest(h)
  BY <1>3
<1>5. rest(h) \in {"VOLATILITY_COMPRESSION", "VOLATILITY_EXPANSION", "RANGE", "TRANSITION"}
  OBVIOUS
<1> HIDE DEF rest
<1>6. CASE ~Signals!HasColumns(h)
  BY <1>1, <1>3, <1>6 DEF TurnedRegime
<1>7. CASE Signals!HasColumns(h) /\ up(h) /\ Signals!AtrRatioAtLeast(h, 85)
  <2>1. regime(h) = "BULL_TREND"
    BY <1>2, <1>7
  <2>2. regime(g) = "BEAR_TREND"
    BY <1>2, <1>3, <1>7
  <2>3. QED
    BY <1>1, <1>7, <2>1, <2>2 DEF TurnedRegime
<1>8. CASE Signals!HasColumns(h) /\ down(h) /\ Signals!AtrRatioAtLeast(h, 85)
  <2>1. regime(h) = "BEAR_TREND"
    BY <1>2, <1>8
  <2>2. regime(g) = "BULL_TREND"
    BY <1>2, <1>3, <1>8
  <2>3. QED
    BY <1>1, <1>8, <2>1, <2>2 DEF TurnedRegime
<1>9. CASE /\ Signals!HasColumns(h)
           /\ ~(up(h) /\ Signals!AtrRatioAtLeast(h, 85))
           /\ ~(down(h) /\ Signals!AtrRatioAtLeast(h, 85))
  <2>1. regime(h) = rest(h)
    BY <1>9
  <2>2. regime(g) = rest(g)
    BY <1>2, <1>3, <1>9
  <2>3. TurnedRegime(rest(h)) = rest(h)
    BY <1>5 DEF TurnedRegime
  <2>4. QED
    BY <1>1, <1>4, <1>9, <2>1, <2>2, <2>3
<1>10. QED
  BY <1>6, <1>7, <1>8, <1>9

-----------------------------------------------------------------------------
(* The families of V5                                                      *)

LEMMA DirectionReplaced ==
  ASSUME NEW d, NEW e, NEW s
  PROVE  [[direction |-> d, score |-> s] EXCEPT !.direction = e] = [direction |-> e, score |-> s]
<1> DEFINE p == [direction |-> d, score |-> s]
<1>1. p \in [direction : {d, e}, score : {s}] /\ p.score = s
  OBVIOUS
<1> HIDE DEF p
<1>2. [p EXCEPT !.direction = e] = [direction |-> e, score |-> s]
  BY <1>1
<1>3. QED
  BY <1>2 DEF p

\* A family is a buying half and a selling half; turned round they change
\* places.
LEMMA HalvesTurn ==
  ASSUME NEW a \in BOOLEAN, NEW b \in BOOLEAN, NEW c \in BOOLEAN, NEW d \in BOOLEAN,
         NEW w, NEW x, NEW y, NEW z, a <=> d, b <=> c, w = z, x = y
  PROVE  Signals!Signal(c, "BUY", y) \cup Signals!Signal(d, "SELL", z)
           = Turned(Signals!Signal(a, "BUY", w) \cup Signals!Signal(b, "SELL", x))
<1>1. Turned(Signals!Signal(a, "BUY", w) \cup Signals!Signal(b, "SELL", x))
        = Turned(Signals!Signal(a, "BUY", w)) \cup Turned(Signals!Signal(b, "SELL", x))
  BY DEF Turned
<1>2. /\ [[direction |-> "BUY", score |-> w] EXCEPT !.direction = Opposite(@)]
           = [direction |-> "SELL", score |-> w]
      /\ [[direction |-> "SELL", score |-> x] EXCEPT !.direction = Opposite(@)]
           = [direction |-> "BUY", score |-> x]
  <2>1. Opposite("BUY") = "SELL" /\ Opposite("SELL") = "BUY"
    BY DEF Opposite
  <2>2. /\ [direction |-> "BUY", score |-> w].direction = "BUY"
        /\ [direction |-> "SELL", score |-> x].direction = "SELL"
    OBVIOUS
  <2>3. /\ [[direction |-> "BUY", score |-> w] EXCEPT !.direction = "SELL"]
             = [direction |-> "SELL", score |-> w]
        /\ [[direction |-> "SELL", score |-> x] EXCEPT !.direction = "BUY"]
             = [direction |-> "BUY", score |-> x]
    BY DirectionReplaced
  <2>4. QED
    BY <2>1, <2>2, <2>3
<1>3. /\ Turned({[direction |-> "BUY", score |-> w]}) = {[direction |-> "SELL", score |-> w]}
      /\ Turned({[direction |-> "SELL", score |-> x]}) = {[direction |-> "BUY", score |-> x]}
      /\ Turned({}) = {}
  BY <1>2 DEF Turned
<1>4. QED
  BY <1>1, <1>3 DEF Signals!Signal

LEMMA RegimesTurn ==
  \A r, q : q = TurnedRegime(r) =>
    /\ r = "BULL_TREND" <=> q = "BEAR_TREND"
    /\ r = "BEAR_TREND" <=> q = "BULL_TREND"
    /\ r = "RANGE" <=> q = "RANGE"
    /\ r = "VOLATILITY_EXPANSION" <=> q = "VOLATILITY_EXPANSION"
BY DEF TurnedRegime

LEMMA TrendContinuationTurns ==
  ASSUME NEW h, NEW g, Paired(h, g), NEW r, NEW q, q = TurnedRegime(r)
  PROVE  Signals!TrendContinuation(g, q) = Turned(Signals!TrendContinuation(h, r))
<1> DEFINE buy(x, p) ==
             /\ p = "BULL_TREND" /\ Signals!Above(x, EmaFast)
             /\ Signals!Ema(x, EmaFast) > Signals!Ema(x, EmaSlow)
             /\ Signals!Rsi(x, 52, 72) /\ Signals!Momentum(x) > 0
           sell(x, p) ==
             /\ p = "BEAR_TREND" /\ Signals!Below(x, EmaFast)
             /\ Signals!Ema(x, EmaFast) < Signals!Ema(x, EmaSlow)
             /\ Signals!Rsi(x, 28, 48) /\ Signals!Momentum(x) < 0
           up(x, p) == 70 + Signals!Points(Signals!LocationAtLeast(Signals!Last(x), 65), 10)
           down(x, p) == 70 + Signals!Points(Signals!LocationAtMost(Signals!Last(x), 35), 10)
           a == buy(h, r)
           b == sell(h, r)
           c == buy(g, q)
           d == sell(g, q)
<1>1. /\ Signals!TrendContinuation(h, r)
           = Signals!Signal(a, "BUY", up(h, r)) \cup Signals!Signal(b, "SELL", down(h, r))
      /\ Signals!TrendContinuation(g, q)
           = Signals!Signal(c, "BUY", up(g, q)) \cup Signals!Signal(d, "SELL", down(g, q))
  BY DEF Signals!TrendContinuation
<1>2. ASSUME NEW x, NEW y, Paired(x, y), NEW p, NEW s, p = "BULL_TREND" <=> s = "BEAR_TREND"
      PROVE  (buy(x, p) <=> sell(y, s)) /\ up(x, p) = down(y, s)
  BY <1>2, AveragesOfV5, RsiOfV5, PlacesOfV5 DEF Signals!Points
<1>3. (a <=> d) /\ (c <=> b) /\ up(h, r) = down(g, q) /\ up(g, q) = down(h, r)
  <2> HIDE DEF buy, sell, up, down
  <2>1. QED
    BY <1>2, PairedTurns, RegimesTurn
<1>4. a \in BOOLEAN /\ b \in BOOLEAN /\ c \in BOOLEAN /\ d \in BOOLEAN
  OBVIOUS
<1> HIDE DEF a, b, c, d, up, down
<1>5. QED
  BY <1>1, <1>3, <1>4, HalvesTurn

LEMMA PullbackRetestTurns ==
  ASSUME NEW h, NEW g, Paired(h, g), NEW r, NEW q, q = TurnedRegime(r)
  PROVE  Signals!PullbackRetest(g, q) = Turned(Signals!PullbackRetest(h, r))
<1> DEFINE buy(x, p) ==
             /\ p = "BULL_TREND" /\ Signals!Last(x).low * Scale <= Signals!Ema(x, EmaFast)
             /\ Signals!Above(x, EmaFast) /\ Signals!Above(x, EmaSlow) /\ Signals!Rsi(x, 50, 100)
           sell(x, p) ==
             /\ p = "BEAR_TREND" /\ Signals!Last(x).high * Scale >= Signals!Ema(x, EmaFast)
             /\ Signals!Below(x, EmaFast) /\ Signals!Below(x, EmaSlow) /\ Signals!Rsi(x, 0, 50)
           up(x, p) == 75 + Signals!Points(Signals!LocationAtLeast(Signals!Last(x), 65), 10)
           down(x, p) == 75 + Signals!Points(Signals!LocationAtMost(Signals!Last(x), 35), 10)
           a == buy(h, r)
           b == sell(h, r)
           c == buy(g, q)
           d == sell(g, q)
<1>1. /\ Signals!PullbackRetest(h, r)
           = Signals!Signal(a, "BUY", up(h, r)) \cup Signals!Signal(b, "SELL", down(h, r))
      /\ Signals!PullbackRetest(g, q)
           = Signals!Signal(c, "BUY", up(g, q)) \cup Signals!Signal(d, "SELL", down(g, q))
  BY DEF Signals!PullbackRetest
<1>2. ASSUME NEW x, NEW y, Paired(x, y), NEW p, NEW s, p = "BULL_TREND" <=> s = "BEAR_TREND"
      PROVE  (buy(x, p) <=> sell(y, s)) /\ up(x, p) = down(y, s)
  BY <1>2, AveragesOfV5, RsiOfV5, PlacesOfV5 DEF Signals!Points
<1>3. (a <=> d) /\ (c <=> b) /\ up(h, r) = down(g, q) /\ up(g, q) = down(h, r)
  <2> HIDE DEF buy, sell, up, down
  <2>1. QED
    BY <1>2, PairedTurns, RegimesTurn
<1>4. a \in BOOLEAN /\ b \in BOOLEAN /\ c \in BOOLEAN /\ d \in BOOLEAN
  OBVIOUS
<1> HIDE DEF a, b, c, d, up, down
<1>5. QED
  BY <1>1, <1>3, <1>4, HalvesTurn

LEMMA BreakoutTurns ==
  ASSUME NEW h, NEW g, Paired(h, g), NEW r, NEW q, q = TurnedRegime(r)
  PROVE  Signals!Breakout(g, q) = Turned(Signals!Breakout(h, r))
<1> DEFINE buy(x, p) ==
             /\ Signals!HasColumns(x) /\ Signals!Last(x).close > Signals!RangeHigh(x)
             /\ Signals!BodyAtLeast(Signals!Last(x), 50)
             /\ Signals!LocationAtLeast(Signals!Last(x), 70) /\ Signals!AtrRatioAtLeast(x, 100)
           sell(x, p) ==
             /\ Signals!HasColumns(x) /\ Signals!Last(x).close < Signals!RangeLow(x)
             /\ Signals!BodyAtLeast(Signals!Last(x), 50)
             /\ Signals!LocationAtMost(Signals!Last(x), 30) /\ Signals!AtrRatioAtLeast(x, 100)
           up(x, p) == 75 + Signals!Points(p \in {"BULL_TREND", "VOLATILITY_EXPANSION"}, 10)
           down(x, p) == 75 + Signals!Points(p \in {"BEAR_TREND", "VOLATILITY_EXPANSION"}, 10)
           a == buy(h, r)
           b == sell(h, r)
           c == buy(g, q)
           d == sell(g, q)
<1>1. /\ Signals!Breakout(h, r)
           = Signals!Signal(a, "BUY", up(h, r)) \cup Signals!Signal(b, "SELL", down(h, r))
      /\ Signals!Breakout(g, q)
           = Signals!Signal(c, "BUY", up(g, q)) \cup Signals!Signal(d, "SELL", down(g, q))
  BY DEF Signals!Breakout
<1>2. ASSUME NEW x, NEW y, Paired(x, y), NEW p, NEW s, p = "BULL_TREND" <=> s = "BEAR_TREND",
             p = "VOLATILITY_EXPANSION" <=> s = "VOLATILITY_EXPANSION"
      PROVE  (buy(x, p) <=> sell(y, s)) /\ up(x, p) = down(y, s)
  BY <1>2, LevelsOfV5, PlacesOfV5 DEF Signals!Points
<1>3. (a <=> d) /\ (c <=> b) /\ up(h, r) = down(g, q) /\ up(g, q) = down(h, r)
  <2> HIDE DEF buy, sell, up, down
  <2>1. QED
    BY <1>2, PairedTurns, RegimesTurn
<1>4. a \in BOOLEAN /\ b \in BOOLEAN /\ c \in BOOLEAN /\ d \in BOOLEAN
  OBVIOUS
<1> HIDE DEF a, b, c, d, up, down
<1>5. QED
  BY <1>1, <1>3, <1>4, HalvesTurn

LEMMA LiquidityReversalTurns ==
  ASSUME NEW h, NEW g, Paired(h, g), NEW r, NEW q, q = TurnedRegime(r)
  PROVE  Signals!LiquidityReversal(g, q) = Turned(Signals!LiquidityReversal(h, r))
<1> DEFINE buy(x, p) ==
             /\ Signals!HasColumns(x) /\ Signals!Last(x).low < Signals!RangeLow(x)
             /\ Signals!Last(x).close > Signals!RangeLow(x)
             /\ Signals!LocationAtLeast(Signals!Last(x), 65)
           sell(x, p) ==
             /\ Signals!HasColumns(x) /\ Signals!Last(x).high > Signals!RangeHigh(x)
             /\ Signals!Last(x).close < Signals!RangeHigh(x)
             /\ Signals!LocationAtMost(Signals!Last(x), 35)
           up(x, p) == 70 + Signals!Points(Signals!Rsi(x, 0, 45), 10)
           down(x, p) == 70 + Signals!Points(Signals!Rsi(x, 55, 100), 10)
           a == buy(h, r)
           b == sell(h, r)
           c == buy(g, q)
           d == sell(g, q)
<1>1. /\ Signals!LiquidityReversal(h, r)
           = Signals!Signal(a, "BUY", up(h, r)) \cup Signals!Signal(b, "SELL", down(h, r))
      /\ Signals!LiquidityReversal(g, q)
           = Signals!Signal(c, "BUY", up(g, q)) \cup Signals!Signal(d, "SELL", down(g, q))
  BY DEF Signals!LiquidityReversal
<1>2. ASSUME NEW x, NEW y, Paired(x, y), NEW p, NEW s, TRUE
      PROVE  (buy(x, p) <=> sell(y, s)) /\ up(x, p) = down(y, s)
  BY <1>2, LevelsOfV5, PlacesOfV5, RsiOfV5 DEF Signals!Points
<1>3. (a <=> d) /\ (c <=> b) /\ up(h, r) = down(g, q) /\ up(g, q) = down(h, r)
  <2> HIDE DEF buy, sell, up, down
  <2>1. QED
    BY <1>2, PairedTurns, RegimesTurn
<1>4. a \in BOOLEAN /\ b \in BOOLEAN /\ c \in BOOLEAN /\ d \in BOOLEAN
  OBVIOUS
<1> HIDE DEF a, b, c, d, up, down
<1>5. QED
  BY <1>1, <1>3, <1>4, HalvesTurn

LEMMA RangeMeanReversionTurns ==
  ASSUME NEW h, NEW g, Paired(h, g), NEW r, NEW q, q = TurnedRegime(r),
         r = "RANGE" => Signals!HasColumns(h)
  PROVE  Signals!RangeMeanReversion(g, q) = Turned(Signals!RangeMeanReversion(h, r))
<1> DEFINE buy(x, p) ==
             /\ p = "RANGE"
             /\ 4 * AtrPeriod * (Signals!Last(x).close - Signals!RangeLow(x)) <= 3 * Signals!AtrSum(x, Len(x))
             /\ Signals!Rsi(x, 0, 35) /\ Signals!LocationAtLeast(Signals!Last(x), 45)
           sell(x, p) ==
             /\ p = "RANGE"
             /\ 4 * AtrPeriod * (Signals!RangeHigh(x) - Signals!Last(x).close) <= 3 * Signals!AtrSum(x, Len(x))
             /\ Signals!Rsi(x, 65, 100) /\ Signals!LocationAtMost(Signals!Last(x), 55)
           up(x, p) == 75
           down(x, p) == 75
           a == buy(h, r)
           b == sell(h, r)
           c == buy(g, q)
           d == sell(g, q)
<1>1. /\ Signals!RangeMeanReversion(h, r)
           = Signals!Signal(a, "BUY", up(h, r)) \cup Signals!Signal(b, "SELL", down(h, r))
      /\ Signals!RangeMeanReversion(g, q)
           = Signals!Signal(c, "BUY", up(g, q)) \cup Signals!Signal(d, "SELL", down(g, q))
  BY DEF Signals!RangeMeanReversion
<1>2. ASSUME NEW x, NEW y, Paired(x, y), NEW p, NEW s, p = "RANGE" <=> s = "RANGE",
             p = "RANGE" => Signals!HasColumns(x)
      PROVE  (buy(x, p) <=> sell(y, s)) /\ up(x, p) = down(y, s)
  BY <1>2, LevelsOfV5, PlacesOfV5, RsiOfV5 DEF Signals!Points
<1>3. (a <=> d) /\ (c <=> b) /\ up(h, r) = down(g, q) /\ up(g, q) = down(h, r)
  <2>1. q = "RANGE" => Signals!HasColumns(g)
    BY RegimesTurn, LevelsOfV5
  <2> HIDE DEF buy, sell, up, down
  <2>2. (r = "RANGE" <=> q = "RANGE") /\ Paired(g, h)
    BY RegimesTurn, PairedTurns
  <2>3. (buy(h, r) <=> sell(g, q)) /\ up(h, r) = down(g, q)
    BY ONLY <1>2, <2>2, Paired(h, g), r = "RANGE" => Signals!HasColumns(h)
  <2>4. (buy(g, q) <=> sell(h, r)) /\ up(g, q) = down(h, r)
    BY ONLY <1>2, <2>1, <2>2
  <2>5. QED
    BY <2>3, <2>4
<1>4. a \in BOOLEAN /\ b \in BOOLEAN /\ c \in BOOLEAN /\ d \in BOOLEAN
  OBVIOUS
<1> HIDE DEF a, b, c, d, up, down
<1>5. QED
  BY <1>1, <1>3, <1>4, HalvesTurn

LEMMA MomentumExpansionTurns ==
  ASSUME NEW h, NEW g, Paired(h, g), NEW r, NEW q, q = TurnedRegime(r)
  PROVE  Signals!MomentumExpansion(g, q) = Turned(Signals!MomentumExpansion(h, r))
<1> DEFINE buy(x, p) ==
             /\ p = "VOLATILITY_EXPANSION" /\ Signals!Last(x).close > Signals!Last(x).open
             /\ Signals!BodyAtLeast(Signals!Last(x), 60) /\ Signals!LocationAtLeast(Signals!Last(x), 75)
             /\ Signals!Rsi(x, 58, 100) /\ Signals!Momentum(x) > 0
           sell(x, p) ==
             /\ p = "VOLATILITY_EXPANSION" /\ Signals!Last(x).close < Signals!Last(x).open
             /\ Signals!BodyAtLeast(Signals!Last(x), 60) /\ Signals!LocationAtMost(Signals!Last(x), 25)
             /\ Signals!Rsi(x, 0, 42) /\ Signals!Momentum(x) < 0
           up(x, p) == 80
           down(x, p) == 80
           a == buy(h, r)
           b == sell(h, r)
           c == buy(g, q)
           d == sell(g, q)
<1>1. /\ Signals!MomentumExpansion(h, r)
           = Signals!Signal(a, "BUY", up(h, r)) \cup Signals!Signal(b, "SELL", down(h, r))
      /\ Signals!MomentumExpansion(g, q)
           = Signals!Signal(c, "BUY", up(g, q)) \cup Signals!Signal(d, "SELL", down(g, q))
  BY DEF Signals!MomentumExpansion
<1>2. ASSUME NEW x, NEW y, Paired(x, y), NEW p, NEW s, p = "VOLATILITY_EXPANSION" <=> s = "VOLATILITY_EXPANSION"
      PROVE  (buy(x, p) <=> sell(y, s)) /\ up(x, p) = down(y, s)
  BY <1>2, AveragesOfV5, PlacesOfV5, RsiOfV5 DEF Signals!Points
<1>3. (a <=> d) /\ (c <=> b) /\ up(h, r) = down(g, q) /\ up(g, q) = down(h, r)
  <2> HIDE DEF buy, sell, up, down
  <2>1. QED
    BY <1>2, PairedTurns, RegimesTurn
<1>4. a \in BOOLEAN /\ b \in BOOLEAN /\ c \in BOOLEAN /\ d \in BOOLEAN
  OBVIOUS
<1> HIDE DEF a, b, c, d, up, down
<1>5. QED
  BY <1>1, <1>3, <1>4, HalvesTurn

LEMMA FamiliesTurn ==
  ASSUME NEW h, NEW g, Paired(h, g)
  PROVE  \A f \in Signals!Families :
           Signals!EvaluateRow(g)[f] = Turned(Signals!EvaluateRow(h)[f])
<1> DEFINE r == Signals!Regime(h)
           q == Signals!Regime(g)
<1>1. q = TurnedRegime(r) /\ (r = "RANGE" => Signals!HasColumns(h))
  BY RegimeTurns
<1> HIDE DEF r, q
<1>2. /\ Signals!TrendContinuation(g, q) = Turned(Signals!TrendContinuation(h, r))
      /\ Signals!PullbackRetest(g, q) = Turned(Signals!PullbackRetest(h, r))
      /\ Signals!Breakout(g, q) = Turned(Signals!Breakout(h, r))
      /\ Signals!LiquidityReversal(g, q) = Turned(Signals!LiquidityReversal(h, r))
      /\ Signals!RangeMeanReversion(g, q) = Turned(Signals!RangeMeanReversion(h, r))
      /\ Signals!MomentumExpansion(g, q) = Turned(Signals!MomentumExpansion(h, r))
  BY <1>1, TrendContinuationTurns, PullbackRetestTurns, BreakoutTurns, LiquidityReversalTurns,
     RangeMeanReversionTurns, MomentumExpansionTurns
<1>3. /\ Signals!EvaluateRow(h) =
           [trend |-> Signals!TrendContinuation(h, r), pullback |-> Signals!PullbackRetest(h, r),
            breakout |-> Signals!Breakout(h, r), reversal |-> Signals!LiquidityReversal(h, r),
            range |-> Signals!RangeMeanReversion(h, r), momentum |-> Signals!MomentumExpansion(h, r)]
      /\ Signals!EvaluateRow(g) =
           [trend |-> Signals!TrendContinuation(g, q), pullback |-> Signals!PullbackRetest(g, q),
            breakout |-> Signals!Breakout(g, q), reversal |-> Signals!LiquidityReversal(g, q),
            range |-> Signals!RangeMeanReversion(g, q), momentum |-> Signals!MomentumExpansion(g, q)]
  BY DEF Signals!EvaluateRow, r, q
<1>4. QED
  BY <1>2, <1>3 DEF Signals!Families

-----------------------------------------------------------------------------
(* The theorems                                                            *)

\* The stop of a position that stays open never moves against the trade, by
\* any of the rules of the five engines, in any order the candles make them
\* apply (run_weekly_growth_v3_research.py:148-270, v5_execution_engine.py:
\* 921-1064, backtest_engine.py:1690-1945).
THEOREM NoStopLoosens == Spec => StopsNeverLoosen
<1>1. BacktestInv /\ [Next]_vars =>
        [position # None /\ position' # None /\ position.opened = position'.opened =>
           Toward(position.direction) * (position'.stop - position.stop) >= 0]_vars
  BY EveryEngineSteps DEF StopKept
<1>2. QED
  BY <1>1, EveryRunIsSound, PTL DEF Spec, StopsNeverLoosen

\* The balance is the initial one, the pnl of every closed trade counted once,
\* and what the partial exit of the open position has earned, in all five
\* engines, whatever the market does (_close_position, backtest_engine.py:
\* 2286-2442; the exits of V5 and of the weekly strategies).
THEOREM BalanceIsBooked == Spec => []BalanceIsWhatWasTraded
<1>1. BacktestInv => BalanceIsWhatWasTraded
  <2> SUFFICES ASSUME BacktestInv PROVE BalanceIsWhatWasTraded
    OBVIOUS
  <2>1. CASE engine = "production"
    <3>1. balance = StartBalance + PnlSum(trades) + EarnedBy(position)
      BY <2>1 DEF BacktestInv, ProdInv
    <3>2. EarnedBy(position) = Realized
      BY <2>1 DEF EarnedBy, Realized
    <3>3. QED
      BY <3>1, <3>2 DEF BalanceIsWhatWasTraded
  <2>2. CASE engine # "production"
    <3>1. balance = StartBalance + PnlSum(trades) /\ balance \in Int
      BY <2>2 DEF BacktestInv, GrowthInv, GrowthBooks, V5Inv
    <3>2. Realized = 0
      BY <2>2 DEF Realized
    <3> DEFINE sum == StartBalance + PnlSum(trades)
    <3>3. balance = sum
      BY <3>1
    <3> HIDE DEF sum
    <3>4. balance = sum + Realized
      BY <3>1, <3>2, <3>3
    <3>5. QED
      BY <3>4 DEF BalanceIsWhatWasTraded, sum
  <2>3. QED
    BY <2>1, <2>2
<1>2. QED
  BY <1>1, EveryRunIsSound, PTL

\* The weekly report is a second set of books of the same trades: each week
\* begins with what the one before ended with, and no trade, win or loss is
\* in two weeks or in none (run_weekly_growth_backtest.py:1684-1756).
THEOREM WeeklyReportAddsUp == Spec => []WeeksAddUp
<1>1. BacktestInv => WeeksAddUp
  <2> SUFFICES ASSUME BacktestInv, Weekly, periods # <<>> PROVE WeeksAddUp
    BY DEF WeeksAddUp
  <2>1. WeekBooks
    BY DEF BacktestInv, Weekly, WeeklyEngines, GrowthInv, GrowthBooks
  <2>2. Growth!Won = Winners(trades) /\ Growth!Lost = Losers(trades)
    BY DEF Growth!Won, Growth!Lost, Winners, Losers
  <2>3. QED
    BY <2>1, <2>2 DEF WeekBooks, WeeksAddUp, TradeCount, WinCount, LossCount
<1>2. QED
  BY <1>1, EveryRunIsSound, PTL

\* No weekly engine enters in a week that had lost its limit or won its target
\* when the entry was made, and no week has more entries than it may, whatever
\* the weeks in which the trades that made the result were opened
\* (run_weekly_growth_backtest.py:1318-1363, v5_execution_engine.py:1515-1567).
THEOREM WeeksAreLimited == Spec => []WeeklyLimitsHold
<1>1. BacktestInv /\ LimitsInv => WeeklyLimitsHold
  BY DEF LimitsInv, GrowthLimits, V5Limits, LimitsAreWithin, Within, WeeklyLimitsHold, Weekly
<1>2. QED
  BY <1>1, EveryRunIsSound, EveryRunIsWithin, PTL

\* No result of the production engine is better than the market was: a trade
\* closes at a price of its last candle, wherever candles gap to, and what its
\* partial exit and its close earn together is no more than all of it would
\* have earned at the best price of one candle it was held over
\* (backtest_engine.py:1545-1680, 1742-1759 and 1972-1989).
THEOREM NoTradeIsFlattered == Spec => []TradesAreAttainable
<1>1. BacktestInv => TradesAreAttainable
  <2> SUFFICES ASSUME BacktestInv, engine = "production", NEW i \in DOMAIN trades
               PROVE  /\ candles[trades[i].closed].low <= trades[i].exit
                      /\ trades[i].exit <= candles[trades[i].closed].high
                      /\ \E k \in trades[i].opened..trades[i].closed :
                           trades[i].pnl <= AtBest(trades[i], candles[k])
    BY DEF TradesAreAttainable
  <2>1. i \in 1..Len(trades) /\ TradesAreReachable(trades, candles)
    BY DEF BacktestInv, ProdInv
  <2>2. QED
    BY <2>1 DEF TradesAreReachable
<1>2. QED
  BY <1>1, EveryRunIsSound, PTL

\* The worst fall the production engine reports covers every fall between two
\* balances of the finished run, the close at the end of the data included
\* (backtest_engine.py:971-1018 and 1319-1395).
THEOREM WorstFallIsReported == Spec => []DrawdownIsCovered
<1>1. BacktestInv => DrawdownIsCovered
  <2> SUFFICES ASSUME BacktestInv, engine = "production",
                      NEW k \in 0..Len(trades), NEW j \in 0..Len(trades), j <= k
               PROVE  drawdown >= After(trades, j) - After(trades, k)
    BY DEF DrawdownIsCovered, After
  <2>1. Covered(trades, peak, drawdown)
    BY DEF BacktestInv, ProdInv
  <2>2. QED
    BY <2>1 DEF Covered
<1>2. QED
  BY <1>1, EveryRunIsSound, PTL

\* A market turned upside down gives the weekly strategies and the six families
\* of V5 the opposite signals, for every market, every length of history and
\* every period and threshold: of all the pairs of conditions that the scripts
\* write out twice, none has a wrong sign or bound
\* (run_weekly_growth_backtest.py:664-765, run_weekly_growth_v4_research.py:
\* 584-738 and 850-920, v5_strategy_engine.py:494-987).
THEOREM SignalsTurnRound == Spec => []SignalsAreSymmetric
<1>1. BacktestInv => SignalsAreSymmetric
  <2> DEFINE other == Mirrored(candles, StartPrice)
  <2> SUFFICES ASSUME BacktestInv, engine = "v1", HasRsi(candles), HasRsi(other),
                      HasAtrRatio(candles)
               PROVE  /\ Growth!HasIndicators(candles) =>
                           Growth!BuyScore(candles) = Growth!SellScore(other)
                      /\ Growth!V4Direction(other) = Opposite(Growth!V4Direction(candles))
                      /\ Growth!LowerOk(candles, "BUY") <=> Growth!LowerOk(other, "SELL")
                      /\ \A f \in Signals!Families :
                           Signals!EvaluateRow(other)[f] = Turned(Signals!EvaluateRow(candles)[f])
    BY DEF SignalsAreSymmetric
  <2>1. candles \in Histories
    BY DEF BacktestInv, WeeklyEngines, GrowthInv
  <2>2. Opposed(candles, other)
    BY <2>1, MirrorIsOpposed
  <2>3. Len(other) = Len(candles)
    BY <2>2 DEF Opposed
  <2>4. Paired(candles, other)
    BY <2>2, <2>3 DEF Paired, HasAtrRatio
  <2> HIDE DEF other
  <2>5. QED
    BY <2>2, <2>4, WeeklySignalsTurn, LowerTurns, FamiliesTurn
<1>2. QED
  BY <1>1, EveryRunIsSound, PTL

=============================================================================
