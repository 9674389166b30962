------------------------ MODULE PaperPipeline_proofs ------------------------
(***************************************************************************)
(* Theorems about the paper account, the worker that opens positions on it *)
(* and the journal of the demo engine, for every market and any number of  *)
(* positions and days.                                                     *)
(*                                                                         *)
(* PipelineInv: the types; the rows of booked pnl and the positions tell   *)
(* the same realised money (RealizedIsBooked); and every demo trade that   *)
(* is open, or about to be, has its row (JournalInv).  The bound on what   *)
(* the worker risks needs the types only, the type of a smoothed average   *)
(* among them.  That an assessment has two symmetric sides is followed     *)
(* from the rounding of a quotient through every indicator.                *)
(***************************************************************************)
EXTENDS PaperPipeline, FoldTheorems

-----------------------------------------------------------------------------
(* Types                                                                   *)

Candle ==
  {c \in [open : Int, close : Int, high : Int, low : Int, volume : Int] : c.low <= c.high}

Windows == {s \in Seq(Candle) : Len(s) = MinimumCandles}

Position ==
  [status : {"none", "open", "closed"}, direction : {"BUY", "SELL"}, entry : Int, risk : Int,
   volume : Int, left : Int, pnl : Int, partialPnl : Int,
   action : {"NONE", "PARTIAL_CLOSE", "MOVE_STOP"}, managed : 0..MaxDay, closed : 0..MaxDay]

MarketType ==
  /\ candles \in Windows
  /\ context.close \in Int /\ context.atr14 \in Int
  /\ day \in 0..MaxDay

BookType ==
  /\ book \in [Positions -> Position]
  /\ booked \in [0..MaxDay -> Int]

USE DEF market

LEMMA PeriodTypes == Unit \in Nat \ {0} /\ MinimumCandles \in Nat \ {0}
<1>1. Unit \in Nat /\ Unit >= 4
  BY PeriodAssumption
<1>2. MinimumCandles \in Nat \ {0}
  BY PeriodAssumption
<1>3. QED
  BY <1>1, <1>2

LEMMA NextCandleType ==
  ASSUME NEW close \in Int, NEW move \in Moves
  PROVE  NextCandle(close, move) \in Candle
BY MarketAssumption DEF NextCandle, Larger, Smaller, Candle

LEMMA FirstWindowType == FirstWindow \in Windows
<1> DEFINE c == NextCandle(StartPrice, [close |-> 0, reach |-> 1, volume |-> 1])
<1>1. c \in Candle
  BY MarketAssumption DEF NextCandle, Larger, Smaller, Candle
<1>2. FirstWindow = [i \in 1..MinimumCandles |-> c]
  BY DEF FirstWindow
<1> HIDE DEF c
<1>3. [i \in 1..MinimumCandles |-> c] \in Seq(Candle)
      /\ Len([i \in 1..MinimumCandles |-> c]) = MinimumCandles
  BY <1>1, PeriodTypes
<1>4. QED
  BY <1>2, <1>3 DEF Windows

LEMMA NextWindowType ==
  ASSUME NEW s \in Windows, NEW c \in Candle
  PROVE  Append(Tail(s), c) \in Windows
BY PeriodTypes DEF Windows

\* The price is the last close, an integer.
LEMMA LastClose ==
  ASSUME NEW s \in Windows
  PROVE  Last(s).close \in Int /\ Last(Closes(s)) \in Int
<1>1. s \in Seq(Candle) /\ Len(s) = MinimumCandles /\ Len(s) \in 1..Len(s)
  BY PeriodTypes DEF Windows
<1>2. s[Len(s)] \in Candle
  BY <1>1
<1>3. Closes(s) = [i \in 1..Len(s) |-> s[i].close * Unit]
  BY <1>1 DEF Closes, Scaled
<1>4. Len(Closes(s)) = Len(s)
  BY <1>1, <1>3
<1>5. Last(Closes(s)) = s[Len(s)].close * Unit
  BY <1>1, <1>3, <1>4 DEF Last
<1>6. QED
  BY <1>2, <1>5, PeriodTypes DEF Last, Candle

-----------------------------------------------------------------------------
(* Rounding: the nearest integer, of two the even one                      *)

LEMMA Division ==
  ASSUME NEW a \in Int, NEW b \in Nat \ {0}, NEW q \in Int, NEW r \in 0..(b - 1),
         a = b * q + r
  PROVE  a \div b = q /\ a % b = r
<1> DEFINE p == a \div b
           s == a % b
<1>1. p \in Int /\ s \in 0..(b - 1) /\ a = b * p + s
  OBVIOUS
<1> HIDE DEF p, s
<1>2. b * (q - p) = s - r
  BY <1>1
<1>3. CASE q - p >= 1
  <2>1. b * (q - p) >= b
    BY <1>1, <1>3
  <2>2. QED
    BY <1>1, <1>2, <2>1
<1>4. CASE q - p <= -1
  <2>1. b * (q - p) <= -b
    BY <1>1, <1>4
  <2>2. QED
    BY <1>1, <1>2, <2>1
<1>5. CASE q = p
  BY <1>1, <1>2, <1>5 DEF p, s
<1>6. QED
  BY <1>1, <1>3, <1>4, <1>5

LEMMA RoundedType ==
  ASSUME NEW a \in Int, NEW b \in Nat \ {0}
  PROVE  /\ Rounded(a, b) \in Int
         /\ a >= 0 => Rounded(a, b) \in Nat
         /\ a >= b => Rounded(a, b) >= 1
<1> DEFINE q == a \div b
           r == a % b
<1>1. q \in Int /\ r \in 0..(b - 1) /\ a = b * q + r
  OBVIOUS
<1>2. Rounded(a, b) \in {q, q + 1}
  BY DEF Rounded
<1> HIDE DEF q, r
<1>3. a >= 0 => q >= 0
  <2>1. q <= -1 => b * q <= -b
    BY <1>1
  <2>2. QED
    BY <1>1, <2>1
<1>4. a >= b => q >= 1
  <2>1. q <= 0 => b * q <= 0
    BY <1>1
  <2>2. QED
    BY <1>1, <2>1
<1>5. QED
  BY <1>1, <1>2, <1>3, <1>4

\* What is turned round before it is rounded is turned round, about an even
\* number: a tie stays a tie and an even number even.
LEMMA RoundedTurns ==
  ASSUME NEW a \in Int, NEW b \in Nat \ {0}, NEW c \in Int, c % 2 = 0
  PROVE  Rounded(c * b - a, b) = c - Rounded(a, b)
<1> DEFINE q == a \div b
           r == a % b
<1>1. q \in Int /\ r \in 0..(b - 1) /\ a = b * q + r
  OBVIOUS
<1>2. Rounded(a, b) = IF 2 * r > b \/ (2 * r = b /\ q % 2 = 1) THEN q + 1 ELSE q
  BY DEF Rounded
<1> HIDE DEF q, r
<1>3. CASE r = 0
  <2>1. c * b - a = b * (c - q) + 0
    BY <1>1, <1>3
  <2>2. (c * b - a) \div b = c - q /\ (c * b - a) % b = 0
    <3>1. c * b - a \in Int /\ c - q \in Int /\ 0 \in 0..(b - 1)
      BY <1>1
    <3>2. QED
      BY <2>1, <3>1, Division
  <2>3. Rounded(c * b - a, b) = c - q
    BY <2>2 DEF Rounded
  <2>4. QED
    BY <1>2, <1>3, <2>3
<1>4. CASE r # 0
  <2>1. c * b - a = b * (c - q - 1) + (b - r)
    BY <1>1
  <2>2. (c * b - a) \div b = c - q - 1 /\ (c * b - a) % b = b - r
    <3>1. c * b - a \in Int /\ c - q - 1 \in Int /\ b - r \in 0..(b - 1)
      BY <1>1, <1>4
    <3>2. QED
      BY <2>1, <3>1, Division
  <2>3. Rounded(c * b - a, b) =
          IF 2 * (b - r) > b \/ (2 * (b - r) = b /\ (c - q - 1) % 2 = 1)
            THEN c - q - 1 + 1 ELSE c - q - 1
    BY <2>2 DEF Rounded
  <2>4. (c - q - 1) % 2 = 1 <=> q % 2 # 1
    BY <1>1
  <2>5. QED
    BY <1>1, <1>2, <2>3, <2>4
<1>5. QED
  BY <1>3, <1>4

LEMMA RoundedIsOdd ==
  ASSUME NEW a \in Int, NEW b \in Nat \ {0}
  PROVE  Rounded(-a, b) = -Rounded(a, b)
<1>1. Rounded(0 * b - a, b) = 0 - Rounded(a, b)
  BY RoundedTurns
<1>2. 0 * b - a = -a /\ Rounded(a, b) \in Int
  BY RoundedType
<1>3. QED
  BY <1>1, <1>2

LEMMA MeanType ==
  ASSUME NEW f, NEW S, IsFiniteSet(S), S # {}, \A x \in S : f[x] \in Int
  PROVE  /\ Mean(f, S) \in Int
         /\ (\A x \in S : f[x] \in Nat) => Mean(f, S) \in Nat
<1>1. SumFunctionOnSet(f, S) \in Int
  BY SumType
<1>2. Cardinality(S) \in Nat \ {0}
  BY FS_CardinalityType, FS_EmptySet
<1>3. (\A x \in S : f[x] \in Nat) => SumFunctionOnSet(f, S) \in Nat
  BY SumOfNaturals
<1>4. Mean(f, S) = Rounded(SumFunctionOnSet(f, S), Cardinality(S))
  BY DEF Mean
<1>5. CASE \A x \in S : f[x] \in Nat
  BY <1>1, <1>2, <1>3, <1>4, <1>5, RoundedType
<1>6. CASE ~(\A x \in S : f[x] \in Nat)
  BY <1>1, <1>2, <1>4, <1>6, RoundedType
<1>7. QED
  BY <1>5, <1>6

LEMMA MeanTurns ==
  ASSUME NEW f, NEW h, NEW S, IsFiniteSet(S), S # {}, NEW c \in Int, c % 2 = 0,
         \A x \in S : f[x] \in Int /\ h[x] = c - f[x]
  PROVE  Mean(h, S) = c - Mean(f, S)
<1>1. SumFunctionOnSet(f, S) \in Int
  BY SumType
<1>2. Cardinality(S) \in Nat \ {0}
  BY FS_CardinalityType, FS_EmptySet
<1>3. SumFunctionOnSet(h, S) = c * Cardinality(S) - SumFunctionOnSet(f, S)
  BY SumTurns
<1>4. QED
  BY <1>1, <1>2, <1>3, RoundedTurns DEF Mean

-----------------------------------------------------------------------------
(* The averages                                                            *)

Series(n) == [1..n -> Int]

LEMMA SeedType ==
  ASSUME NEW n \in Nat, NEW s \in Series(n), NEW period \in 1..n
  PROVE  /\ IsFiniteSet(1..period) /\ 1..period # {} /\ \A x \in 1..period : s[x] \in Int
         /\ Mean(s, 1..period) \in Int
         /\ (\A x \in 1..n : s[x] \in Nat) => Mean(s, 1..period) \in Nat
<1>1. IsFiniteSet(1..period)
  BY FS_Interval
<1>2. 1 \in 1..period /\ \A x \in 1..period : x \in 1..n
  OBVIOUS
<1>3. 1..period # {} /\ \A x \in 1..period : s[x] \in Int
  BY <1>2 DEF Series
<1>4. (\A x \in 1..n : s[x] \in Nat) => \A x \in 1..period : s[x] \in Nat
  BY <1>2
<1>5. QED
  BY <1>1, <1>3, <1>4, MeanType

LEMMA EmaUnfolds ==
  ASSUME NEW n \in Nat, NEW s \in Series(n), NEW period \in 1..n
  PROVE  /\ Ema(s, period) \in Series(n - period + 1)
         /\ \A i \in 1..(n - period + 1) :
              Ema(s, period)[i] =
                IF i = 1 THEN Mean(s, 1..period)
                ELSE Ema(s, period)[i - 1]
                     + Rounded(2 * (s[period + i - 1] - Ema(s, period)[i - 1]), period + 1)
<1> DEFINE m == n - period + 1
           seed == Mean(s, 1..period)
           after(x, i) == x + Rounded(2 * (s[period + i - 1] - x), period + 1)
           step == [i \in 1..m |-> [x \in Int |-> after(x, i)]]
           IsEma(g) == g = [i \in 1..m |-> IF i = 1 THEN seed ELSE after(g[i - 1], i)]
<1>1. Len(s) = n /\ seed \in Int /\ m \in Nat /\ n \in Nat
  <2>1. s \in Seq(Int) /\ Len(s) = n
    BY DEF Series
  <2>2. QED
    BY <2>1, SeedType
<1>2. Ema(s, period) = CHOOSE g : IsEma(g)
  BY <1>1 DEF Ema
<1>3. \A i \in 1..m, x \in Int : after(x, i) \in Int
  <2> SUFFICES ASSUME NEW i \in 1..m, NEW x \in Int PROVE after(x, i) \in Int
    OBVIOUS
  <2>1. s[period + i - 1] \in Int
    BY DEF Series
  <2>2. 2 * (s[period + i - 1] - x) \in Int /\ period + 1 \in Nat \ {0}
    BY <2>1
  <2>3. Rounded(2 * (s[period + i - 1] - x), period + 1) \in Int
    BY <2>2, RoundedType
  <2>4. QED
    BY <2>3
<1>4. \A i \in 1..m, x \in Int : step[i][x] = after(x, i)
  OBVIOUS
<1> HIDE DEF seed, after, step, m
<1>5. PICK g : IsRecursion(g, seed, step, m)
  BY <1>1, RecursionExists
<1>6. g \in [1..m -> Int]
  <2>1. \A i \in 1..m, x \in Int : step[i][x] \in Int
    BY <1>3, <1>4
  <2>2. QED
    BY <1>1, <1>5, <2>1, RecursionType
<1>7. IsEma(g)
  <2>1. ASSUME NEW i \in 1..m
        PROVE  g[i] = IF i = 1 THEN seed ELSE after(g[i - 1], i)
    <3>1. i # 1 => i - 1 \in 1..m
      BY <1>1
    <3>2. g[i] = IF i = 1 THEN seed ELSE step[i][g[i - 1]]
      BY <1>5 DEF IsRecursion
    <3>3. QED
      BY <1>4, <1>6, <3>1, <3>2
  <2>2. g = [i \in 1..m |-> g[i]]
    BY <1>6
  <2>3. QED
    BY <2>1, <2>2
<1> DEFINE f == Ema(s, period)
<1>8. IsEma(f)
  BY <1>2, <1>7
<1> HIDE DEF f
<1>9. \A i \in 1..m : f[i] = IF i = 1 THEN seed ELSE after(f[i - 1], i)
  BY <1>8
<1>10. \A i \in 1..m : f[i] \in Int
  <2> DEFINE P == {i \in 1..m : f[i] \in Int}
  <2>1. ASSUME NEW i \in 1..m, i = 1 \/ i - 1 \in P
        PROVE  i \in P
    BY <1>1, <1>3, <1>9, <2>1
  <2> HIDE DEF P
  <2>2. \A i \in 1..m : i \in P
    BY <1>1, <2>1, StepByStep
  <2>3. QED
    BY <2>2 DEF P
<1>11. f \in Series(m)
  BY <1>8, <1>10 DEF Series
<1>12. QED
  BY <1>9, <1>11 DEF f, after, seed, m

\* The smoothed average of integers is one, and of natural numbers too.
LEMMA SmoothedType ==
  ASSUME NEW n \in Nat, NEW s \in Series(n), NEW period \in 1..n, NEW V \in {Int, Nat},
         \A i \in 1..n : s[i] \in V
  PROVE  Smoothed(s, period) \in V
<1> DEFINE m == n - period + 1
           seed == Mean(s, 1..period)
           after(x, i) == Rounded(x * (period - 1) + s[period + i - 1], period)
           step == [i \in 1..m |-> [x \in V |-> after(x, i)]]
           IsAverage(g) == g = [i \in 1..m |-> IF i = 1 THEN seed ELSE after(g[i - 1], i)]
           f == CHOOSE g : IsAverage(g)
<1>1. Len(s) = n /\ seed \in V /\ m \in Nat \ {0} /\ n \in Nat
  <2>1. s \in Seq(Int) /\ Len(s) = n
    BY DEF Series
  <2>2. seed \in V
    BY SeedType
  <2>3. QED
    BY <2>1, <2>2
<1>2. Smoothed(s, period) = Last(f)
  BY <1>1 DEF Smoothed
<1>3. \A i \in 1..m, x \in V : after(x, i) \in V
  <2> SUFFICES ASSUME NEW i \in 1..m, NEW x \in V PROVE after(x, i) \in V
    OBVIOUS
  <2> DEFINE a == x * (period - 1) + s[period + i - 1]
  <2>1. s[period + i - 1] \in V /\ period - 1 \in Nat
    OBVIOUS
  <2>2. x * (period - 1) \in V
    BY <2>1
  <2>3. a \in V /\ a \in Int /\ period \in Nat \ {0}
    BY <2>1, <2>2
  <2> HIDE DEF a
  <2>4. Rounded(a, period) \in Int /\ (a >= 0 => Rounded(a, period) \in Nat)
    BY <2>3, RoundedType
  <2>5. V = Nat => a >= 0
    BY <2>3
  <2>6. QED
    BY <2>4, <2>5 DEF a
<1>4. \A i \in 1..m, x \in V : step[i][x] = after(x, i)
  OBVIOUS
<1> HIDE DEF seed, after, step, m
<1>5. PICK g : IsRecursion(g, seed, step, m)
  BY <1>1, RecursionExists
<1>6. g \in [1..m -> V]
  <2>1. \A i \in 1..m, x \in V : step[i][x] \in V
    BY <1>3, <1>4
  <2>2. QED
    BY <1>1, <1>5, <2>1, RecursionType
<1>7. IsAverage(g)
  <2>1. ASSUME NEW i \in 1..m
        PROVE  g[i] = IF i = 1 THEN seed ELSE after(g[i - 1], i)
    <3>1. i # 1 => i - 1 \in 1..m
      BY <1>1
    <3>2. g[i] = IF i = 1 THEN seed ELSE step[i][g[i - 1]]
      BY <1>5 DEF IsRecursion
    <3>3. QED
      BY <1>4, <1>6, <3>1, <3>2
  <2>2. g = [i \in 1..m |-> g[i]]
    BY <1>6
  <2>3. QED
    BY <2>1, <2>2
<1>8. IsAverage(f)
  BY <1>7
<1> HIDE DEF f
<1>9. \A i \in 1..m : f[i] = IF i = 1 THEN seed ELSE after(f[i - 1], i)
  BY <1>8
<1>10. \A i \in 1..m : f[i] \in V
  <2> DEFINE P == {i \in 1..m : f[i] \in V}
  <2>1. ASSUME NEW i \in 1..m, i = 1 \/ i - 1 \in P
        PROVE  i \in P
    BY <1>1, <1>3, <1>9, <2>1
  <2> HIDE DEF P
  <2>2. \A i \in 1..m : i \in P
    BY <1>1, <2>1, StepByStep
  <2>3. QED
    BY <2>2 DEF P
<1>11. f = [i \in 1..m |-> f[i]]
  BY <1>8
<1>12. Len(f) = m /\ m \in 1..m
  BY <1>1, <1>10, <1>11
<1>13. QED
  BY <1>2, <1>10, <1>12 DEF Last

LEMMA AtrType ==
  ASSUME NEW s \in Windows
  PROVE  Atr(s) \in Int
<1> DEFINE ranges == [i \in 1..Len(s) |-> TrueRange(s, i) * Unit]
<1>1. s \in Seq(Candle) /\ Len(s) = MinimumCandles
  BY DEF Windows
<1>2. \A i \in 1..Len(s) : TrueRange(s, i) \in Int
  <2> TAKE i \in 1..Len(s)
  <2> DEFINE c == s[i]
             before == s[i - 1]
  <2>1. c \in Candle /\ (i # 1 => before \in Candle)
    BY <1>1
  <2>2. c.high \in Int /\ c.low \in Int /\ (i # 1 => before.close \in Int)
    BY <2>1 DEF Candle
  <2> HIDE DEF c, before
  <2>3. TrueRange(s, i) =
          IF i = 1 THEN c.high - c.low
          ELSE Larger(c.high - c.low,
                      Larger(Abs(c.high - before.close), Abs(c.low - before.close)))
    BY DEF TrueRange, c, before
  <2>4. QED
    BY <2>2, <2>3 DEF Larger, Abs
<1>3. ranges \in Series(MinimumCandles)
  BY <1>1, <1>2, PeriodTypes DEF Series
<1>4. Scaled([i \in DOMAIN s |-> TrueRange(s, i)]) = ranges
  BY <1>1 DEF Scaled
<1>5. AtrPeriod \in 1..MinimumCandles
  BY PeriodAssumption
<1> HIDE DEF ranges
<1>6. Smoothed(ranges, AtrPeriod) \in Int
  <2>1. \A i \in 1..MinimumCandles : ranges[i] \in Int
    BY <1>3 DEF Series
  <2>2. QED
    BY <1>3, <1>5, <2>1, PeriodTypes, SmoothedType
<1>7. QED
  BY <1>4, <1>6 DEF Atr

LEMMA ContextType ==
  ASSUME NEW s \in Windows
  PROVE  Context(s).close \in Int /\ Context(s).atr14 \in Int
BY LastClose, AtrType DEF Context

-----------------------------------------------------------------------------
(* What is realised and what is at risk, as sums over the positions        *)

\* What a position has added to the balance.
Realized(x) ==
  IF x.status = "open" THEN x.partialPnl
  ELSE IF x.status = "closed" THEN x.partialPnl + x.pnl ELSE 0

Banked(b) == SumFunctionOnSet([p \in Positions |-> Realized(b[p])], Positions)

LEMMA RealizedType == \A x \in Position : Realized(x) \in Int
BY DEF Realized, Position

\* The two sums of the code, over the open and over the closed positions,
\* are one over all of them.
LEMMA RealizedIsBanked ==
  ASSUME NEW b \in [Positions -> Position]
  PROVE  SumFunctionOnSet([p \in Positions |-> b[p].partialPnl],
                          {p \in Positions : b[p].status = "open"})
         + SumFunctionOnSet([p \in Positions |-> b[p].partialPnl + b[p].pnl],
                            {p \in Positions : b[p].status = "closed"})
         = Banked(b)
<1> DEFINE open == {p \in Positions : b[p].status = "open"}
           closed == {p \in Positions : b[p].status = "closed"}
           partial == [p \in Positions |-> b[p].partialPnl]
           earned == [p \in Positions |-> b[p].partialPnl + b[p].pnl]
           ofOpen == [p \in Positions |-> IF p \in open THEN partial[p] ELSE 0]
           ofClosed == [p \in Positions |-> IF p \in closed THEN earned[p] ELSE 0]
<1>1. IsFiniteSet(Positions) /\ open \in SUBSET Positions /\ closed \in SUBSET Positions
  BY BoundAssumption
<1>2. \A p \in Positions : b[p].partialPnl \in Int /\ b[p].pnl \in Int
  BY DEF Position
<1>3. \A p \in Positions : partial[p] \in Int /\ earned[p] \in Int
  BY <1>2
<1>4. \A p \in Positions : ofOpen[p] \in Int /\ ofClosed[p] \in Int
  BY <1>3
<1>5. \A p \in Positions : ofOpen[p] + ofClosed[p] = Realized(b[p])
  <2> TAKE p \in Positions
  <2>1. CASE b[p].status = "open"
    BY <1>2, <2>1 DEF Realized
  <2>2. CASE b[p].status = "closed"
    BY <1>2, <2>2 DEF Realized
  <2>3. CASE b[p].status # "open" /\ b[p].status # "closed"
    BY <2>3 DEF Realized
  <2>4. QED
    BY <2>1, <2>2, <2>3
<1>6. [p \in Positions |-> ofOpen[p] + ofClosed[p]] = [p \in Positions |-> Realized(b[p])]
  BY <1>5
<1>7. SumFunctionOnSet(partial, open) = SumFunctionOnSet(ofOpen, Positions)
  <2> HIDE DEF partial, open
  <2>1. QED
    BY <1>1, <1>3, SumWhere
<1>8. SumFunctionOnSet(earned, closed) = SumFunctionOnSet(ofClosed, Positions)
  <2> HIDE DEF earned, closed
  <2>1. QED
    BY <1>1, <1>3, SumWhere
<1>9. SumFunctionOnSet(ofOpen, Positions) + SumFunctionOnSet(ofClosed, Positions)
        = SumFunctionOnSet([p \in Positions |-> ofOpen[p] + ofClosed[p]], Positions)
  <2> HIDE DEF ofOpen, ofClosed
  <2>1. QED
    BY <1>1, <1>4, SumPlus
<1>10. QED
  BY <1>6, <1>7, <1>8, <1>9 DEF Banked

\* One row changes, and what is banked by what that row has added.
LEMMA BankedChanges ==
  ASSUME NEW b \in [Positions -> Position], NEW p \in Positions, NEW x \in Position
  PROVE  Banked([b EXCEPT ![p] = x]) = Banked(b) + (Realized(x) - Realized(b[p]))
<1> DEFINE c == [b EXCEPT ![p] = x]
           before == [q \in Positions |-> Realized(b[q])]
           after == [q \in Positions |-> Realized(c[q])]
<1>1. \A q \in Positions : before[q] \in Int /\ after[q] \in Int
  BY RealizedType
<1>2. \A q \in Positions \ {p} : before[q] = after[q]
  OBVIOUS
<1>3. before[p] = Realized(b[p]) /\ after[p] = Realized(x)
  OBVIOUS
<1> HIDE DEF before, after
<1>4. SumFunctionOnSet(after, Positions)
        = SumFunctionOnSet(before, Positions) + (after[p] - before[p])
  BY <1>1, <1>2, BoundAssumption, SumChanges
<1>5. QED
  BY <1>3, <1>4 DEF Banked, before, after

\* A day's entry changes, and the total of the days as much.
LEMMA BookedChanges ==
  ASSUME NEW k \in [0..MaxDay -> Int], NEW d \in 0..MaxDay, NEW earned \in Int
  PROVE  SumFunctionOnSet([k EXCEPT ![d] = @ + earned], 0..MaxDay)
           = SumFunctionOnSet(k, 0..MaxDay) + earned
<1> DEFINE after == [k EXCEPT ![d] = @ + earned]
<1>1. IsFiniteSet(0..MaxDay)
  BY BoundAssumption, FS_Interval
<1>2. \A e \in 0..MaxDay : k[e] \in Int /\ after[e] \in Int
  OBVIOUS
<1>3. (\A e \in (0..MaxDay) \ {d} : k[e] = after[e]) /\ after[d] = k[d] + earned
  OBVIOUS
<1> HIDE DEF after
<1>4. SumFunctionOnSet(after, 0..MaxDay)
        = SumFunctionOnSet(k, 0..MaxDay) + (after[d] - k[d])
  BY <1>1, <1>2, <1>3, SumChanges
<1>5. SumFunctionOnSet(k, 0..MaxDay) \in Int /\ k[d] \in Int
  BY <1>1, <1>2, SumType
<1>6. QED
  BY <1>3, <1>4, <1>5 DEF after

-----------------------------------------------------------------------------
(* What is opened                                                          *)

\* A decision to trade carries a proposal at the close, of which the stop is
\* one average true range away.
LEMMA DecisionType ==
  ASSUME context.close \in Int, context.atr14 \in Int,
         NEW decision \in Decisions, decision.direction # "WAIT"
  PROVE  /\ decision.proposal.direction \in {"BUY", "SELL"}
         /\ decision.proposal.entry \in Int /\ decision.proposal.stop \in Int
<1>1. PICK e \in RoundingErrors : decision = Evaluate(context, e)
  BY DEF Decisions
<1> DEFINE direction == DetermineDirection(context, ConfluenceScore(context))
           confidence == BaseConfidence(context, ConfluenceScore(context))
           ratio == AdaptiveRiskReward(ConfluenceScore(context), confidence)
           proposal == Proposal(context, direction, ratio, e)
<1>2. direction \in {"BUY", "SELL", "WAIT"}
  BY DEF DetermineDirection
<1>3. direction # "WAIT" /\ decision.proposal = proposal
  <2> DEFINE trade == /\ direction # "WAIT" /\ confidence >= MinimumConfidence
                      /\ context.atr14 > 0 /\ Sound(proposal)
  <2>1. /\ decision.direction = IF trade THEN direction ELSE "WAIT"
        /\ decision.proposal = IF trade THEN proposal ELSE NoProposal
    BY <1>1 DEF Evaluate
  <2> HIDE DEF proposal, direction, confidence
  <2>2. QED
    BY <2>1
<1> HIDE DEF direction, confidence, ratio
<1>4. /\ proposal.direction = direction /\ proposal.entry = context.close
      /\ proposal.stop = context.close - Toward(direction) * context.atr14
  BY DEF Proposal
<1>5. Toward(direction) \in Int
  BY DEF Toward
<1> HIDE DEF proposal
<1>6. QED
  BY <1>2, <1>3, <1>4, <1>5

\* A row is opened with a volume the symbol allows, nothing realised, and the
\* distance to its stop as its risk.
LEMMA OpenedType ==
  ASSUME MarketType, NEW decision \in Decisions, NEW state, Approved(decision, state)
  PROVE  /\ Opened(decision.proposal) \in Position
         /\ Opened(decision.proposal).status = "open"
         /\ Opened(decision.proposal).partialPnl = 0
<1> DEFINE p == decision.proposal
           volume == Risk!PositionSize(Equity, p.entry, p.stop)
<1>1. decision.direction # "WAIT" /\ volume \in VolumeMin..VolumeMax
  BY DEF Approved, Risk!PreTradeCheck, Risk!VolumeAllowed
<1>2. /\ p.direction \in {"BUY", "SELL"} /\ p.entry \in Int /\ p.stop \in Int
  BY <1>1, DecisionType DEF MarketType
<1>3. Risk!Span(p.entry, p.stop) \in Int
  BY <1>2 DEF Risk!Span
<1>4. volume \in Int
  BY <1>1, RiskAssumption DEF Risk!ValidRiskConfig
<1> DEFINE risk == Risk!Span(p.entry, p.stop)
           direction == p.direction
           entry == p.entry
           half == [NoPosition EXCEPT !.status = "open", !.direction = direction,
                                      !.entry = entry]
<1>5. NoPosition \in Position /\ NoPosition.partialPnl = 0
  BY BoundAssumption DEF NoPosition, Position
<1>6. Opened(p) = [half EXCEPT !.risk = risk, !.volume = volume, !.left = volume]
  BY DEF Opened
<1>7. direction \in {"BUY", "SELL"} /\ entry \in Int /\ risk \in Int
  BY <1>2, <1>3
<1> HIDE DEF p, volume, risk, direction, entry
<1>8. half \in Position /\ half.status = "open" /\ half.partialPnl = 0
  BY <1>5, <1>7 DEF Position
<1> HIDE DEF half
<1>9. /\ Opened(p) \in Position
      /\ Opened(p).status = "open" /\ Opened(p).partialPnl = 0
  BY <1>4, <1>6, <1>7, <1>8 DEF Position
<1>10. QED
  BY <1>9 DEF p

-----------------------------------------------------------------------------
(* The demo engine and its journal                                         *)

Trade == [status : {"none", "open", "closed", "cancelled"}, pnl : Int, day : 0..MaxDay]

DemoType ==
  /\ engine \in [DemoTrades -> Trade]
  /\ request \in [DemoTrades -> {"idle", "insert", "save", "update"}]
  /\ rows \in [DemoTrades -> {"none", "open", "closed"}]

\* A row is updated only for a trade that is no longer open.
UpdatesAreOfClosed ==
  \A t \in DemoTrades : request[t] = "update" => engine[t].status # "open"

JournalInv == DemoType /\ UpdatesAreOfClosed /\ OpenTradesAreJournaled

demo == <<engine, request, rows>>

LEMMA JournalInitially == DemoInit => JournalInv
<1> SUFFICES ASSUME DemoInit PROVE JournalInv
  OBVIOUS
<1>1. NoTrade \in Trade
  BY BoundAssumption DEF NoTrade, Trade
<1>2. DemoType
  BY <1>1 DEF DemoInit, DemoType
<1>3. QED
  BY <1>2 DEF DemoInit, NoTrade, JournalInv, UpdatesAreOfClosed, OpenTradesAreJournaled

LEMMA JournalKept ==
  ASSUME JournalInv, NEW today \in 0..MaxDay,
         DemoNext(today) \/ DemoCrash \/ UNCHANGED demo
  PROVE  JournalInv'
<1> USE DEF JournalInv, DemoType, UpdatesAreOfClosed, OpenTradesAreJournaled
<1>0. NoTrade \in Trade /\ NoTrade.status = "none"
  BY BoundAssumption DEF NoTrade, Trade
<1>1. ASSUME NEW t \in DemoTrades, DemoCheck(t, today)
      PROVE  JournalInv'
  BY <1>1 DEF DemoCheck
<1>2. ASSUME NEW t \in DemoTrades, DemoInsert(t)
      PROVE  JournalInv'
  <2>1. [NoTrade EXCEPT !.status = "open"] \in Trade
    BY BoundAssumption DEF NoTrade, Trade
  <2>2. QED
    BY <1>2, <2>1 DEF DemoInsert
<1>3. ASSUME NEW t \in DemoTrades, DemoSave(t)
      PROVE  JournalInv'
  BY <1>3 DEF DemoSave
<1>4. ASSUME NEW t \in DemoTrades, DemoSaveFails(t, today)
      PROVE  JournalInv'
  <2>1. AfterFailedSave(engine[t], today) \in Trade
        /\ AfterFailedSave(engine[t], today).status # "open"
    BY DEF AfterFailedSave, Trade
  <2> HIDE DEF AfterFailedSave
  <2>2. engine' = [engine EXCEPT ![t] = AfterFailedSave(engine[t], today)]
    BY <1>4 DEF DemoSaveFails
  <2>3. request' = [request EXCEPT ![t] = "idle"] /\ rows' = rows
    BY <1>4 DEF DemoSaveFails
  <2>4. QED
    BY <2>1, <2>2, <2>3
<1>5. ASSUME NEW t \in DemoTrades, DemoClose(t, today)
      PROVE  JournalInv'
  <2>1. PICK pnl \in DemoPnls :
          engine' = [engine EXCEPT ![t] = [status |-> "closed", pnl |-> pnl, day |-> today]]
    BY <1>5 DEF DemoClose
  <2>2. [status |-> "closed", pnl |-> pnl, day |-> today] \in Trade
    BY DemoAssumption DEF Trade
  <2>3. QED
    BY <1>5, <2>1, <2>2 DEF DemoClose
<1>6. ASSUME NEW t \in DemoTrades, DemoUpdate(t)
      PROVE  JournalInv'
  BY <1>6 DEF DemoUpdate
<1>7. ASSUME NEW t \in DemoTrades, DemoUpdateFails(t)
      PROVE  JournalInv'
  BY <1>7 DEF DemoUpdateFails
<1>8. CASE DemoReset
  BY <1>0, <1>8 DEF DemoReset, Forgotten
<1>9. CASE DemoCrash
  BY <1>0, <1>9 DEF DemoCrash, Forgotten
<1>10. CASE UNCHANGED demo
  BY <1>10 DEF demo
<1>11. QED
  BY <1>1, <1>2, <1>3, <1>4, <1>5, <1>6, <1>7, <1>8, <1>9, <1>10 DEF DemoNext

-----------------------------------------------------------------------------
(* The books                                                               *)

\* All that was ever realised is in the rows once.
RealizedIsBooked == Banked(book) = SumFunctionOnSet(booked, 0..MaxDay)

PipelineInv == MarketType /\ BookType /\ RealizedIsBooked /\ JournalInv

LEMMA PriceType ==
  ASSUME MarketType
  PROVE  Price \in Int
BY LastClose DEF Price, MarketType

\* What a position earns of a quantity.
LEMMA EarnedType ==
  ASSUME MarketType, NEW x \in Position, NEW quantity \in Int
  PROVE  Earned(x, quantity) \in Int
<1>1. Toward(x.direction) \in Int /\ x.entry \in Int
  BY DEF Toward, Position
<1>2. QED
  BY <1>1, PriceType DEF Earned

\* A row is replaced and what it has earned since is booked.
LEMMA BooksMove ==
  ASSUME MarketType, BookType, RealizedIsBooked,
         NEW p \in Positions, NEW x \in Position, NEW earned \in Int,
         Realized(x) = Realized(book[p]) + earned,
         book' = [book EXCEPT ![p] = x],
         booked' = [booked EXCEPT ![day] = @ + earned]
  PROVE  BookType' /\ RealizedIsBooked'
<1>1. BookType'
  BY DEF BookType, MarketType
<1>2. Banked(book') = Banked(book) + (Realized(x) - Realized(book[p]))
  BY BankedChanges DEF BookType
<1>3. SumFunctionOnSet(booked', 0..MaxDay) = SumFunctionOnSet(booked, 0..MaxDay) + earned
  BY BookedChanges DEF BookType, MarketType
<1>4. Realized(x) - Realized(book[p]) = earned
  <2>1. Realized(book[p]) \in Int
    BY RealizedType DEF BookType
  <2>2. QED
    BY <2>1
<1>5. Banked(book') = SumFunctionOnSet(booked', 0..MaxDay)
  BY <1>2, <1>3, <1>4 DEF RealizedIsBooked
<1>6. QED
  BY <1>1, <1>5 DEF RealizedIsBooked

\* A row is replaced that has earned nothing since.
LEMMA RowReplaced ==
  ASSUME MarketType, BookType, RealizedIsBooked,
         NEW p \in Positions, NEW x \in Position, Realized(x) = Realized(book[p]),
         book' = [book EXCEPT ![p] = x], booked' = booked
  PROVE  BookType' /\ RealizedIsBooked'
<1>1. booked' = [booked EXCEPT ![day] = @ + 0]
  BY DEF BookType
<1>2. Realized(x) = Realized(book[p]) + 0
  BY RealizedType DEF BookType
<1>3. 0 \in Int
  OBVIOUS
<1>4. QED
  BY <1>1, <1>2, <1>3, BooksMove

LEMMA BooksInitially == Init => MarketType /\ BookType /\ RealizedIsBooked
<1> SUFFICES ASSUME Init PROVE MarketType /\ BookType /\ RealizedIsBooked
  OBVIOUS
<1>1. MarketType
  BY FirstWindowType, ContextType, BoundAssumption DEF Init, MarketType
<1>2. NoPosition \in Position /\ Realized(NoPosition) = 0
  BY BoundAssumption DEF NoPosition, Position, Realized
<1>3. BookType
  BY <1>2 DEF Init, BookType
<1>4. RealizedIsBooked
  <2>1. \A p \in Positions : [q \in Positions |-> Realized(book[q])][p] = 0
    BY <1>2 DEF Init
  <2>2. \A d \in 0..MaxDay : booked[d] = 0
    BY DEF Init
  <2>3. IsFiniteSet(Positions) /\ IsFiniteSet(0..MaxDay)
    BY BoundAssumption, FS_Interval
  <2>4. Banked(book) = 0
    BY <2>1, <2>3, SumOfZeros DEF Banked
  <2>5. SumFunctionOnSet(booked, 0..MaxDay) = 0
    BY <2>2, <2>3, SumOfZeros
  <2>6. QED
    BY <2>4, <2>5 DEF RealizedIsBooked
<1>5. QED
  BY <1>1, <1>3, <1>4

\* What each step does to the books: nothing, or a row is opened, or a row of
\* an open position is replaced and its earnings booked.
LEMMA OpeningKeepsBooks ==
  ASSUME MarketType, BookType, RealizedIsBooked, NEW state, ExecutePaper(state)
  PROVE  BookType' /\ RealizedIsBooked'
<1>1. PICK decision \in Decisions, p \in Positions :
        /\ book[p].status = "none" /\ Approved(decision, state)
        /\ book' = [book EXCEPT ![p] = Opened(decision.proposal)]
  BY DEF ExecutePaper
<1> DEFINE x == Opened(decision.proposal)
<1>2. x \in Position /\ x.status = "open" /\ x.partialPnl = 0
  BY <1>1, OpenedType
<1> HIDE DEF x
<1>3. Realized(x) = 0 /\ Realized(book[p]) = 0
  BY <1>1, <1>2 DEF Realized
<1>4. booked' = booked /\ book' = [book EXCEPT ![p] = x]
  BY <1>1 DEF ExecutePaper, x
<1>5. QED
  BY <1>2, <1>3, <1>4, RowReplaced

LEMMA ManagingKeepsBooks ==
  ASSUME MarketType, BookType, RealizedIsBooked, NEW p \in Positions,
         Mark(p) \/ PartialClose(p) \/ MoveStop(p) \/ Close(p)
  PROVE  BookType' /\ RealizedIsBooked'
<1>1. book[p] \in Position /\ day \in 0..MaxDay
  BY DEF BookType, MarketType
<1>2. book[p].status = "open"
  BY DEF Mark, PartialClose, MoveStop, Close, Open
<1> DEFINE row == book[p]
<1>3. row.left \in Int /\ row.partialPnl \in Int /\ row.pnl \in Int
  BY <1>1 DEF Position
<1>4. \A q \in Int : Earned(row, q) \in Int
  BY <1>1, EarnedType
<1>5. CASE Mark(p)
  <2> DEFINE gain == Earned(row, row.left)
             x == [row EXCEPT !.pnl = gain]
  <2>1. ManagePosition(p, x, 0)
    BY <1>5 DEF Mark
  <2>2. gain \in Int
    BY <1>3, <1>4
  <2> HIDE DEF gain
  <2>3. x \in Position /\ x.status = "open" /\ x.partialPnl = row.partialPnl
    BY <1>1, <1>2, <2>2 DEF Position
  <2> HIDE DEF x
  <2>4. Realized(x) = Realized(row)
    BY <1>2, <1>3, <2>3 DEF Realized
  <2>5. book' = [book EXCEPT ![p] = x] /\ booked' = booked
    BY <2>1 DEF ManagePosition, BookType
  <2>6. QED
    BY <2>3, <2>4, <2>5, RowReplaced
<1>6. CASE PartialClose(p)
  <2> DEFINE quantity == row.left \div 2
             gain == Earned(row, quantity)
             rest == Earned(row, row.left - quantity)
             x == [row EXCEPT !.left = row.left - quantity,
                              !.partialPnl = row.partialPnl + gain, !.pnl = rest,
                              !.action = "PARTIAL_CLOSE", !.managed = day]
  <2>1. ManagePosition(p, x, gain)
    BY <1>6 DEF PartialClose
  <2>2. quantity \in Int
    BY <1>3
  <2> HIDE DEF quantity
  <2>3. gain \in Int /\ rest \in Int /\ row.left - quantity \in Int
    BY <1>3, <1>4, <2>2
  <2> HIDE DEF gain, rest
  <2>4. x \in Position /\ x.status = "open" /\ x.partialPnl = row.partialPnl + gain
    <3> DEFINE partial == row.partialPnl + gain
               left == row.left - quantity
    <3>1. partial \in Int /\ left \in Int
      BY <1>3, <2>3
    <3>2. x = [row EXCEPT !.left = left, !.partialPnl = partial, !.pnl = rest,
                          !.action = "PARTIAL_CLOSE", !.managed = day]
      OBVIOUS
    <3> HIDE DEF x, row, partial, left
    <3>3. row \in Position /\ row.status = "open"
      BY <1>1, <1>2 DEF row
    <3>4. x \in Position /\ x.status = "open" /\ x.partialPnl = partial
      BY <1>1, <2>3, <3>1, <3>2, <3>3 DEF Position
    <3>5. QED
      BY <3>4 DEF partial
  <2> HIDE DEF x
  <2>5. Realized(x) = Realized(row) + gain
    BY <1>2, <2>4 DEF Realized
  <2>6. book' = [book EXCEPT ![p] = x] /\ booked' = [booked EXCEPT ![day] = @ + gain]
    BY <2>1 DEF ManagePosition
  <2>7. QED
    BY <2>3, <2>4, <2>5, <2>6, BooksMove
<1>7. CASE MoveStop(p)
  <2> DEFINE x == [row EXCEPT !.action = "MOVE_STOP", !.managed = day]
  <2>1. ManagePosition(p, x, 0)
    BY <1>7 DEF MoveStop
  <2>2. x \in Position /\ x.status = "open" /\ x.partialPnl = row.partialPnl
    BY <1>1, <1>2 DEF Position
  <2> HIDE DEF x
  <2>3. Realized(x) = Realized(row)
    BY <1>2, <1>3, <2>2 DEF Realized
  <2>4. book' = [book EXCEPT ![p] = x] /\ booked' = booked
    BY <2>1 DEF ManagePosition, BookType
  <2>5. QED
    BY <2>2, <2>3, <2>4, RowReplaced
<1>8. CASE Close(p)
  <2> DEFINE gain == Earned(row, row.left)
             x == [row EXCEPT !.status = "closed", !.left = 0, !.closed = day, !.pnl = gain]
  <2>1. ManagePosition(p, x, gain)
    BY <1>8 DEF Close
  <2>2. gain \in Int
    BY <1>3, <1>4
  <2> HIDE DEF gain
  <2>3. /\ x \in Position /\ x.status = "closed"
        /\ x.partialPnl = row.partialPnl /\ x.pnl = gain
    <3>1. x = [row EXCEPT !.status = "closed", !.left = 0, !.closed = day, !.pnl = gain]
      OBVIOUS
    <3> HIDE DEF x, row
    <3>2. row \in Position
      BY <1>1 DEF row
    <3>3. row = [status |-> row.status, direction |-> row.direction, entry |-> row.entry,
                 risk |-> row.risk, volume |-> row.volume, left |-> row.left, pnl |-> row.pnl,
                 partialPnl |-> row.partialPnl, action |-> row.action,
                 managed |-> row.managed, closed |-> row.closed]
      BY <3>2 DEF Position
    <3>4. x = [status |-> "closed", direction |-> row.direction, entry |-> row.entry,
               risk |-> row.risk, volume |-> row.volume, left |-> 0, pnl |-> gain,
               partialPnl |-> row.partialPnl, action |-> row.action,
               managed |-> row.managed, closed |-> day]
      BY <3>1, <3>3
    <3>5. QED
      BY <1>1, <2>2, <3>2, <3>4 DEF Position
  <2> HIDE DEF x
  <2>4. Realized(x) = Realized(row) + gain
    BY <1>2, <2>3 DEF Realized
  <2>5. book' = [book EXCEPT ![p] = x] /\ booked' = [booked EXCEPT ![day] = @ + gain]
    BY <2>1 DEF ManagePosition
  <2>6. QED
    BY <2>2, <2>3, <2>4, <2>5, BooksMove
<1>9. QED
  BY <1>5, <1>6, <1>7, <1>8

-----------------------------------------------------------------------------
(* The theorems                                                            *)

LEMMA PipelineInitially == Init => PipelineInv
BY BooksInitially, JournalInitially DEF Init, PipelineInv

LEMMA PipelineKept == PipelineInv /\ [Next]_vars => PipelineInv'
<1> SUFFICES ASSUME PipelineInv, [Next]_vars
             PROVE  PipelineInv'
  OBVIOUS
<1>1. MarketType /\ BookType /\ RealizedIsBooked /\ JournalInv /\ day \in 0..MaxDay
  BY DEF PipelineInv, MarketType
<1>2. UNCHANGED <<book, booked>> => BookType' /\ RealizedIsBooked'
  BY <1>1 DEF BookType, RealizedIsBooked, Banked
<1>3. UNCHANGED <<market, day>> => MarketType'
  BY <1>1 DEF MarketType
<1>4. UNCHANGED demo => JournalInv'
  BY <1>1, JournalKept
<1>5. CASE NewCandle
  <2>1. PICK move \in Moves :
          candles' = Append(Tail(candles), NextCandle(Last(candles).close, move))
    BY <1>5 DEF NewCandle
  <2>2. candles' \in Windows
    BY <1>1, <2>1, LastClose, NextCandleType, NextWindowType DEF MarketType
  <2>3. context' = Context(candles') /\ UNCHANGED <<day, book, booked>> /\ UNCHANGED demo
    BY <1>5 DEF NewCandle, demo
  <2>4. MarketType'
    BY <1>1, <2>2, <2>3, ContextType DEF MarketType
  <2>5. QED
    BY <1>2, <1>4, <2>3, <2>4 DEF PipelineInv
<1>6. ASSUME NEW state, ExecutePaper(state)
      PROVE  PipelineInv'
  <2>1. UNCHANGED <<market, day>> /\ UNCHANGED demo
    BY <1>6 DEF ExecutePaper, demo
  <2>2. QED
    BY <1>1, <1>3, <1>4, <1>6, <2>1, OpeningKeepsBooks DEF PipelineInv
<1>7. CASE NextDay
  <2>1. day' \in 0..MaxDay /\ UNCHANGED <<book, booked, candles, context>> /\ UNCHANGED demo
    BY <1>1, <1>7, BoundAssumption DEF NextDay, demo
  <2>2. MarketType'
    BY <1>1, <2>1 DEF MarketType
  <2>3. QED
    BY <1>2, <1>4, <2>1, <2>2 DEF PipelineInv
<1>8. CASE DemoStep \/ Restart
  <2>1. DemoNext(day) \/ DemoCrash
    BY <1>8 DEF DemoStep, Restart
  <2>2. UNCHANGED <<market, day>> /\ UNCHANGED <<book, booked>>
    BY <1>8 DEF DemoStep, Restart
  <2>3. JournalInv'
    BY <1>1, <2>1, JournalKept
  <2>4. QED
    BY <1>2, <1>3, <2>2, <2>3 DEF PipelineInv
<1>9. ASSUME NEW p \in Positions, Mark(p) \/ PartialClose(p) \/ MoveStop(p) \/ Close(p)
      PROVE  PipelineInv'
  <2>1. UNCHANGED <<market, day>> /\ UNCHANGED demo
    BY <1>9 DEF Mark, PartialClose, MoveStop, Close, ManagePosition, demo
  <2>2. QED
    BY <1>1, <1>3, <1>4, <1>9, <2>1, ManagingKeepsBooks DEF PipelineInv
<1>10. CASE UNCHANGED vars
  <2>1. UNCHANGED <<market, day>> /\ UNCHANGED <<book, booked>> /\ UNCHANGED demo
    BY <1>10 DEF vars, demo
  <2>2. QED
    BY <1>2, <1>3, <1>4, <2>1 DEF PipelineInv
<1>11. QED
  BY <1>5, <1>6, <1>7, <1>8, <1>9, <1>10 DEF Next, WorkerTrade, EndpointTrade

LEMMA PipelineInvariant == Spec => []PipelineInv
BY PipelineInitially, PipelineKept, PTL DEF Spec

LEMMA BalanceFromBooks == PipelineInv => BalanceTellsBooked
<1> SUFFICES ASSUME PipelineInv PROVE BalanceTellsBooked
  OBVIOUS
<1>1. RealizedPnl = Banked(book)
  BY RealizedIsBanked DEF PipelineInv, BookType, RealizedPnl, Partial, Earnings, Open, Closed
<1>2. QED
  BY <1>1 DEF PipelineInv, RealizedIsBooked, BalanceTellsBooked, Balance

\* The balance of persistent_paper_account is the starting balance and all
\* that was ever realised, partial closes included, whatever the market did.
THEOREM BalanceIsExact == Spec => []BalanceTellsBooked
BY PipelineInvariant, BalanceFromBooks, PTL

\* A demo trade the engine counts as open has its open row in the journal
\* whenever no request is busy with it.
THEOREM OpenTradesHaveRows == Spec => []OpenTradesAreJournaled
<1>1. PipelineInv => OpenTradesAreJournaled
  BY DEF PipelineInv, JournalInv
<1>2. QED
  BY <1>1, PipelineInvariant, PTL

-----------------------------------------------------------------------------
(* What the worker may put at risk                                         *)

\* A quotient times its divisor is no more than what was divided.
LEMMA Quotient ==
  ASSUME NEW a \in Int, NEW d \in Nat \ {0}
  PROVE  a \div d \in Int /\ d * (a \div d) <= a
OBVIOUS

LEMMA Scaling ==
  ASSUME NEW a \in Int, NEW b \in Int, NEW c \in Nat, a <= b
  PROVE  c * a <= c * b
OBVIOUS

\* A size that is given at all is paid for by the risk budget.
LEMMA SizeIsPaidFor ==
  ASSUME NEW equity \in Int, NEW entry \in Int, NEW stop \in Int,
         Risk!Span(entry, stop) > 0,
         Risk!PositionSize(equity, entry, stop) \in VolumeMin..VolumeMax
  PROVE  100 * (Risk!Span(entry, stop) * Risk!PositionSize(equity, entry, stop))
           <= RiskPercent * (Unit * equity)
<1> DEFINE span == Risk!Span(entry, stop)
           size == Risk!PositionSize(equity, entry, stop)
           money == (equity * RiskPercent) * Unit
           budget == money \div 100
           steps == budget \div span
<1>1. /\ RiskPercent \in Nat /\ VolumeMin \in Nat \ {0} /\ VolumeMax \in Nat
      /\ Unit \in Nat \ {0}
  BY RiskAssumption, PeriodTypes DEF Risk!ValidRiskConfig
<1>2. span \in Nat \ {0}
  BY DEF Risk!Span
<1>3. size = IF steps < VolumeMin THEN 0 ELSE IF steps > VolumeMax THEN VolumeMax ELSE steps
  BY DEF Risk!PositionSize, Risk!RiskAmount
<1>4. money \in Int /\ size \in Int
  BY <1>1
<1> HIDE DEF span, size, money
<1>5. budget \in Int /\ 100 * budget <= money
  BY <1>4, Quotient
<1> HIDE DEF budget
<1>6. steps \in Int /\ span * steps <= budget
  BY <1>2, <1>5, Quotient
<1> HIDE DEF steps
<1>7. size <= steps
  <2>1. size \in VolumeMin..VolumeMax
    BY DEF size
  <2>2. QED
    BY <1>1, <1>3, <1>6, <2>1
<1>8. span * size <= span * steps
  BY <1>2, <1>4, <1>6, <1>7, Scaling
<1>9. span * size \in Int /\ span * steps \in Int
  BY <1>2, <1>4, <1>6
<1>10. 100 * (span * size) <= money
  BY <1>4, <1>5, <1>6, <1>8, <1>9
<1>11. money = RiskPercent * (Unit * equity)
  BY <1>1 DEF money
<1>12. QED
  BY <1>10, <1>11 DEF span, size

\* The equity the engines are told is money that is there.
LEMMA EquityIsThere ==
  ASSUME PipelineInv
  PROVE  Equity \in Int /\ Wealth \in Int /\ Unit * Equity <= Wealth
<1>1. BalanceTellsBooked
  BY BalanceFromBooks
<1> DEFINE total == SumFunctionOnSet(booked, 0..MaxDay)
<1>2. total \in Int
  <2>1. \A d \in 0..MaxDay : booked[d] \in Int
    BY DEF PipelineInv, BookType
  <2>2. IsFiniteSet(0..MaxDay)
    BY BoundAssumption, FS_Interval
  <2>3. QED
    BY <2>1, <2>2, SumType
<1>3. UnrealizedPnl \in Int
  <2>1. IsFiniteSet(Open) /\ \A p \in Open : Pnl[p] \in Int
    BY BoundAssumption, FS_Subset DEF Open, Pnl, PipelineInv, BookType, Position
  <2>2. QED
    BY <2>1, SumType DEF UnrealizedPnl
<1>4. StartBalance * Unit \in Int
  BY MarketAssumption, PeriodTypes
<1>5. Wealth \in Int
  BY <1>2, <1>3, <1>4 DEF Wealth
<1>6. Equity = Wealth \div Unit
  BY <1>1, <1>2, <1>3, <1>4 DEF Equity, BalanceTellsBooked, Wealth
<1>7. QED
  BY <1>5, <1>6, PeriodTypes, Quotient

ExposureOf(b) ==
  SumFunctionOnSet([q \in Positions |-> b[q].risk * b[q].left],
                   {q \in Positions : b[q].status = "open"})

\* Opening a position adds what its stop costs to what all stops cost.
LEMMA ExposureAdds ==
  ASSUME NEW b \in [Positions -> Position], NEW p \in Positions, b[p].status = "none",
         NEW x \in Position, x.status = "open"
  PROVE  ExposureOf([b EXCEPT ![p] = x]) = x.risk * x.left + ExposureOf(b)
<1> DEFINE c == [b EXCEPT ![p] = x]
           before == [q \in Positions |-> b[q].risk * b[q].left]
           after == [q \in Positions |-> c[q].risk * c[q].left]
           open == {q \in Positions : b[q].status = "open"}
           opened == {q \in Positions : c[q].status = "open"}
<1>1. /\ IsFiniteSet(opened) /\ IsFiniteSet(open)
      /\ \A q \in opened : after[q] \in Int
  <2>1. \A q \in Positions : after[q] \in Int
    <3> TAKE q \in Positions
    <3>1. c[q] \in Position
      OBVIOUS
    <3>2. c[q].risk \in Int /\ c[q].left \in Int
      BY <3>1 DEF Position
    <3>3. QED
      BY <3>2
  <2>2. opened \in SUBSET Positions /\ open \in SUBSET Positions
    OBVIOUS
  <2>3. QED
    BY <2>1, <2>2, BoundAssumption, FS_Subset
<1>2. p \in opened /\ opened \ {p} = open
  OBVIOUS
<1>3. after[p] = x.risk * x.left
  OBVIOUS
<1>4. \A q \in open : after[q] = before[q]
  OBVIOUS
<1> HIDE DEF before, after, open, opened
<1>5. SumFunctionOnSet(after, opened) = after[p] + SumFunctionOnSet(after, open)
  BY <1>1, <1>2, SumAdds
<1>6. SumFunctionOnSet(after, open) = SumFunctionOnSet(before, open)
  BY <1>1, <1>4, SumAgrees
<1>7. QED
  BY <1>3, <1>5, <1>6 DEF ExposureOf, before, after, open, opened

LEMMA OpeningIsBounded ==
  ASSUME PipelineInv, WorkerTrade
  PROVE  /\ \A q \in Open' \ Open :
              100 * (book'[q].risk * book'[q].volume) <= RiskPercent * Wealth
         /\ 100 * StopCosts' <= ExposurePercent * Wealth
<1>1. PICK decision \in Decisions, p \in Positions :
        /\ book[p].status = "none" /\ Approved(decision, PersistentRiskState)
        /\ book' = [book EXCEPT ![p] = Opened(decision.proposal)]
  BY DEF WorkerTrade, ExecutePaper
<1> DEFINE x == Opened(decision.proposal)
           entry == decision.proposal.entry
           stop == decision.proposal.stop
           span == Risk!Span(entry, stop)
           volume == Risk!PositionSize(Equity, entry, stop)
<1>2. MarketType /\ BookType /\ Equity \in Int /\ Wealth \in Int /\ Unit * Equity <= Wealth
  BY EquityIsThere DEF PipelineInv
<1>3. x \in Position /\ x.status = "open" /\ x.risk = span /\ x.volume = volume /\ x.left = volume
  <2>1. x \in Position /\ x.status = "open"
    BY <1>1, <1>2, OpenedType
  <2> HIDE DEF span, volume
  <2>2. x = [NoPosition EXCEPT
               !.status = "open", !.direction = decision.proposal.direction, !.entry = entry,
               !.risk = span, !.volume = volume, !.left = volume]
    BY DEF Opened, span, volume
  <2> HIDE DEF x, entry
  <2>3. x.risk = span /\ x.volume = volume /\ x.left = volume
    BY <2>2 DEF NoPosition
  <2>4. QED
    BY <2>1, <2>3
<1>4. entry \in Int /\ stop \in Int
  BY <1>1, <1>2, DecisionType DEF MarketType, Approved
<1>5. /\ volume \in VolumeMin..VolumeMax /\ span > 0
      /\ 100 * (PersistentRiskState.exposure + Risk!StopCost(entry, stop, volume))
           <= Unit * (Equity * ExposurePercent)
  BY <1>1 DEF Approved, Risk!PreTradeCheck, Risk!VolumeAllowed, Risk!RewardAllowed,
              Risk!TotalExposureLimit
<1>6. span \in Int /\ volume \in Int
  BY <1>4, <1>5, RiskAssumption DEF Risk!Span, Risk!ValidRiskConfig
<1>7. 100 * (span * volume) <= RiskPercent * (Unit * Equity)
  BY <1>2, <1>4, <1>5, SizeIsPaidFor
<1>8. RiskPercent \in Nat /\ ExposurePercent \in Nat /\ Unit * Equity \in Int
  BY <1>2, RiskAssumption, PeriodTypes DEF Risk!ValidRiskConfig
<1> HIDE DEF x, entry, stop, span, volume
<1>9. book' = [book EXCEPT ![p] = x] /\ book'[p] = x
  BY <1>1, <1>2 DEF x, BookType
<1>10. ASSUME NEW q \in Open' \ Open
       PROVE  100 * (book'[q].risk * book'[q].volume) <= RiskPercent * Wealth
  <2>1. q = p
    BY <1>9, <1>2 DEF Open, BookType
  <2>2. book'[q].risk * book'[q].volume = span * volume
    BY <1>3, <1>9, <2>1
  <2>3. RiskPercent * (Unit * Equity) <= RiskPercent * Wealth
    BY <1>2, <1>8, Scaling
  <2>4. span * volume \in Int /\ RiskPercent * (Unit * Equity) \in Int
        /\ RiskPercent * Wealth \in Int
    BY <1>2, <1>6, <1>8
  <2>5. QED
    BY <1>7, <2>2, <2>3, <2>4
<1>11. 100 * StopCosts' <= ExposurePercent * Wealth
  <2>1. StopCosts' = x.risk * x.left + StopCosts
    <3>1. ExposureOf(book') = x.risk * x.left + ExposureOf(book)
      <4>1. ExposureOf([book EXCEPT ![p] = x]) = x.risk * x.left + ExposureOf(book)
        BY <1>1, <1>2, <1>3, ExposureAdds DEF BookType
      <4>2. QED
        BY <1>9, <4>1
    <3>2. QED
      BY <3>1 DEF ExposureOf, StopCosts, StopRisk, Open
  <2>2. PersistentRiskState.exposure = StopCosts
    BY DEF PersistentRiskState, TotalExposure, StopCosts
  <2>3. Risk!StopCost(entry, stop, volume) = span * volume
    BY DEF Risk!StopCost, span
  <2>4. StopCosts \in Int
    <3>1. IsFiniteSet(Open)
      BY BoundAssumption, FS_Subset DEF Open
    <3>2. \A q \in Open : StopRisk[q] \in Int
      <4> TAKE q \in Open
      <4>1. q \in Positions /\ book[q] \in Position
        BY <1>2 DEF Open, BookType
      <4>2. book[q].risk \in Int /\ book[q].left \in Int
        BY <4>1 DEF Position
      <4>3. QED
        BY <4>1, <4>2 DEF StopRisk
    <3>3. QED
      BY <3>1, <3>2, SumType DEF StopCosts
  <2>5. StopCosts' = StopCosts + span * volume /\ span * volume \in Int
    BY <1>3, <1>6, <2>1, <2>4
  <2>6. 100 * StopCosts' <= Unit * (Equity * ExposurePercent)
    BY <1>5, <2>2, <2>3, <2>4, <2>5
  <2>7. Unit * (Equity * ExposurePercent) = ExposurePercent * (Unit * Equity)
    BY <1>2, <1>8, PeriodTypes
  <2>8. ExposurePercent * (Unit * Equity) <= ExposurePercent * Wealth
    BY <1>2, <1>8, Scaling
  <2>9. ExposurePercent * (Unit * Equity) \in Int /\ ExposurePercent * Wealth \in Int
        /\ 100 * StopCosts' \in Int
    BY <1>2, <1>8, <2>4, <2>5
  <2>10. QED
    BY <2>6, <2>7, <2>8, <2>9
<1>12. QED
  BY <1>10, <1>11

\* Whatever the worker opens, its stop costs no more than the risk per trade
\* and all stops together no more than the exposure limit, of the money that
\* is really there.
THEOREM WorkerRiskBounded == Spec => WorkerRiskIsBounded
<1> DEFINE Bounded == /\ \A p \in Open' \ Open :
                           100 * (book'[p].risk * book'[p].volume) <= RiskPercent * Wealth
                      /\ 100 * StopCosts' <= ExposurePercent * Wealth
<1>1. PipelineInv /\ [Next]_vars => [WorkerTrade => Bounded]_vars
  BY OpeningIsBounded
<1>2. QED
  BY <1>1, PipelineInvariant, PTL DEF Spec, WorkerRiskIsBounded

-----------------------------------------------------------------------------
(* A market upside down: the averages                                      *)

LEMMA EmaTurns ==
  ASSUME NEW n \in Nat, NEW s \in Series(n), NEW t \in Series(n), NEW period \in 1..n,
         NEW c \in Int, c % 2 = 0, \A i \in 1..n : t[i] = c - s[i]
  PROVE  \A i \in 1..(n - period + 1) : Ema(t, period)[i] = c - Ema(s, period)[i]
<1> DEFINE m == n - period + 1
           f == Ema(s, period)
           g == Ema(t, period)
           P == {i \in 1..m : g[i] = c - f[i]}
<1>1. f \in Series(m) /\ \A i \in 1..m :
        f[i] = IF i = 1 THEN Mean(s, 1..period)
               ELSE f[i - 1] + Rounded(2 * (s[period + i - 1] - f[i - 1]), period + 1)
  BY EmaUnfolds
<1>2. g \in Series(m) /\ \A i \in 1..m :
        g[i] = IF i = 1 THEN Mean(t, 1..period)
               ELSE g[i - 1] + Rounded(2 * (t[period + i - 1] - g[i - 1]), period + 1)
  BY EmaUnfolds
<1>3. m \in Nat /\ period \in Nat \ {0} /\ \A i \in 1..m : period + i - 1 \in 1..n
  OBVIOUS
<1>4. \A x \in 1..n : s[x] \in Int /\ t[x] = c - s[x]
  BY DEF Series
<1> HIDE DEF f, g, m
<1>5. ASSUME NEW i \in 1..m, i = 1 \/ i - 1 \in P
      PROVE  i \in P
  <2>1. CASE i = 1
    <3>1. IsFiniteSet(1..period) /\ 1..period # {} /\ \A x \in 1..period : s[x] \in Int
      BY SeedType
    <3>2. \A x \in 1..period : s[x] \in Int /\ t[x] = c - s[x]
      <4>1. \A x \in 1..period : x \in 1..n
        OBVIOUS
      <4>2. QED
        BY <1>4, <4>1
    <3> DEFINE S == 1..period
    <3>3. IsFiniteSet(S) /\ S # {} /\ \A x \in S : s[x] \in Int /\ t[x] = c - s[x]
      BY <3>1, <3>2
    <3> HIDE DEF S
    <3>4. Mean(t, S) = c - Mean(s, S)
      BY <3>3, MeanTurns
    <3>5. Mean(t, 1..period) = c - Mean(s, 1..period)
      BY <3>4 DEF S
    <3>6. QED
      BY <1>1, <1>2, <2>1, <3>5
  <2>2. CASE i # 1
    <3> DEFINE v == s[period + i - 1]
               a == 2 * (v - f[i - 1])
    <3>1. i - 1 \in 1..m /\ g[i - 1] = c - f[i - 1]
      BY <1>3, <1>5, <2>2
    <3>2. v \in Int /\ f[i - 1] \in Int /\ t[period + i - 1] = c - v
      BY <1>1, <1>3, <1>4, <3>1 DEF Series
    <3>3. f[i] = f[i - 1] + Rounded(a, period + 1)
      BY <1>1, <2>2
    <3>4. g[i] = g[i - 1] + Rounded(2 * (t[period + i - 1] - g[i - 1]), period + 1)
      BY <1>2, <2>2
    <3> HIDE DEF v
    <3>5. 2 * (t[period + i - 1] - g[i - 1]) = -a /\ a \in Int
      BY <3>1, <3>2
    <3> HIDE DEF a
    <3>6. Rounded(-a, period + 1) = -Rounded(a, period + 1) /\ Rounded(a, period + 1) \in Int
      <4>1. period + 1 \in Nat \ {0}
        BY <1>3
      <4>2. QED
        BY <3>5, <4>1, RoundedIsOdd, RoundedType
    <3>7. QED
      BY <3>1, <3>2, <3>3, <3>4, <3>5, <3>6
  <2>3. QED
    BY <2>1, <2>2
<1> HIDE DEF P
<1>6. \A i \in 1..m : i \in P
  BY <1>3, <1>5, StepByStep
<1>7. QED
  BY <1>6 DEF P, f, g, m

\* latest_ema: the last of the averages.
LEMMA LatestEma ==
  ASSUME NEW n \in Nat, NEW s \in Series(n), NEW period \in 1..n
  PROVE  /\ Last(Ema(s, period)) = Ema(s, period)[n - period + 1]
         /\ Last(Ema(s, period)) \in Int
<1> DEFINE m == n - period + 1
           f == Ema(s, period)
<1>1. f \in Series(m) /\ m \in Nat \ {0}
  BY EmaUnfolds
<1> HIDE DEF f, m
<1>2. Len(f) = m /\ m \in 1..m
  BY <1>1 DEF Series
<1>3. f[m] \in Int
  BY <1>1, <1>2 DEF Series
<1>4. QED
  BY <1>2, <1>3 DEF Last, f, m

LEMMA LatestEmaTurns ==
  ASSUME NEW n \in Nat, NEW s \in Series(n), NEW t \in Series(n), NEW period \in 1..n,
         NEW c \in Int, c % 2 = 0, \A i \in 1..n : t[i] = c - s[i]
  PROVE  Last(Ema(t, period)) = c - Last(Ema(s, period))
<1>1. n - period + 1 \in 1..(n - period + 1)
  OBVIOUS
<1>2. Ema(t, period)[n - period + 1] = c - Ema(s, period)[n - period + 1]
  BY <1>1, EmaTurns
<1>3. QED
  BY <1>2, LatestEma

\* What MACD makes of the closes s: the line and its last values.
MacdLine(s) ==
  [i \in DOMAIN Ema(s, MacdPeriods[2]) |->
     Ema(s, MacdPeriods[1])[i + MacdPeriods[2] - MacdPeriods[1]] - Ema(s, MacdPeriods[2])[i]]

LEMMA MacdPeriodTypes ==
  /\ MacdPeriods[1] \in 1..MinimumCandles /\ MacdPeriods[2] \in 1..MinimumCandles
  /\ MacdPeriods[1] < MacdPeriods[2]
  /\ MacdPeriods[3] \in 1..(MinimumCandles - MacdPeriods[2] + 1)
<1>1. \A i \in 1..3 : MacdPeriods[i] \in Nat \ {0}
  BY PeriodAssumption
<1>2. MacdPeriods[1] \in Nat \ {0} /\ MacdPeriods[2] \in Nat \ {0} /\ MacdPeriods[3] \in Nat \ {0}
  BY <1>1
<1>3. MacdPeriods[1] < MacdPeriods[2] /\ MacdPeriods[2] + MacdPeriods[3] - 1 <= MinimumCandles
  BY PeriodAssumption
<1>4. QED
  BY <1>2, <1>3, PeriodTypes

LEMMA MacdLineType ==
  ASSUME NEW s \in Series(MinimumCandles)
  PROVE  /\ MacdLine(s) \in Series(MinimumCandles - MacdPeriods[2] + 1)
         /\ \A i \in 1..(MinimumCandles - MacdPeriods[2] + 1) :
              /\ i + MacdPeriods[2] - MacdPeriods[1] \in 1..(MinimumCandles - MacdPeriods[1] + 1)
              /\ Ema(s, MacdPeriods[2])[i] \in Int
              /\ Ema(s, MacdPeriods[1])[i + MacdPeriods[2] - MacdPeriods[1]] \in Int
              /\ MacdLine(s)[i] =
                   Ema(s, MacdPeriods[1])[i + MacdPeriods[2] - MacdPeriods[1]]
                   - Ema(s, MacdPeriods[2])[i]
<1> DEFINE p == MacdPeriods[1]
           q == MacdPeriods[2]
           m == MinimumCandles - q + 1
           fast == Ema(s, p)
           slow == Ema(s, q)
<1>1. /\ p \in Nat \ {0} /\ q \in Nat \ {0} /\ p < q /\ q <= MinimumCandles
      /\ MinimumCandles \in Nat
  BY MacdPeriodTypes, PeriodTypes
<1>2. fast \in Series(MinimumCandles - p + 1) /\ slow \in Series(m)
  BY MacdPeriodTypes, PeriodTypes, EmaUnfolds
<1>3. MacdLine(s) = [i \in DOMAIN slow |-> fast[i + q - p] - slow[i]]
  BY DEF MacdLine
<1> HIDE DEF fast, slow, p, q
<1>4. DOMAIN slow = 1..m /\ \A i \in 1..m : slow[i] \in Int
  BY <1>2 DEF Series
<1>5. \A i \in 1..m : i + q - p \in 1..(MinimumCandles - p + 1)
  BY <1>1
<1>6. \A i \in 1..m : fast[i + q - p] \in Int
  BY <1>2, <1>5 DEF Series
<1> HIDE DEF m
<1>7. MacdLine(s) = [i \in 1..m |-> fast[i + q - p] - slow[i]]
  BY <1>3, <1>4
<1>8. \A i \in 1..m : fast[i + q - p] - slow[i] \in Int
  BY <1>4, <1>6
<1>9. MacdLine(s) \in Series(m)
  BY <1>7, <1>8 DEF Series
<1>10. QED
  BY <1>4, <1>5, <1>6, <1>7, <1>9 DEF fast, slow, p, q, m

LEMMA MacdTurns ==
  ASSUME NEW s \in Series(MinimumCandles), NEW t \in Series(MinimumCandles),
         NEW c \in Int, c % 2 = 0, \A i \in 1..MinimumCandles : t[i] = c - s[i]
  PROVE  /\ Macd(s).line \in Int /\ Macd(s).signal \in Int
         /\ Macd(t).line = -Macd(s).line /\ Macd(t).signal = -Macd(s).signal
<1> DEFINE p == MacdPeriods[1]
           q == MacdPeriods[2]
           m == MinimumCandles - q + 1
           line == MacdLine(s)
           other == MacdLine(t)
<1>1. /\ MinimumCandles \in Nat /\ p \in 1..MinimumCandles /\ q \in 1..MinimumCandles
      /\ MacdPeriods[3] \in 1..m
  BY MacdPeriodTypes, PeriodTypes
<1>2. m \in Nat /\ m \in 1..m
  BY <1>1
<1>3. line \in Series(m) /\ other \in Series(m)
  BY MacdLineType
<1>4. \A i \in 1..m : other[i] = 0 - line[i]
  <2> TAKE i \in 1..m
  <2>1. Ema(t, q)[i] = c - Ema(s, q)[i]
    BY <1>1, EmaTurns
  <2>2. i + q - p \in 1..(MinimumCandles - p + 1)
    BY MacdLineType
  <2>3. Ema(t, p)[i + q - p] = c - Ema(s, p)[i + q - p]
    BY <1>1, <2>2, EmaTurns
  <2>4. Ema(s, q)[i] \in Int /\ Ema(s, p)[i + q - p] \in Int
    BY MacdLineType
  <2>5. line[i] = Ema(s, p)[i + q - p] - Ema(s, q)[i]
    BY MacdLineType
  <2>6. other[i] = Ema(t, p)[i + q - p] - Ema(t, q)[i]
    BY MacdLineType
  <2>7. QED
    BY <2>1, <2>3, <2>4, <2>5, <2>6
<1>5. /\ Macd(s) = [line |-> Last(line), signal |-> Last(Ema(line, MacdPeriods[3]))]
      /\ Macd(t) = [line |-> Last(other), signal |-> Last(Ema(other, MacdPeriods[3]))]
  BY DEF Macd, MacdLine
<1> HIDE DEF line, other, m
<1>6. Last(Ema(other, MacdPeriods[3])) = 0 - Last(Ema(line, MacdPeriods[3]))
      /\ Last(Ema(line, MacdPeriods[3])) \in Int
  BY <1>1, <1>2, <1>3, <1>4, LatestEma, LatestEmaTurns
<1>7. Last(line) = line[m] /\ Last(other) = other[m] /\ line[m] \in Int
  BY <1>2, <1>3 DEF Series, Last
<1>8. QED
  BY <1>2, <1>4, <1>5, <1>6, <1>7

-----------------------------------------------------------------------------
(* A market upside down: RSI, trend and signal                             *)

Rises(s) == [i \in 1..(Len(s) - 1) |-> Larger(s[i + 1] - s[i], 0)]
Falls(s) == [i \in 1..(Len(s) - 1) |-> Larger(-(s[i + 1] - s[i]), 0)]

LEMMA RsiOfAverages ==
  ASSUME NEW s \in Series(MinimumCandles)
  PROVE  /\ Smoothed(Rises(s), RsiPeriod) \in Nat /\ Smoothed(Falls(s), RsiPeriod) \in Nat
         /\ Rsi(s) =
              IF Smoothed(Falls(s), RsiPeriod) = 0
                THEN IF Smoothed(Rises(s), RsiPeriod) = 0 THEN 50 * Unit ELSE 100 * Unit
                ELSE Rounded(100 * Unit * Smoothed(Rises(s), RsiPeriod),
                             Smoothed(Rises(s), RsiPeriod) + Smoothed(Falls(s), RsiPeriod))
<1> DEFINE n == MinimumCandles - 1
           change == [i \in 1..(Len(s) - 1) |-> s[i + 1] - s[i]]
<1>1. Len(s) = MinimumCandles /\ RsiPeriod \in 1..n /\ n \in Nat
  <2>1. s \in Seq(Int) /\ Len(s) = MinimumCandles
    BY PeriodTypes DEF Series
  <2>2. RsiPeriod \in Nat \ {0} /\ RsiPeriod + 1 <= MinimumCandles
    BY PeriodAssumption
  <2>3. QED
    BY <2>1, <2>2, PeriodTypes
<1>2. \A i \in 1..n : s[i + 1] \in Int /\ s[i] \in Int
  <2>1. \A i \in 1..n : i \in 1..MinimumCandles /\ i + 1 \in 1..MinimumCandles
    BY PeriodTypes
  <2>2. QED
    BY <2>1 DEF Series
<1> HIDE DEF n
<1>3. /\ Rises(s) = [i \in 1..n |-> Larger(s[i + 1] - s[i], 0)]
      /\ Falls(s) = [i \in 1..n |-> Larger(-(s[i + 1] - s[i]), 0)]
  BY <1>1 DEF Rises, Falls, n
<1>4. \A i \in 1..n : /\ Larger(s[i + 1] - s[i], 0) \in Nat
                      /\ Larger(-(s[i + 1] - s[i]), 0) \in Nat
  BY <1>2 DEF Larger
<1>5. /\ Rises(s) \in Series(n) /\ \A i \in 1..n : Rises(s)[i] \in Nat
      /\ Falls(s) \in Series(n) /\ \A i \in 1..n : Falls(s)[i] \in Nat
  BY <1>3, <1>4 DEF Series
<1>6. Smoothed(Rises(s), RsiPeriod) \in Nat /\ Smoothed(Falls(s), RsiPeriod) \in Nat
  BY <1>1, <1>5, SmoothedType
<1>7. /\ [i \in DOMAIN change |-> Larger(change[i], 0)] = Rises(s)
      /\ [i \in DOMAIN change |-> Larger(-change[i], 0)] = Falls(s)
  BY DEF Rises, Falls
<1>8. Rsi(s) =
        LET gain == Smoothed([i \in DOMAIN change |-> Larger(change[i], 0)], RsiPeriod)
            loss == Smoothed([i \in DOMAIN change |-> Larger(-change[i], 0)], RsiPeriod)
        IN  IF loss = 0
              THEN IF gain = 0 THEN 50 * Unit ELSE 100 * Unit
              ELSE Rounded(100 * Unit * gain, gain + loss)
  BY DEF Rsi
<1> HIDE DEF change
<1>9. QED
  BY <1>6, <1>7, <1>8

LEMMA RsiTurns ==
  ASSUME NEW s \in Series(MinimumCandles), NEW t \in Series(MinimumCandles),
         NEW c \in Int, \A i \in 1..MinimumCandles : t[i] = c - s[i]
  PROVE  Rsi(s) \in Int /\ Rsi(t) = 100 * Unit - Rsi(s)
<1> DEFINE gain == Smoothed(Rises(s), RsiPeriod)
           loss == Smoothed(Falls(s), RsiPeriod)
           full == 100 * Unit
<1>1. Rises(t) = Falls(s) /\ Falls(t) = Rises(s)
  <2>1. Len(s) = MinimumCandles /\ Len(t) = MinimumCandles
    BY PeriodTypes DEF Series
  <2>2. \A i \in 1..(MinimumCandles - 1) : i \in 1..MinimumCandles /\ i + 1 \in 1..MinimumCandles
    BY PeriodTypes
  <2>3. ASSUME NEW i \in 1..(MinimumCandles - 1)
        PROVE  /\ t[i + 1] - t[i] = -(s[i + 1] - s[i])
               /\ -(t[i + 1] - t[i]) = s[i + 1] - s[i]
    <3>1. s[i] \in Int /\ s[i + 1] \in Int /\ t[i] = c - s[i] /\ t[i + 1] = c - s[i + 1]
      BY <2>2 DEF Series
    <3>2. QED
      BY <3>1
  <2>4. QED
    BY <2>1, <2>3 DEF Rises, Falls
<1>2. gain \in Nat /\ loss \in Nat
  BY RsiOfAverages
<1>3. Rsi(s) = IF loss = 0 THEN IF gain = 0 THEN 50 * Unit ELSE full
               ELSE Rounded(full * gain, gain + loss)
  BY RsiOfAverages
<1>4. Rsi(t) = IF gain = 0 THEN IF loss = 0 THEN 50 * Unit ELSE full
               ELSE Rounded(full * loss, loss + gain)
  BY <1>1, RsiOfAverages
<1>5. full \in Int /\ full % 2 = 0 /\ full - 50 * Unit = 50 * Unit /\ 50 * Unit \in Int
  BY PeriodTypes
<1> HIDE DEF gain, loss, full
<1>6. CASE gain = 0 /\ loss = 0
  BY <1>3, <1>4, <1>5, <1>6 DEF full
<1>7. CASE gain # 0 /\ loss = 0
  <2>1. loss + gain \in Nat \ {0} /\ full * loss = 0
    BY <1>2, <1>5, <1>7
  <2>2. Rounded(0, loss + gain) = 0
    <3>1. Rounded(-0, loss + gain) = -Rounded(0, loss + gain)
      BY <2>1, RoundedIsOdd
    <3>2. Rounded(0, loss + gain) \in Int
      BY <2>1, RoundedType
    <3>3. QED
      BY <3>1, <3>2
  <2>3. QED
    BY <1>3, <1>4, <1>5, <1>7, <2>1, <2>2 DEF full
<1>8. CASE gain = 0 /\ loss # 0
  <2>1. gain + loss \in Nat \ {0} /\ full * gain = 0
    BY <1>2, <1>5, <1>8
  <2>2. Rounded(0, gain + loss) = 0
    <3>1. Rounded(-0, gain + loss) = -Rounded(0, gain + loss)
      BY <2>1, RoundedIsOdd
    <3>2. Rounded(0, gain + loss) \in Int
      BY <2>1, RoundedType
    <3>3. QED
      BY <3>1, <3>2
  <2>3. QED
    BY <1>3, <1>4, <1>5, <1>8, <2>1, <2>2 DEF full
<1>9. CASE gain # 0 /\ loss # 0
  <2> DEFINE both == gain + loss
             a == full * gain
  <2>1. both \in Nat \ {0} /\ a \in Int /\ loss + gain = both
    BY <1>2, <1>5, <1>9
  <2>2. full * loss = full * both - a
    BY <1>2, <1>5
  <2> HIDE DEF both, a
  <2>3. Rounded(full * both - a, both) = full - Rounded(a, both) /\ Rounded(a, both) \in Int
    BY <1>5, <2>1, RoundedTurns, RoundedType
  <2>4. QED
    BY <1>3, <1>4, <1>9, <2>1, <2>2, <2>3 DEF both, a, full
<1>10. QED
  BY <1>2, <1>6, <1>7, <1>8, <1>9

LEMMA SignTurns ==
  ASSUME NEW x \in Int, NEW y \in Int, NEW c \in Int
  PROVE  Sign(x, y) \in {-1, 0, 1} /\ Sign(c - x, c - y) = -Sign(x, y)
BY DEF Sign

LEMMA VoteTurns ==
  ASSUME NEW rsi \in Int
  PROVE  /\ RsiVote(rsi).points \in Int /\ RsiVote(rsi).score \in Int
         /\ RsiVote(100 * Unit - rsi).points = -RsiVote(rsi).points
         /\ RsiVote(100 * Unit - rsi).score = -RsiVote(rsi).score
<1> DEFINE other == 100 * Unit - rsi
<1>1. /\ Unit \in Int /\ Unit > 0 /\ other \in Int
      /\ rsi > 50 * Unit <=> other < 50 * Unit
      /\ rsi < 50 * Unit <=> other > 50 * Unit
      /\ rsi < 70 * Unit <=> other > 30 * Unit
      /\ rsi > 30 * Unit <=> other < 70 * Unit
      /\ 30 * Unit < 50 * Unit /\ 50 * Unit < 70 * Unit
      /\ 30 * Unit \in Int /\ 50 * Unit \in Int /\ 70 * Unit \in Int
  BY PeriodTypes
<1> HIDE DEF other
<1> DEFINE a == 30 * Unit
           b == 50 * Unit
           d == 70 * Unit
<1> HIDE DEF a, b, d
<1>2. /\ rsi > b <=> other < b
      /\ rsi < b <=> other > b
      /\ rsi < d <=> other > a
      /\ rsi > a <=> other < d
      /\ a < b /\ b < d /\ a \in Int /\ b \in Int /\ d \in Int
  BY <1>1 DEF a, b, d
<1>3. \A x \in Int :
        RsiVote(x) = CASE b < x /\ x < d -> [points |-> 1, score |-> 8]
                       [] a < x /\ x < b -> [points |-> -1, score |-> -8]
                       [] x >= d -> [points |-> 0, score |-> -3]
                       [] x <= a -> [points |-> 0, score |-> 3]
                       [] OTHER -> [points |-> 0, score |-> 0]
  BY DEF RsiVote, a, b, d
<1>4. CASE b < rsi /\ rsi < d
  BY <1>1, <1>2, <1>3, <1>4 DEF other
<1>5. CASE a < rsi /\ rsi < b
  BY <1>1, <1>2, <1>3, <1>5 DEF other
<1>6. CASE rsi >= d
  BY <1>1, <1>2, <1>3, <1>6 DEF other
<1>7. CASE rsi <= a
  BY <1>1, <1>2, <1>3, <1>7 DEF other
<1>8. CASE rsi = b
  BY <1>1, <1>2, <1>3, <1>8 DEF other
<1>9. QED
  BY <1>2, <1>4, <1>5, <1>6, <1>7, <1>8

LEMMA TrendTurns ==
  ASSUME NEW close \in Int, NEW ema20 \in Int, NEW ema50 \in Int, NEW rsi \in Int,
         NEW macd, NEW other, macd.line \in Int, macd.signal \in Int,
         other.line = -macd.line, other.signal = -macd.signal, NEW c \in Int
  PROVE  LET a == DetermineTrend(close, ema20, ema50, rsi, macd)
             r == DetermineTrend(c - close, c - ema20, c - ema50, 100 * Unit - rsi, other)
         IN  /\ r.trend = Opposite(a.trend) /\ r.signal = Opposite(a.signal)
             /\ r.score = 100 - a.score
<1> DEFINE price == Sign(close, ema20)
           order == Sign(ema20, ema50)
           momentum == Sign(macd.line, macd.signal)
           vote == RsiVote(rsi)
           votes == <<price, 2 * order, vote.points, momentum>>
           bullish == SumFunction([i \in 1..4 |-> Larger(votes[i], 0)])
           bearish == SumFunction([i \in 1..4 |-> Larger(-votes[i], 0)])
           sum == 8 * price + 12 * order + vote.score + 8 * momentum
           back == RsiVote(100 * Unit - rsi)
           backVotes == <<Sign(c - close, c - ema20), 2 * Sign(c - ema20, c - ema50),
                          back.points, Sign(other.line, other.signal)>>
<1>1. /\ price \in Int /\ order \in Int /\ momentum \in Int
      /\ Sign(c - close, c - ema20) = -price /\ Sign(c - ema20, c - ema50) = -order
      /\ Sign(other.line, other.signal) = -momentum
  <2>1. Sign(other.line, other.signal) = -momentum
    BY DEF Sign
  <2>2. Sign(c - close, c - ema20) = -price /\ Sign(c - ema20, c - ema50) = -order
    BY SignTurns
  <2>3. price \in {-1, 0, 1} /\ order \in {-1, 0, 1}
    BY SignTurns
  <2>4. momentum \in {-1, 0, 1}
    BY DEF Sign
  <2> HIDE DEF price, order, momentum
  <2>5. QED
    BY <2>1, <2>2, <2>3, <2>4
<1>2. /\ vote.points \in Int /\ vote.score \in Int
      /\ back.points = -vote.points /\ back.score = -vote.score
  BY VoteTurns
<1> HIDE DEF price, order, momentum, vote, back
<1>3. /\ votes \in [1..4 -> Int] /\ \A i \in 1..4 : backVotes[i] = -votes[i]
  <2>1. /\ votes[1] = price /\ votes[2] = 2 * order /\ votes[3] = vote.points
        /\ votes[4] = momentum /\ DOMAIN votes = 1..4
    OBVIOUS
  <2>2. /\ backVotes[1] = -price /\ backVotes[2] = 2 * (-order) /\ backVotes[3] = -vote.points
        /\ backVotes[4] = -momentum
    BY <1>1, <1>2
  <2>3. \A i \in 1..4 : i = 1 \/ i = 2 \/ i = 3 \/ i = 4
    OBVIOUS
  <2>4. 2 * (-order) = -(2 * order) /\ 2 * order \in Int
    BY <1>1
  <2>5. votes = [i \in 1..4 |-> votes[i]]
    BY <2>1
  <2> HIDE DEF votes, backVotes
  <2>6. \A i \in 1..4 : votes[i] \in Int
    BY <1>1, <1>2, <2>1, <2>3, <2>4
  <2>7. \A i \in 1..4 : backVotes[i] = -votes[i]
    BY <2>1, <2>2, <2>3, <2>4
  <2>8. QED
    BY <2>5, <2>6, <2>7
<1> HIDE DEF votes, backVotes
<1>4. /\ [i \in 1..4 |-> Larger(backVotes[i], 0)] = [i \in 1..4 |-> Larger(-votes[i], 0)]
      /\ [i \in 1..4 |-> Larger(-backVotes[i], 0)] = [i \in 1..4 |-> Larger(votes[i], 0)]
  <2>1. \A i \in 1..4 : backVotes[i] = -votes[i] /\ -backVotes[i] = votes[i]
    BY <1>3
  <2>2. QED
    BY <2>1
<1>5. bullish \in Int /\ bearish \in Int
  <2> DEFINE up == [i \in 1..4 |-> Larger(votes[i], 0)]
             down == [i \in 1..4 |-> Larger(-votes[i], 0)]
  <2>1. \A i \in 1..4 : up[i] \in Int /\ down[i] \in Int
    BY <1>3 DEF Larger
  <2>2. DOMAIN up = 1..4 /\ DOMAIN down = 1..4
    OBVIOUS
  <2>3. IsFiniteSet(1..4)
    <3>1. 1 \in Int /\ 4 \in Int
      OBVIOUS
    <3>2. QED
      BY <3>1, FS_Interval, Zenon
  <2> HIDE DEF up, down
  <2>4. SumFunctionOnSet(up, 1..4) \in Int /\ SumFunctionOnSet(down, 1..4) \in Int
    BY <2>1, <2>3, SumType
  <2>5. QED
    BY <2>2, <2>4 DEF SumFunction, up, down
<1>6. /\ SumFunction([i \in 1..4 |-> Larger(backVotes[i], 0)]) = bearish
      /\ SumFunction([i \in 1..4 |-> Larger(-backVotes[i], 0)]) = bullish
  BY <1>4
<1> DEFINE trendOf(up, down) == CASE up >= 3 /\ up > down -> "Bullish"
                                  [] down >= 3 /\ down > up -> "Bearish"
                                  [] OTHER -> "Neutral"
           assessed(trend, score) ==
             [trend |-> trend, score |-> score,
              signal |-> CASE trend = "Bullish" /\ score >= 65 -> "BUY"
                           [] trend = "Bearish" /\ score <= 35 -> "SELL"
                           [] OTHER -> "WAIT"]
           score == Clamp(50 + sum, 0, 100)
<1> HIDE DEF bullish, bearish
<1>7. DetermineTrend(close, ema20, ema50, rsi, macd) = assessed(trendOf(bullish, bearish), score)
  <2>1. 50 + sum = 50 + 8 * price + 12 * order + vote.score + 8 * momentum
    BY <1>1, <1>2
  <2>2. QED
    BY <2>1 DEF DetermineTrend, price, order, momentum, vote, votes, bullish, bearish
<1>8. DetermineTrend(c - close, c - ema20, c - ema50, 100 * Unit - rsi, other)
        = assessed(trendOf(bearish, bullish), 100 - score)
  <2>1. sum \in Int
    BY <1>1, <1>2
  <2>2. 50 + 8 * (-price) + 12 * (-order) + (-vote.score) + 8 * (-momentum) = 50 - sum
    BY <1>1, <1>2
  <2> HIDE DEF sum
  <2>3. Clamp(50 - sum, 0, 100) = 100 - score
    BY <2>1 DEF Clamp, Larger, Smaller
  <2>4. 50 + 8 * Sign(c - close, c - ema20) + 12 * Sign(c - ema20, c - ema50) + back.score
          + 8 * Sign(other.line, other.signal) = 50 - sum
    BY <1>1, <1>2, <2>2
  <2>5. DetermineTrend(c - close, c - ema20, c - ema50, 100 * Unit - rsi, other)
          = assessed(trendOf(SumFunction([i \in 1..4 |-> Larger(backVotes[i], 0)]),
                             SumFunction([i \in 1..4 |-> Larger(-backVotes[i], 0)])),
                     Clamp(50 - sum, 0, 100))
    <3> HIDE DEF trendOf, assessed
    <3>1. QED
      BY <2>4 DEF DetermineTrend, back, backVotes, trendOf, assessed
  <2>6. QED
    BY <1>6, <2>3, <2>5
<1>9. score \in Int
  <2>1. sum \in Int
    BY <1>1, <1>2
  <2> HIDE DEF sum
  <2>2. QED
    BY <2>1 DEF Clamp, Larger, Smaller
<1>10. trendOf(bearish, bullish) = Opposite(trendOf(bullish, bearish))
  BY <1>5 DEF Opposite
<1>11. trendOf(bullish, bearish) \in {"Bullish", "Bearish", "Neutral"}
  OBVIOUS
<1> HIDE DEF score, trendOf
<1>12. ASSUME NEW trend \in {"Bullish", "Bearish", "Neutral"}
       PROVE  assessed(Opposite(trend), 100 - score).signal = Opposite(assessed(trend, score).signal)
  BY <1>9, <1>12 DEF Opposite
<1>13. QED
  BY <1>7, <1>8, <1>10, <1>11, <1>12

-----------------------------------------------------------------------------
(* A market upside down: pressure                                          *)

\* Twice the price everything is turned round about, in ticks.
Axis == 2 * StartPrice

\* t is s turned round.
Opposed(s, t) ==
  /\ s \in Windows /\ t \in Windows
  /\ \A i \in 1..MinimumCandles :
       /\ t[i].close = Axis - s[i].close /\ t[i].volume = s[i].volume
       /\ t[i].high = Axis - s[i].low /\ t[i].low = Axis - s[i].high

LEMMA AxisType == Axis \in Int /\ Axis = 2 * StartPrice /\ Axis % 2 = 0
BY MarketAssumption DEF Axis

LEMMA CandlesOf ==
  ASSUME NEW s \in Windows, NEW i \in 1..MinimumCandles
  PROVE  /\ s[i].open \in Int /\ s[i].close \in Int /\ s[i].high \in Int
         /\ s[i].low \in Int /\ s[i].volume \in Int /\ s[i].low <= s[i].high
<1>1. s[i] \in Candle
  BY DEF Windows
<1>2. QED
  BY <1>1 DEF Candle

LEMMA ReflectedIsOpposed == ASSUME NEW s \in Windows PROVE Opposed(s, Reflected(s))
<1> DEFINE t == Reflected(s)
           n == MinimumCandles
<1>1. s \in Seq(Candle) /\ Len(s) = n /\ DOMAIN s = 1..n /\ n \in Nat
  BY PeriodTypes DEF Windows
<1>2. t = [i \in 1..n |->
             [open |-> Axis - s[i].open, close |-> Axis - s[i].close,
              high |-> Axis - s[i].low, low |-> Axis - s[i].high, volume |-> s[i].volume]]
  BY <1>1 DEF Reflected, Axis
<1> HIDE DEF t
<1>3. ASSUME NEW i \in 1..n
      PROVE  /\ t[i] \in Candle
             /\ t[i].close = Axis - s[i].close /\ t[i].volume = s[i].volume
             /\ t[i].high = Axis - s[i].low /\ t[i].low = Axis - s[i].high
  <2>1. t[i] = [open |-> Axis - s[i].open, close |-> Axis - s[i].close,
                high |-> Axis - s[i].low, low |-> Axis - s[i].high, volume |-> s[i].volume]
    BY <1>2
  <2>2. /\ s[i].open \in Int /\ s[i].close \in Int /\ s[i].high \in Int
        /\ s[i].low \in Int /\ s[i].volume \in Int /\ s[i].low <= s[i].high
    BY CandlesOf
  <2>3. QED
    BY <2>1, <2>2, AxisType DEF Candle
<1> HIDE DEF n
<1>4. t = [i \in 1..n |-> t[i]]
  BY <1>2
<1>5. t \in Seq(Candle) /\ Len(t) = n
  BY <1>1, <1>3, <1>4
<1>6. t \in Windows
  BY <1>5 DEF Windows, n
<1>7. QED
  BY <1>3, <1>6 DEF Opposed, t, n

LEMMA ClampTurns ==
  ASSUME NEW x \in Int, NEW bound \in Nat
  PROVE  Clamp(x, -bound, bound) \in Int /\ Clamp(-x, -bound, bound) = -Clamp(x, -bound, bound)
BY DEF Clamp, Larger, Smaller

LEMMA CandlePressureTurns ==
  ASSUME NEW c, NEW d, c.close \in Int, c.high \in Int, c.low \in Int, c.low <= c.high,
         d.close = Axis - c.close, d.high = Axis - c.low, d.low = Axis - c.high
  PROVE  CandlePressure(c) \in Int /\ CandlePressure(d) = -CandlePressure(c)
<1> DEFINE a == Unit * (2 * c.close - c.low - c.high)
           b == c.high - c.low
<1>1. Unit \in Nat /\ Axis \in Int
  BY PeriodTypes, AxisType
<1>2. a \in Int /\ b \in Nat
  BY <1>1
<1>3. Unit * (2 * d.close - d.low - d.high) = -a
  <2>1. 2 * d.close - d.low - d.high = -(2 * c.close - c.low - c.high)
    BY <1>1
  <2>2. 2 * c.close - c.low - c.high \in Int
    OBVIOUS
  <2>3. QED
    BY <1>1, <2>1, <2>2
<1>4. d.high - d.low = b /\ (d.high = d.low <=> b = 0) /\ (c.high = c.low <=> b = 0)
  BY <1>1
<1>5. CandlePressure(c) = IF b = 0 THEN 0 ELSE Clamp(Rounded(a, b), -Unit, Unit)
  BY <1>4 DEF CandlePressure
<1>6. CandlePressure(d) = IF b = 0 THEN 0 ELSE Clamp(Rounded(-a, b), -Unit, Unit)
  BY <1>3, <1>4 DEF CandlePressure
<1> HIDE DEF a, b
<1>7. CASE b = 0
  <2> DEFINE p == CandlePressure(c)
             q == CandlePressure(d)
  <2>1. p \in Int /\ q \in Int /\ p + q = 0
    BY <1>5, <1>6, <1>7
  <2> HIDE DEF p, q
  <2>2. q = -p
    BY <2>1
  <2>3. QED
    BY <2>1, <2>2 DEF p, q
<1>8. CASE b # 0
  <2>1. b \in Nat \ {0}
    BY <1>2, <1>8
  <2>2. Rounded(a, b) \in Int /\ Rounded(-a, b) = -Rounded(a, b)
    BY <1>2, <2>1, RoundedType, RoundedIsOdd
  <2>3. QED
    BY <1>1, <1>5, <1>6, <1>8, <2>2, ClampTurns
<1>9. QED
  BY <1>7, <1>8

\* What market pressure is made of: the recent candles, their volumes, the
\* weights of those, and the candles' pressures so weighted.
Recent(s) == SubSeq(s, Len(s) - Lookback + 1, Len(s))
Volumes(s) == [i \in DOMAIN Recent(s) |-> Recent(s)[i].volume]

Earlier(v) == {i \in 1..(Lookback - 1) : v[i] > 0}

AverageVolume(v) ==
  IF Earlier(v) = {} THEN Unit * Last(v) ELSE Mean(Scaled(v), Earlier(v))

Weights(v) ==
  [i \in DOMAIN v |->
     IF v[i] = 0 THEN 0
     ELSE Clamp(Rounded(v[i] * Unit * Unit, AverageVolume(v)), Unit \div 4, 3 * Unit)]

Pressures(s) ==
  [i \in DOMAIN Recent(s) |->
     IF Volumes(s)[i] = 0 THEN 0 ELSE CandlePressure(Recent(s)[i]) * Weights(Volumes(s))[i]]

PressureScore(s) ==
  Clamp(Rounded(100 * SumFunction(Pressures(s)), Unit * SumFunction(Weights(Volumes(s)))),
        -100, 100)

HasPressure(v) == (\E i \in DOMAIN v : v[i] # 0) /\ \A i \in DOMAIN v : ~(v[i] < 0)

LEMMA PressureUnfolds ==
  ASSUME NEW s
  PROVE  MarketPressure(s).score = IF HasPressure(Volumes(s)) THEN PressureScore(s) ELSE 0
<1>1. DOMAIN Volumes(s) = DOMAIN Recent(s)
  BY DEF Volumes
<1>2. Weights(Volumes(s)) =
        [i \in DOMAIN Recent(s) |->
           IF Volumes(s)[i] = 0 THEN 0
           ELSE Clamp(Rounded(Volumes(s)[i] * Unit * Unit, AverageVolume(Volumes(s))),
                      Unit \div 4, 3 * Unit)]
  BY <1>1 DEF Weights
<1>3. MarketPressure(s) =
        IF \/ \A i \in DOMAIN Recent(s) : Volumes(s)[i] = 0
           \/ \E i \in DOMAIN Recent(s) : Volumes(s)[i] < 0
          THEN NoPressure
          ELSE [available |-> TRUE, score |-> PressureScore(s), label |-> PressureLabel(PressureScore(s))]
  BY <1>2 DEF MarketPressure, Recent, Volumes, Earlier, AverageVolume, Pressures, PressureScore
<1>4. QED
  BY <1>1, <1>3 DEF HasPressure, NoPressure

LEMMA RecentType ==
  ASSUME NEW s \in Windows
  PROVE  /\ Lookback \in 2..MinimumCandles
         /\ Len(Recent(s)) = Lookback /\ DOMAIN Recent(s) = 1..Lookback
         /\ \A i \in 1..Lookback :
              /\ MinimumCandles - Lookback + i \in 1..MinimumCandles
              /\ Recent(s)[i] = s[MinimumCandles - Lookback + i]
         /\ Volumes(s) \in Series(Lookback)
<1> DEFINE n == MinimumCandles
           L == Lookback
<1>1. s \in Seq(Candle) /\ Len(s) = n /\ n \in Nat /\ L \in 2..n
  BY PeriodTypes, PeriodAssumption DEF Windows
<1> HIDE DEF n, L
<1>2. Recent(s) = SubSeq(s, n - L + 1, n)
  BY <1>1 DEF Recent, n, L
<1>3. Len(Recent(s)) = L /\ DOMAIN Recent(s) = 1..L
  BY <1>1, <1>2
<1>4. \A i \in 1..L : n - L + i \in 1..n /\ Recent(s)[i] = s[n - L + i]
  BY <1>1, <1>2
<1>5. \A i \in 1..L : Recent(s)[i].volume \in Int
  BY <1>4, CandlesOf DEF n
<1>6. Volumes(s) \in Series(L)
  BY <1>3, <1>5 DEF Volumes, Series
<1>7. QED
  BY <1>1, <1>3, <1>4, <1>6 DEF n, L

\* The mean of values of 1 and more is 1 or more.
LEMMA MeanIsPositive ==
  ASSUME NEW f, NEW S, IsFiniteSet(S), S # {}, \A x \in S : f[x] \in Nat \ {0}
  PROVE  Mean(f, S) \in Nat \ {0}
<1> DEFINE one == [x \in S |-> 1]
           rest == [x \in S |-> f[x] - 1]
           both == [x \in S |-> one[x] + rest[x]]
<1>1. \A x \in S : one[x] = 1 /\ rest[x] \in Nat /\ one[x] + rest[x] = f[x]
  OBVIOUS
<1>2. \A x \in S : both[x] = f[x]
  BY <1>1
<1>3. SumFunctionOnSet(one, S) + SumFunctionOnSet(rest, S) = SumFunctionOnSet(both, S)
  <2> HIDE DEF one, rest
  <2>1. \A x \in S : one[x] \in Int /\ rest[x] \in Int
    BY <1>1
  <2>2. QED
    BY <2>1, SumPlus
<1> HIDE DEF one, rest, both
<1>4. SumFunctionOnSet(one, S) = 1 * Cardinality(S)
  BY <1>1, SumOfEquals
<1>5. SumFunctionOnSet(rest, S) \in Nat
  BY <1>1, SumOfNaturals
<1>6. SumFunctionOnSet(both, S) = SumFunctionOnSet(f, S)
  BY <1>2, SumAgrees
<1>7. Cardinality(S) \in Nat \ {0}
  BY FS_CardinalityType, FS_EmptySet
<1>8. SumFunctionOnSet(f, S) \in Int /\ SumFunctionOnSet(f, S) >= Cardinality(S)
  BY <1>3, <1>4, <1>5, <1>6, <1>7
<1>9. Rounded(SumFunctionOnSet(f, S), Cardinality(S)) \in Int
      /\ Rounded(SumFunctionOnSet(f, S), Cardinality(S)) >= 1
  BY <1>7, <1>8, RoundedType
<1>10. QED
  BY <1>9 DEF Mean

\* Where volume says anything, the weights add up to more than nothing.
LEMMA WeightsType ==
  ASSUME NEW v \in Series(Lookback), HasPressure(v)
  PROVE  /\ \A i \in 1..Lookback : Weights(v)[i] \in Nat
         /\ DOMAIN Weights(v) = 1..Lookback
         /\ SumFunction(Weights(v)) \in Nat \ {0}
<1> DEFINE L == Lookback
           w == Weights(v)
           average == AverageVolume(v)
<1>1. L \in Nat /\ L >= 2 /\ L - 1 \in Nat
  BY PeriodAssumption, PeriodTypes
<1>2. DOMAIN v = 1..L /\ \A i \in 1..L : v[i] \in Nat
  BY DEF Series, HasPressure
<1>3. PICK p \in 1..L : v[p] # 0
  BY <1>2 DEF HasPressure
<1>4. Unit \in Nat /\ Unit >= 4 /\ Unit \div 4 >= 1 /\ Unit \div 4 \in Nat /\ 3 * Unit \in Nat
      /\ Unit \div 4 <= 3 * Unit
  BY PeriodAssumption
<1> HIDE DEF L
<1>5. average \in Nat \ {0}
  <2>1. CASE Earlier(v) = {}
    <3>1. ASSUME NEW i \in 1..(L - 1)
          PROVE  v[i] = 0
      <4>1. i \in 1..L /\ ~(v[i] > 0)
        BY <1>1, <2>1, <3>1 DEF Earlier, L
      <4>2. QED
        BY <1>2, <4>1
    <3>2. p = L
      BY <1>1, <1>3, <3>1
    <3>3. Len(v) = L
      <4>1. v \in Seq(Int) /\ Len(v) = L
        BY <1>1 DEF Series, L
      <4>2. QED
        BY <4>1
    <3>4. Last(v) \in Nat \ {0}
      BY <1>2, <1>3, <3>2, <3>3 DEF Last
    <3>5. Unit * Last(v) \in Nat \ {0}
      BY <1>4, <3>4
    <3>6. QED
      BY <2>1, <3>5 DEF AverageVolume
  <2>2. CASE Earlier(v) # {}
    <3>1. IsFiniteSet(Earlier(v))
      <4>1. IsFiniteSet(1..(L - 1)) /\ Earlier(v) \in SUBSET (1..(L - 1))
        BY <1>1, FS_Interval DEF Earlier, L
      <4>2. QED
        BY <4>1, FS_Subset
    <3>2. ASSUME NEW i \in Earlier(v)
          PROVE  Scaled(v)[i] \in Nat \ {0}
      <4>1. i \in 1..L /\ v[i] > 0
        BY <1>1 DEF Earlier, L
      <4>2. Scaled(v)[i] = v[i] * Unit /\ v[i] \in Nat \ {0}
        BY <1>2, <4>1 DEF Scaled
      <4>3. QED
        BY <1>4, <4>2
    <3>3. Mean(Scaled(v), Earlier(v)) \in Nat \ {0}
      BY <2>2, <3>1, <3>2, MeanIsPositive
    <3>4. QED
      BY <2>2, <3>3 DEF AverageVolume
  <2>3. QED
    BY <2>1, <2>2
<1> HIDE DEF average
<1>6. ASSUME NEW i \in 1..L
      PROVE  w[i] \in Nat /\ (v[i] # 0 => w[i] >= 1)
  <2> DEFINE x == Rounded(v[i] * Unit * Unit, average)
  <2>1. v[i] * Unit * Unit \in Int
    BY <1>2, <1>4
  <2>2. x \in Int
    BY <1>5, <2>1, RoundedType
  <2>3. w[i] = IF v[i] = 0 THEN 0 ELSE Clamp(x, Unit \div 4, 3 * Unit)
    BY <1>2 DEF Weights, average
  <2> HIDE DEF x, w
  <2>4. Clamp(x, Unit \div 4, 3 * Unit) \in Nat /\ Clamp(x, Unit \div 4, 3 * Unit) >= 1
    BY <1>4, <2>2 DEF Clamp, Larger, Smaller
  <2>5. QED
    BY <2>3, <2>4
<1>7. DOMAIN w = 1..L
  BY <1>2 DEF Weights
<1> HIDE DEF w
<1>8. SumFunctionOnSet(w, 1..L) \in Nat /\ SumFunctionOnSet(w, 1..L) # 0
  <2>1. IsFiniteSet(1..L) /\ \A i \in 1..L : w[i] \in Nat
    BY <1>1, <1>6, FS_Interval
  <2>2. w[p] # 0
    BY <1>3, <1>6
  <2>3. QED
    BY <1>3, <2>1, <2>2, SumOfNaturals
<1>9. QED
  BY <1>6, <1>7, <1>8 DEF SumFunction, w, L

LEMMA PressureTurns ==
  ASSUME NEW s, NEW t, Opposed(s, t)
  PROVE  MarketPressure(t).score = -MarketPressure(s).score
<1> DEFINE L == Lookback
           v == Volumes(s)
           w == Weights(v)
           total == SumFunction(w)
           sum == SumFunction(Pressures(s))
           other == SumFunction(Pressures(t))
<1>1. s \in Windows /\ t \in Windows
  BY DEF Opposed
<1>2. L \in Nat /\ DOMAIN Recent(s) = 1..L /\ DOMAIN Recent(t) = 1..L /\ v \in Series(L)
  BY <1>1, RecentType, PeriodTypes
<1>3. ASSUME NEW i \in 1..L
      PROVE  /\ Recent(s)[i].volume \in Int /\ Recent(t)[i].volume = Recent(s)[i].volume
             /\ CandlePressure(Recent(s)[i]) \in Int
             /\ CandlePressure(Recent(t)[i]) = -CandlePressure(Recent(s)[i])
  <2> DEFINE k == MinimumCandles - L + i
  <2>1. k \in 1..MinimumCandles /\ Recent(s)[i] = s[k] /\ Recent(t)[i] = t[k]
    BY <1>1, RecentType
  <2> HIDE DEF k
  <2>2. /\ s[k].close \in Int /\ s[k].high \in Int /\ s[k].low \in Int
        /\ s[k].low <= s[k].high /\ s[k].volume \in Int
    BY <1>1, <2>1, CandlesOf
  <2>3. /\ t[k].close = Axis - s[k].close /\ t[k].volume = s[k].volume
        /\ t[k].high = Axis - s[k].low /\ t[k].low = Axis - s[k].high
    BY <2>1 DEF Opposed
  <2>4. CandlePressure(s[k]) \in Int /\ CandlePressure(t[k]) = -CandlePressure(s[k])
    BY <2>2, <2>3, CandlePressureTurns
  <2>5. QED
    BY <2>1, <2>2, <2>3, <2>4
<1>4. Volumes(t) = v
  BY <1>2, <1>3 DEF Volumes
<1>5. CASE ~HasPressure(v)
  <2> DEFINE p == MarketPressure(s).score
             q == MarketPressure(t).score
  <2>1. p \in Int /\ q \in Int /\ p + q = 0
    BY <1>4, <1>5, PressureUnfolds
  <2> HIDE DEF p, q
  <2>2. q = -p
    BY <2>1
  <2>3. QED
    BY <2>2 DEF p, q
<1>6. CASE HasPressure(v)
  <2>1. (\A i \in 1..L : w[i] \in Nat) /\ total \in Nat \ {0}
    BY <1>2, <1>6, WeightsType
  <2>2. /\ MarketPressure(s).score = Clamp(Rounded(100 * sum, Unit * total), -100, 100)
        /\ MarketPressure(t).score = Clamp(Rounded(100 * other, Unit * total), -100, 100)
    BY <1>4, <1>6, PressureUnfolds DEF PressureScore
  <2>3. /\ Pressures(s) = [i \in 1..L |-> IF v[i] = 0 THEN 0 ELSE CandlePressure(Recent(s)[i]) * w[i]]
        /\ Pressures(t) = [i \in 1..L |-> IF v[i] = 0 THEN 0 ELSE CandlePressure(Recent(t)[i]) * w[i]]
    BY <1>2, <1>4 DEF Pressures
  <2> HIDE DEF v, w, total, L
  <2>4. ASSUME NEW i \in 1..L
        PROVE  Pressures(s)[i] \in Int /\ Pressures(t)[i] = 0 - Pressures(s)[i]
    <3> DEFINE p == CandlePressure(Recent(s)[i])
    <3>1. p \in Int /\ CandlePressure(Recent(t)[i]) = -p /\ w[i] \in Int
      BY <1>3, <2>1
    <3>2. /\ Pressures(s)[i] = IF v[i] = 0 THEN 0 ELSE p * w[i]
          /\ Pressures(t)[i] = IF v[i] = 0 THEN 0 ELSE (-p) * w[i]
      BY <2>3, <3>1
    <3> HIDE DEF p
    <3>3. (-p) * w[i] = 0 - p * w[i] /\ p * w[i] \in Int
      BY <3>1
    <3>4. QED
      BY <3>2, <3>3
  <2>5. sum \in Int /\ other = -sum
    <3>1. IsFiniteSet(1..L)
      BY <1>2, FS_Interval
    <3>2. DOMAIN Pressures(s) = 1..L /\ DOMAIN Pressures(t) = 1..L
      BY <2>3
    <3>3. SumFunctionOnSet(Pressures(s), 1..L) \in Int
      BY <2>4, <3>1, SumType
    <3>4. SumFunctionOnSet(Pressures(t), 1..L)
            = 0 * Cardinality(1..L) - SumFunctionOnSet(Pressures(s), 1..L)
      <4> DEFINE S == 1..L
                 f == Pressures(s)
                 h == Pressures(t)
      <4>1. IsFiniteSet(S) /\ \A i \in S : f[i] \in Int /\ h[i] = 0 - f[i]
        BY <2>4, <3>1
      <4> HIDE DEF S, f, h
      <4>2. SumFunctionOnSet(h, S) = 0 * Cardinality(S) - SumFunctionOnSet(f, S)
        BY <4>1, SumTurns
      <4>3. QED
        BY <4>2 DEF S, f, h
    <3>5. Cardinality(1..L) \in Nat
      BY <3>1, FS_CardinalityType
    <3>6. QED
      BY <3>2, <3>3, <3>4, <3>5 DEF SumFunction
  <2> HIDE DEF sum, other
  <2>6. 100 * sum \in Int /\ 100 * other = -(100 * sum) /\ Unit * total \in Nat \ {0}
    BY <2>1, <2>5, PeriodTypes
  <2>7. /\ Rounded(100 * sum, Unit * total) \in Int
        /\ Rounded(100 * other, Unit * total) = -Rounded(100 * sum, Unit * total)
    BY <2>6, RoundedType, RoundedIsOdd
  <2>8. QED
    BY <2>2, <2>7, ClampTurns
<1>7. QED
  BY <1>5, <1>6

-----------------------------------------------------------------------------
(* A market upside down: the context                                       *)

LEMMA ClosesTurn ==
  ASSUME NEW s, NEW t, Opposed(s, t)
  PROVE  /\ Closes(s) \in Series(MinimumCandles) /\ Closes(t) \in Series(MinimumCandles)
         /\ Axis * Unit \in Int /\ (Axis * Unit) % 2 = 0
         /\ \A i \in 1..MinimumCandles : Closes(t)[i] = Axis * Unit - Closes(s)[i]
<1> DEFINE n == MinimumCandles
<1>1. s \in Windows /\ t \in Windows /\ n \in Nat
  BY PeriodTypes DEF Opposed
<1>2. DOMAIN s = 1..n /\ DOMAIN t = 1..n
  BY <1>1 DEF Windows
<1>3. /\ Closes(s) = [i \in 1..n |-> s[i].close * Unit]
      /\ Closes(t) = [i \in 1..n |-> t[i].close * Unit]
  BY <1>2 DEF Closes, Scaled
<1>4. \A i \in 1..n : s[i].close \in Int /\ t[i].close = Axis - s[i].close
  BY <1>1, CandlesOf DEF Opposed
<1>5. Axis \in Int /\ Unit \in Int
  BY AxisType, PeriodTypes
<1>6. (Axis * Unit) % 2 = 0
  <2>1. Axis * Unit = 2 * (StartPrice * Unit) /\ StartPrice * Unit \in Int
    BY <1>5, AxisType, MarketAssumption
  <2>2. \A k \in Int : (2 * k) % 2 = 0
    OBVIOUS
  <2>3. QED
    BY <2>1, <2>2
<1> HIDE DEF n
<1>7. ASSUME NEW i \in 1..n
      PROVE  /\ s[i].close * Unit \in Int /\ t[i].close * Unit \in Int
             /\ t[i].close * Unit = Axis * Unit - s[i].close * Unit
  BY <1>4, <1>5
<1>8. QED
  BY <1>3, <1>5, <1>6, <1>7 DEF Series, n

LEMMA ContextTurns ==
  ASSUME NEW s, NEW t, Opposed(s, t)
  PROVE  IsOpposite(Context(t), Context(s))
<1> DEFINE n == MinimumCandles
           c == Axis * Unit
           x == Closes(s)
           y == Closes(t)
           close == Last(x)
           ema20 == Last(Ema(x, FastPeriod))
           ema50 == Last(Ema(x, SlowPeriod))
           rsi == Rsi(x)
           macd == Macd(x)
           other == Macd(y)
           a == DetermineTrend(close, ema20, ema50, rsi, macd)
           r == DetermineTrend(c - close, c - ema20, c - ema50, 100 * Unit - rsi, other)
<1>1. /\ x \in Series(n) /\ y \in Series(n) /\ c \in Int /\ c % 2 = 0
      /\ \A i \in 1..n : y[i] = c - x[i]
  BY ClosesTurn
<1>2. n \in Nat \ {0} /\ FastPeriod \in 1..n /\ SlowPeriod \in 1..n
  BY PeriodAssumption, PeriodTypes
<1> HIDE DEF c, x, y, n
<1>3. Last(y) = c - close /\ close \in Int
  <2>1. Len(x) = n /\ Len(y) = n /\ n \in 1..n /\ x[n] \in Int
    <3>1. x \in Seq(Int) /\ Len(x) = n /\ y \in Seq(Int) /\ Len(y) = n
      BY <1>1, <1>2 DEF Series
    <3>2. QED
      BY <1>1, <1>2, <3>1 DEF Series
  <2>2. QED
    BY <1>1, <2>1 DEF Last
<1>4. /\ Last(Ema(y, FastPeriod)) = c - ema20 /\ ema20 \in Int
      /\ Last(Ema(y, SlowPeriod)) = c - ema50 /\ ema50 \in Int
  <2>1. \A p \in 1..n : /\ Last(Ema(y, p)) = c - Last(Ema(x, p))
                        /\ Last(Ema(x, p)) \in Int
    <3> TAKE p \in 1..n
    <3>1. Last(Ema(x, p)) \in Int
      BY <1>1, <1>2, LatestEma
    <3>2. Last(Ema(y, p)) = c - Last(Ema(x, p))
      BY <1>1, <1>2, LatestEmaTurns
    <3>3. QED
      BY <3>1, <3>2
  <2>2. QED
    BY <1>2, <2>1
<1>5. Rsi(y) = 100 * Unit - rsi /\ rsi \in Int
  BY <1>1, RsiTurns DEF n
<1>6. /\ macd.line \in Int /\ macd.signal \in Int
      /\ other.line = -macd.line /\ other.signal = -macd.signal
  BY <1>1, MacdTurns DEF n
<1>7. /\ Context(s).trend = a.trend /\ Context(s).signal = a.signal /\ Context(s).score = a.score
      /\ Context(s).pressure = MarketPressure(s)
  BY DEF Context, x
<1>8. /\ Context(t).trend = r.trend /\ Context(t).signal = r.signal /\ Context(t).score = r.score
      /\ Context(t).pressure = MarketPressure(t)
  <2>1. DetermineTrend(Last(y), Last(Ema(y, FastPeriod)), Last(Ema(y, SlowPeriod)), Rsi(y), other) = r
    BY <1>3, <1>4, <1>5
  <2>2. QED
    BY <2>1 DEF Context, y
<1> HIDE DEF close, ema20, ema50, rsi, macd, other
<1>9. r.trend = Opposite(a.trend) /\ r.signal = Opposite(a.signal) /\ r.score = 100 - a.score
  BY <1>1, <1>3, <1>4, <1>5, <1>6, TrendTurns
<1>10. QED
  BY <1>7, <1>8, <1>9, PressureTurns DEF IsOpposite

\* Whatever the market prints, what is made of it turned upside down is the
\* opposite: in trend, signal, score and pressure.
THEOREM AssessmentTurnsRound == Spec => AssessmentIsSymmetric
<1>1. PipelineInv /\ PipelineInv' /\ [Next]_vars
        => [NewCandle => IsOpposite(Context(Reflected(candles')), context')]_vars
  <2> SUFFICES ASSUME PipelineInv', NewCandle
               PROVE  IsOpposite(Context(Reflected(candles')), context')
    OBVIOUS
  <2>1. candles' \in Windows
    BY DEF PipelineInv, MarketType
  <2>2. context' = Context(candles')
    BY DEF NewCandle
  <2>3. Opposed(candles', Reflected(candles'))
    BY <2>1, ReflectedIsOpposed
  <2>4. QED
    BY <2>2, <2>3, ContextTurns
<1>2. QED
  BY <1>1, PipelineInvariant, PTL DEF Spec, AssessmentIsSymmetric

=============================================================================
