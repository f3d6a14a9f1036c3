----------------------------- MODULE Indicators -----------------------------
(***************************************************************************)
(* The indicators of src/src/core/indicators over a series that grows bar  *)
(* by bar.  Each operator gives what calculate returns for a series s: one *)
(* value (or a tuple of lines) for each bar, NaN where there is none, and  *)
(* the empty sequence where calculate raises because s is too short.       *)
(* Prices are whole cents and quotients are rounded down.                  *)
(***************************************************************************)
EXTENDS Integers, Sequences, SequencesExt, FiniteSetsExt, Functions

CONSTANTS Bars,         \* the candles that may come
          MaxSeries,    \* bound: the length of the series
          PerTarget,    \* candles in a candle of the next timeframe
          Missing       \* numbers of candles that the exchange does not have

VARIABLE series
NaN == -1000000

Sum(f, I) == FoldFunctionOnSet(+, 0, f, I)
Back(i, p) == (i - p + 1)..i
Mean(f, I) == Sum(f, I) \div Cardinality(I)
Top(f, I) == Max({f[i] : i \in I})
Bottom(f, I) == Min({f[i] : i \in I})
IsNaN(x) == x = NaN
Defined(f, I) == \A i \in I : f[i] # NaN

Closes(s) == [i \in DOMAIN s |-> s[i].close]
Highs(s) == [i \in DOMAIN s |-> s[i].high]
Lows(s) == [i \in DOMAIN s |-> s[i].low]
Volumes(s) == [i \in DOMAIN s |-> s[i].volume]

(* Raised unless there are enough bars.                                    *)
Needs(s, bars, values) == IF Len(s) < bars THEN <<>> ELSE values

(* Built bar by bar: Next gives bar i from the bars before it.             *)
Line(Next(_, _), s) == FoldLeftDomain(LAMBDA line, i : Append(line, Next(line, i)), <<>>, s)

(* A line that begins at bar k as the mean of p values and then moves by   *)
(* up/down of the distance to the new value.                               *)
Smoothed(f, k, p, up, down) ==
    Line(LAMBDA line, i :
           IF i < k THEN NaN
           ELSE IF i = k THEN Mean(f, Back(i, p))
           ELSE (line[i - 1] * (down - up) + f[i] * up) \div down, f)

EmaLine(f, k, p) == Smoothed(f, k, p, 2, p + 1)
Wilder(f, k, p) == Smoothed(f, k, p, 1, p)

Ema(s, p) == Needs(s, p, EmaLine(Closes(s), p, p))

MovingMean(f, p) == [i \in DOMAIN f |-> IF i < p THEN NaN ELSE Mean(f, Back(i, p))]
Sma(s, p) == Needs(s, p, MovingMean(Closes(s), p))
VolumeAverage(s, p) == Needs(s, p, MovingMean(Volumes(s), p))

TrueRange(s) ==
    [i \in DOMAIN s |->
        IF i = 1 THEN s[1].high - s[1].low
        ELSE Max({s[i].high, s[i - 1].close}) - Min({s[i].low, s[i - 1].close})]
Atr(s, p) == Needs(s, p + 1, Wilder(TrueRange(s), p + 1, p))

(* Gains and losses begin with the second bar.                             *)
Rsi(s, p) ==
    LET moved == [i \in DOMAIN s |-> IF i = 1 THEN 0 ELSE 100 * (s[i].close - s[i - 1].close)]
        gain == Wilder([i \in DOMAIN s |-> Max({moved[i], 0})], p + 1, p)
        loss == Wilder([i \in DOMAIN s |-> Max({-moved[i], 0})], p + 1, p)
        Strength(g, l) == IF g = 0 /\ l = 0 THEN 50 ELSE (100 * g) \div (g + l)
    IN Needs(s, p + 1, [i \in DOMAIN s |-> IF i <= p THEN NaN ELSE Strength(gain[i], loss[i])])

Macd(s, fast, slow, signal) ==
    LET short == EmaLine(Closes(s), fast, fast)
        long == EmaLine(Closes(s), slow, slow)
        line == [i \in DOMAIN s |-> IF i < slow THEN NaN ELSE short[i] - long[i]]
        trigger == EmaLine(line, slow + signal - 1, signal)
    IN Needs(s, slow + signal, [i \in DOMAIN s |-> <<line[i], trigger[i]>>])

Root(x) == CHOOSE r \in 0..x : r * r <= x /\ x < (r + 1) * (r + 1)
Bollinger(s, p, multiplier) ==
    LET c == Closes(s)
        Deviation(i) ==
            LET mean == Mean(c, Back(i, p))
            IN Root(MapThenSumSet(LAMBDA j : (c[j] - mean) * (c[j] - mean), Back(i, p)) \div (p - 1))
    IN Needs(s, p, [i \in DOMAIN s |->
           IF i < p THEN <<NaN>>
           ELSE LET mean == Mean(c, Back(i, p)) IN <<mean, mean + multiplier * Deviation(i), mean - multiplier * Deviation(i)>>])

Donchian(s, p) ==
    Needs(s, p, [i \in DOMAIN s |->
        IF i < p THEN <<NaN>> ELSE <<Top(Highs(s), Back(i, p)), Bottom(Lows(s), Back(i, p))>>])

Keltner(s, p, range, multiplier) ==
    LET middle == EmaLine(Closes(s), p, p)
        atr == Wilder(TrueRange(s), range + 1, range)
    IN Needs(s, Max({p, range + 1}), [i \in DOMAIN s |->
           IF i < Max({p, range + 1}) THEN <<middle[i]>>
           ELSE <<middle[i], middle[i] + multiplier * atr[i], middle[i] - multiplier * atr[i]>>])

(* Without volume the last value is kept; the bands are an ATR away.       *)
Vwap(s, p) ==
    LET typical == [i \in DOMAIN s |-> (s[i].high + s[i].low + s[i].close) \div 3]
        atr == Wilder(TrueRange(s), p + 1, p)
        weighted == [i \in DOMAIN s |-> typical[i] * s[i].volume]
        line == Line(LAMBDA values, i :
                       LET volume == Sum(Volumes(s), Back(i, p))
                       IN IF i < p THEN NaN
                          ELSE IF volume > 0 THEN Sum(weighted, Back(i, p)) \div volume
                          ELSE IF i > 1 /\ values[i - 1] # NaN THEN values[i - 1] ELSE typical[i], s)
    IN Needs(s, p + 1, [i \in DOMAIN s |-> <<line[i], IF i <= p THEN NaN ELSE atr[i]>>])

(* The directional movement is summed once and averaged from then on; once *)
(* a bar has no DX, no later bar has an ADX.                               *)
Adx(s, p) ==
    LET up == [i \in DOMAIN s |-> IF i = 1 THEN 0 ELSE s[i].high - s[i - 1].high]
        down == [i \in DOMAIN s |-> IF i = 1 THEN 0 ELSE s[i - 1].low - s[i].low]
        plus == [i \in DOMAIN s |-> IF up[i] > down[i] /\ up[i] > 0 THEN up[i] ELSE 0]
        minus == [i \in DOMAIN s |-> IF down[i] > up[i] /\ down[i] > 0 THEN down[i] ELSE 0]
        Moved(f) == Line(LAMBDA m, i :
                           IF i <= p THEN NaN
                           ELSE IF i = p + 1 THEN Sum(f, Back(i, p))
                           ELSE (m[i - 1] * (p - 1) + f[i]) \div p, s)
        atr == Wilder(TrueRange(s), p + 1, p)
        Di(m) == Line(LAMBDA d, i : IF i <= p \/ atr[i] = 0 THEN NaN ELSE (100 * m[i]) \div atr[i], s)
        pdi == Di(Moved(plus))
        mdi == Di(Moved(minus))
        dx == Line(LAMBDA d, i :
                     IF pdi[i] = NaN \/ pdi[i] + mdi[i] = 0 THEN NaN
                     ELSE (100 * Max({pdi[i] - mdi[i], mdi[i] - pdi[i]})) \div (pdi[i] + mdi[i]), s)
        first == 2 * p + 1
        Known(i) == {j \in Back(i, p) : dx[j] # NaN}
        adx == Line(LAMBDA a, i :
                      IF i < first THEN NaN
                      ELSE IF i = first THEN IF Known(i) = {} THEN NaN ELSE Mean(dx, Known(i))
                      ELSE IF dx[i] = NaN \/ a[i - 1] = NaN THEN NaN
                      ELSE (a[i - 1] * (p - 1) + dx[i]) \div p, s)
    IN Needs(s, 2 * p + 1, [i \in DOMAIN s |-> <<adx[i], pdi[i], mdi[i]>>])

(* Bands that only tighten while the price stays within them; the trend    *)
(* turns when a close crosses the band it has been held by.                *)
SuperTrend(s, p, multiplier) ==
    LET middle == [i \in DOMAIN s |-> (s[i].high + s[i].low) \div 2]
        atr == Wilder(TrueRange(s), p + 1, p)
        upper == Line(LAMBDA u, i :
                        LET basic == middle[i] + multiplier * atr[i]
                        IN IF i <= p THEN NaN
                           ELSE IF i = p + 1 \/ basic < u[i - 1] \/ s[i - 1].close > u[i - 1] THEN basic
                           ELSE u[i - 1], s)
        lower == Line(LAMBDA l, i :
                        LET basic == middle[i] - multiplier * atr[i]
                        IN IF i <= p THEN NaN
                           ELSE IF i = p + 1 \/ basic > l[i - 1] \/ s[i - 1].close < l[i - 1] THEN basic
                           ELSE l[i - 1], s)
        trend == Line(LAMBDA t, i :
                        IF i <= p THEN 0
                        ELSE IF i = p + 1 THEN IF s[i].close > middle[i] THEN 1 ELSE -1
                        ELSE IF t[i - 1] = 1 THEN IF s[i].close <= lower[i] THEN -1 ELSE 1
                        ELSE IF s[i].close >= upper[i] THEN 1 ELSE -1, s)
    IN Needs(s, p + 1, [i \in DOMAIN s |->
           [trend |-> trend[i], line |-> IF trend[i] = 1 THEN lower[i] ELSE upper[i]]])

(* The mean of the last p values, where there are p.                       *)
Filled(f, p) ==
    Line(LAMBDA m, i : IF i < p \/ ~Defined(f, Back(i, p)) THEN NaN ELSE Mean(f, Back(i, p)), f)

StochasticRsi(s, p, stoch, k, d) ==
    LET rsi == Rsi(s, p)
        raw == [i \in DOMAIN s |->
                  IF i < stoch \/ ~Defined(rsi, Back(i, stoch)) THEN NaN
                  ELSE LET high == Top(rsi, Back(i, stoch)) low == Bottom(rsi, Back(i, stoch))
                       IN IF high = low THEN 50 ELSE (100 * (rsi[i] - low)) \div (high - low)]
        fast == Filled(raw, k)
        slow == Filled(fast, d)
    IN Needs(s, p + 1 + stoch + k + d, [i \in DOMAIN s |-> <<fast[i], slow[i]>>])

Midpoint(s, i, p) ==
    IF i < p THEN NaN ELSE (Top(Highs(s), Back(i, p)) + Bottom(Lows(s), Back(i, p))) \div 2

(* A bug of CloudBar: the spans of a bar are those of a bar to come.       *)
CloudBarAhead(s, i, shift) == IF i + shift > Len(s) THEN 0 ELSE i + shift
(* The spans and the lagging line of a bar are those of shift bars before. *)
CloudBar(s, i, shift) == IF i <= shift THEN 0 ELSE i - shift

Ichimoku(s, tenkan, kijun, senkou, shift) ==
    LET Spans(i) ==
          IF i = 0 THEN <<NaN, NaN, NaN>>
          ELSE <<IF Midpoint(s, i, tenkan) = NaN \/ Midpoint(s, i, kijun) = NaN THEN NaN
                 ELSE (Midpoint(s, i, tenkan) + Midpoint(s, i, kijun)) \div 2,
                 Midpoint(s, i, senkou), s[i].close>>
    IN Needs(s, senkou + shift, [i \in DOMAIN s |->
           <<Midpoint(s, i, tenkan), Midpoint(s, i, kijun)>> \o Spans(CloudBar(s, i, shift))])

(* Candles of the next timeframe, each of a full number of candles.        *)
Resampled(s) ==
    LET Bucket(i) == (s[i].at - 1) \div PerTarget
        Group(b) == {i \in DOMAIN s : Bucket(i) = b}
        full == SetToSortSeq({b \in {Bucket(i) : i \in DOMAIN s} : Cardinality(Group(b)) >= PerTarget}, <)
    IN [j \in DOMAIN full |->
          LET g == Group(full[j])
          IN [at |-> full[j], high |-> Top(Highs(s), g), low |-> Bottom(Lows(s), g),
              close |-> s[Max(g)].close, volume |-> Sum(Volumes(s), g)]]

Indicators ==
    {"ema", "sma", "volume", "atr", "rsi", "macd", "bollinger", "donchian", "keltner", "vwap",
     "adx", "supertrend", "stochastic rsi", "ichimoku", "resampled"}

Calculated(name, s) ==
    CASE name = "ema" -> Ema(s, 2)
      [] name = "sma" -> Sma(s, 2)
      [] name = "volume" -> VolumeAverage(s, 2)
      [] name = "atr" -> Atr(s, 2)
      [] name = "rsi" -> Rsi(s, 2)
      [] name = "macd" -> Macd(s, 2, 3, 2)
      [] name = "bollinger" -> Bollinger(s, 3, 2)
      [] name = "donchian" -> Donchian(s, 2)
      [] name = "keltner" -> Keltner(s, 3, 2, 1)
      [] name = "vwap" -> Vwap(s, 2)
      [] name = "adx" -> Adx(s, 2)
      [] name = "supertrend" -> SuperTrend(s, 2, 1)
      [] name = "stochastic rsi" -> StochasticRsi(s, 1, 2, 1, 1)
      [] name = "ichimoku" -> Ichimoku(s, 1, 2, 3, 1)
      [] name = "resampled" -> Resampled(s)

SeriesInit == series = <<>>

(* The next candle the exchange has.                                       *)
Following(n) == CHOOSE k \in (n + 1)..(n + 1 + Cardinality(Missing)) : k \notin Missing /\ \A o \in (n + 1)..(k - 1) : o \in Missing

AddBar ==
    /\ Len(series) < MaxSeries
    /\ \E b \in Bars :
          LET n == IF series = <<>> THEN 0 ELSE Last(series).at
          IN series' = Append(series, [at |-> Following(n), high |-> b.high, low |-> b.low, close |-> b.close, volume |-> b.volume])

SeriesNext == AddBar

(***************************************************************************)
(* Property.                                                               *)
(***************************************************************************)
Extends(name, before, after) == IsPrefix(Calculated(name, before), Calculated(name, after))

(* While the trend of the last two bars holds, its line has not moved away *)
(* from the price, and it lies on its side of the close.                   *)
Trails(lines, s) ==
    Len(lines) > 1 =>
        LET now == Last(lines)
            before == lines[Len(lines) - 1]
        IN /\ now.trend = 1 => now.line <= Last(s).close
           /\ now.trend = -1 => now.line >= Last(s).close
           /\ now.trend # 0 /\ now.trend = before.trend => now.trend * (now.line - before.line) >= 0

\* A new bar only extends what an indicator has said: no value of an
\* earlier bar is repainted, neither by averages that start from a mean,
\* bands that remember, spans displaced by some bars and candles resampled
\* from an incomplete period, nor by candles the exchange has lost; so a
\* backtest over a whole series decides on what the live system saw.  And
\* the SuperTrend follows the price as a stop does.
NewBarsOnlyExtend ==
    [][/\ \A name \in Indicators : Extends(name, series, series')
       /\ Trails(SuperTrend(series', 2, 1), series')]_series
=============================================================================
