----------------------------- MODULE SignalRules ----------------------------
(***************************************************************************)
(* The signal generators (src/src/core/strategy/generators, and those      *)
(* under research in src/research/generators): what each answers for the   *)
(* last bar of a series.  A generator keeps no state.  A view is what it   *)
(* reads: the conditions that hold ("ready": enough bars and every         *)
(* indicator has a value), the direction of what can point either way, and *)
(* the levels its stop and target are computed from.                       *)
(***************************************************************************)
EXTENDS Integers, FiniteSets, SequencesExt

CONSTANTS Levels,      \* prices a band, an average or a channel may have
          Ranges       \* values of the ATR (or of the percentage of a stop)

\* An ATR of zero would be that of a series that has never moved, which
\* fulfils no generator's conditions; the percentages are positive.
ASSUME RulesAssumption == Levels \subseteq Nat /\ Ranges \subseteq Nat \ {0}

VARIABLES rule, view, answer
ruleVars == <<rule, view, answer>>

Price == 4000
Floor == Price \div 1000
Tolerance == 1000
ExitDistance == 1200
RiskReward == 2

NotAsked == [asked |-> FALSE]
Nothing == [none |-> TRUE]
Failed == [failed |-> TRUE]        \* SignalGenerationError

(* TradingSignal raises when a stop or a target is not positive.           *)
Signal(direction, stop, target) ==
    IF stop <= 0 \/ target <= 0 THEN Failed
    ELSE [direction |-> direction, stop |-> stop, target |-> target]
Close == [direction |-> "close"]

Highest(a, b) == IF a > b THEN a ELSE b
Lowest(a, b) == IF a < b THEN a ELSE b

Long(stop, target) == Signal("long", Highest(stop, Floor), target)
Short(stop, target) == Signal("short", stop, target)
LongBy(risk) == Long(Price - risk, Price + RiskReward * risk)
ShortBy(risk) == Short(Price + risk, Price - RiskReward * risk)

Holds(v, conditions) == conditions \subseteq v.holds
All(v, names, way) == \A n \in names : v.way[n] = way
Up(v, names) == All(v, names, "up")
Down(v, names) == All(v, names, "down")
(* A regime average that is switched off, or too long for the series.      *)
MayBuy(v) == v.way["regime"] \in {"off", "up"}
MaySell(v) == v.way["regime"] # "up"

(***************************************************************************)
(* Generators that only buy, with a stop and a target at multiples of the  *)
(* ATR: the conditions each asks for.  "below regime": the price is not    *)
(* above the long average, where one is configured.                        *)
(***************************************************************************)
AdxDirectionalThrust == {"ready", "above ema", "adx strong", "adx rising", "di spread", "rsi in band", "volume"}
BullTrendPullback == {"ready", "above htf ema", "trend above htf", "rsi in band", "rsi rising", "macd positive", "above ema"}
CryptoWickReversal ==
    {"ready", "above ema", "body", "wick to body", "wick to atr", "upper half", "rsi in band", "volume"}
EmaRibbonExpansion == {"ready", "stacked", "above slow", "rsi in band", "compressed", "expanding", "volume"}
HeikinAshiTrendPulse == {"ready", "above ema", "rsi in band", "volume", "green", "no lower wick", "wicks before"}
ObvTrendDivergence == {"ready", "obv peaked lately", "obv above mean", "new high", "rsi in band", "volume"}
RealizedVolCompressionBreakout == {"ready", "rsi in band", "volume", "compressed", "compressed before", "new high"}
RocMomentumSurge ==
    {"ready", "above ema", "rsi in band", "rsi rising", "roc strong", "roc rising", "volume"}
StochRsiBullCross == {"ready", "above ema", "k crosses d", "k not high", "was oversold", "rsi in band", "volume"}
VolumeBalanceBreakout == {"ready", "above ema", "rsi in band", "buyers", "new high", "volume"}
VptMomentum == {"ready", "above ema", "rsi in band", "volume", "vpt above ema", "vpt new high", "contribution"}

Buyers ==
    [adx |-> AdxDirectionalThrust, bull |-> BullTrendPullback, wick |-> CryptoWickReversal,
     ribbon |-> EmaRibbonExpansion, heikin |-> HeikinAshiTrendPulse, obv |-> ObvTrendDivergence,
     vol |-> RealizedVolCompressionBreakout, roc |-> RocMomentumSurge, stoch |-> StochRsiBullCross,
     balance |-> VolumeBalanceBreakout, vpt |-> VptMomentum]
Unfiltered == {"bull", "balance"}      \* no regime average

Buys(g, v) ==
    IF Holds(v, Buyers[g]) /\ (g \in Unfiltered \/ "below regime" \notin v.holds) THEN LongBy(v.range) ELSE Nothing

(***************************************************************************)
(* The generators under research (src/research/generators) also ask their  *)
(* point-in-time channels, and a channel that knows nothing is a condition *)
(* that does not hold.  Four of them ride a trailing stop without a target.*)
(***************************************************************************)
NoTarget == "none"
BtcLeadLag == {"ready", "btc thrust", "behind btc"}
CoinbasePremium == {"ready", "premium positive", "premium in top"}
CrossSectionalMomentum == {"ready", "rebalance bar", "rank in top"}
EtfFlowDemand == {"ready", "noon bar", "inflow positive", "inflow in top"}
FundingConfirmedTrend == {"ready", "funding in band", "above ema", "ema rising", "crossed up"}
FundingExtremeContrarian == {"ready", "funding extreme", "above ema", "crossed down"}
FundingExtremeContrarianV2 == {"ready", "funding positive", "funding in top", "below prior low"}

Riders ==
    [lag |-> BtcLeadLag, premium |-> CoinbasePremium, rank |-> CrossSectionalMomentum, flow |-> EtfFlowDemand]
Contrarians == [extreme |-> FundingExtremeContrarian, windowed |-> FundingExtremeContrarianV2]
Researched ==
    [g \in DOMAIN Riders \cup DOMAIN Contrarians \cup {"confirmed"} |->
        IF g \in DOMAIN Riders THEN Riders[g]
        ELSE IF g \in DOMAIN Contrarians THEN Contrarians[g] ELSE FundingConfirmedTrend]

Rides(g, v) ==
    IF Holds(v, Riders[g])
    THEN [direction |-> "long", stop |-> Highest(Price - v.range, Floor), target |-> NoTarget] ELSE Nothing

(* A short with no room for its target is passed over, not an error.       *)
Fades(g, v) ==
    IF Holds(v, Contrarians[g]) /\ Price > RiskReward * v.range THEN ShortBy(v.range) ELSE Nothing

Research(g, v) ==
    IF g \in DOMAIN Riders THEN Rides(g, v)
    ELSE IF g \in DOMAIN Contrarians THEN Fades(g, v)
    ELSE IF Holds(v, FundingConfirmedTrend) THEN LongBy(v.range) ELSE Nothing

KeltnerChannelContinuation(v) ==
    IF Holds(v, {"ready", "was inside", "rsi in band", "volume"}) /\ "below regime" \notin v.holds /\ Price > v.upper
    THEN LET stop == Highest(v.mid, Price - v.range)
         IN Long(stop, Price + RiskReward * (Price - stop))
    ELSE Nothing

(***************************************************************************)
(* Generators that buy and sell.                                           *)
(***************************************************************************)
BbSqueezeBreakout(v) ==
    IF ~Holds(v, {"ready", "squeezed", "expanding", "volume"}) THEN Nothing
    ELSE IF Price > v.upper /\ Up(v, {"macd"}) THEN Long(v.mid, Price + 2 * (Price - v.mid))
    ELSE IF Price < v.lower /\ Down(v, {"macd"}) THEN Short(v.mid, Price - 2 * (v.mid - Price))
    ELSE Nothing

(* A bug of BbSqueezeMomentum: the stop of a short is computed as a long's.*)
BbSqueezeMomentumCopied(v) ==
    IF ~Holds(v, {"ready", "fired", "volume"}) THEN Nothing
    ELSE IF Up(v, {"close", "macd", "supertrend"}) THEN Long(Price - v.range, Price + v.range)
    ELSE IF Down(v, {"close", "macd", "supertrend"}) THEN Short(Price - v.range, Price - v.range)
    ELSE Nothing

BbSqueezeMomentum(v) ==
    IF ~Holds(v, {"ready", "fired", "volume"}) THEN Nothing
    ELSE IF Up(v, {"close", "macd", "supertrend"}) THEN Long(Price - v.range, Price + v.range)
    ELSE IF Down(v, {"close", "macd", "supertrend"}) THEN Short(Price + v.range, Price - v.range)
    ELSE Nothing

BearTrendFollower(v) ==
    IF "ready" \notin v.holds THEN Nothing
    ELSE IF Down(v, {"htf"}) /\ Holds(v, {"touched upper", "adx strong"}) /\ Price < v.upper
    THEN Short(v.upper + v.range, v.lower)
    ELSE IF Up(v, {"htf", "supertrend"}) /\ Holds(v, {"touched lower", "rsi low"}) /\ Price > v.lower
    THEN Long(v.lower - v.range, v.mid)
    ELSE Nothing

CascadingMomentumFilter(v) ==
    IF ~Holds(v, {"ready", "adx strong"}) THEN Nothing
    ELSE IF Up(v, {"daily", "slope", "macd"}) /\ "flipped up" \in v.holds THEN LongBy(v.range)
    ELSE IF Down(v, {"daily", "slope", "macd"}) /\ "flipped down" \in v.holds THEN ShortBy(v.range)
    ELSE Nothing

DonchianAtr(v) ==
    IF "ready" \notin v.holds THEN Nothing
    ELSE IF Up(v, {"ema"}) /\ Holds(v, {"broke upper", "volatile", "volume"}) THEN LongBy(v.range)
    ELSE IF Down(v, {"ema"}) /\ Holds(v, {"broke lower", "volatile", "volume"}) THEN ShortBy(v.range)
    ELSE IF v.way["exit"] # "flat" THEN Close
    ELSE Nothing

EmaTrendRsi(v) ==
    IF "ready" \notin v.holds THEN Nothing
    ELSE IF Up(v, {"cross"}) /\ "rsi buys" \in v.holds THEN LongBy(v.range)
    ELSE IF Down(v, {"cross"}) /\ "rsi sells" \in v.holds THEN ShortBy(v.range)
    ELSE IF v.way["extreme"] # "flat" THEN Close
    ELSE Nothing

IchimokuCloudTrend(v) ==
    IF "ready" \notin v.holds THEN Nothing
    ELSE IF Price > v.upper /\ Up(v, {"tk", "chikou", "cloud"}) /\ "volume" \in v.holds
    THEN LET stop == Highest(v.lower, Price - v.range)
         IN Signal("long", stop, Price + RiskReward * (Price - stop))
    ELSE IF Price < v.lower /\ Down(v, {"tk", "chikou", "cloud"}) /\ "volume" \in v.holds
    THEN LET stop == Lowest(v.upper, Price + v.range)
         IN Short(stop, Price - RiskReward * (stop - Price))
    ELSE IF v.lower <= Price /\ Price <= v.upper /\ v.way["tk"] # "flat" THEN Close
    ELSE Nothing

KeltnerFadeAdx(v) ==
    IF ~Holds(v, {"ready", "ranging"}) THEN Nothing
    ELSE IF Down(v, {"slope"}) /\ Up(v, {"stoch"}) /\ "touched upper" \in v.holds /\ Price < v.upper
    THEN Short(v.upper + v.range, v.mid)
    ELSE IF Up(v, {"slope"}) /\ Down(v, {"stoch"}) /\ "touched lower" \in v.holds /\ Price > v.lower
    THEN Long(v.lower - v.range, v.mid)
    ELSE Nothing

(* The stop is taken from the average, not from the price.                 *)
MacdPullback(v) ==
    LET near == Price - v.line \in -Tolerance..Tolerance
        Risk(distance) == IF distance > 0 THEN distance ELSE v.range
    IN IF "ready" \notin v.holds \/ ~near THEN Nothing
       ELSE IF MayBuy(v) /\ Up(v, {"macd", "histogram"})
       THEN Long(v.line - v.range, Price + RiskReward * Risk(Price - (v.line - v.range)))
       ELSE IF MaySell(v) /\ Down(v, {"macd", "histogram"})
       THEN Short(v.line + v.range, Highest(Price - RiskReward * Risk(v.line + v.range - Price), Floor))
       ELSE Nothing

MultiTfConfluence(v) ==
    IF "ready" \notin v.holds THEN Nothing
    ELSE IF Up(v, {"daily", "daily ema", "macd"}) /\ "rsi buys" \in v.holds THEN LongBy(v.range)
    ELSE IF Down(v, {"daily", "macd"}) /\ v.way["daily ema"] # "up" /\ "rsi sells" \in v.holds THEN ShortBy(v.range)
    ELSE Nothing

AtUpper(v) == v.holds \cap {"upper bb", "upper kc"} # {}
AtLower(v) == v.holds \cap {"lower bb", "lower kc"} # {}

(* The line is the VWAP.                                                   *)
RegimeAwareMeanReversion(v) ==
    LET long == Long(Price - v.range, IF v.line > Price THEN v.line ELSE v.mid)
        short == Short(Price + v.range, IF v.line < Price THEN v.line ELSE v.mid)
    IN IF "ready" \notin v.holds THEN Nothing
       ELSE IF Down(v, {"htf"}) /\ Up(v, {"rsi"}) /\ AtUpper(v) /\ "turns down" \in v.holds THEN short
       ELSE IF Down(v, {"htf", "rsi"}) /\ Holds(v, {"lower bb", "stretched"}) /\ Price < v.line THEN long
       ELSE IF Up(v, {"htf"}) /\ Down(v, {"rsi"}) /\ AtLower(v) /\ "turns up" \in v.holds THEN long
       ELSE IF Up(v, {"htf", "rsi"}) /\ Holds(v, {"upper bb", "stretched"}) /\ Price > v.line THEN short
       ELSE Nothing

RsiBbMeanReversion(v) ==
    IF ~Holds(v, {"ready", "ranging"}) THEN Nothing
    ELSE IF Down(v, {"rsi"}) /\ "touched lower" \in v.holds THEN Long(Price - v.range, v.mid)
    ELSE IF Up(v, {"rsi"}) /\ "touched upper" \in v.holds THEN Short(Price + v.range, v.mid)
    ELSE IF v.way["exit"] # "flat" THEN Close
    ELSE Nothing

RsiDivergenceReversal(v) ==
    IF "ready" \notin v.holds THEN Nothing
    ELSE IF MayBuy(v) /\ Up(v, {"rsi"}) /\ "bullish divergence" \in v.holds THEN LongBy(v.range)
    ELSE IF MaySell(v) /\ Down(v, {"rsi"}) /\ "bearish divergence" \in v.holds THEN ShortBy(v.range)
    ELSE Nothing

(* The line is the SuperTrend.                                             *)
SupertrendVolumeMacd(v) ==
    IF "ready" \notin v.holds THEN Nothing
    ELSE IF Up(v, {"supertrend", "macd", "sign"}) /\ "volume" \in v.holds
    THEN LET stop == Highest(v.line, Floor)
         IN Long(stop, IF Price > stop THEN Price + 2 * (Price - stop) ELSE Price + 80)
    ELSE IF Down(v, {"supertrend", "macd", "sign"}) /\ "volume" \in v.holds
    THEN Short(v.line, IF v.line > Price THEN Price - 2 * (v.line - Price) ELSE Price - 80)
    ELSE IF v.way["flip"] # "flat" THEN Close
    ELSE Nothing

TrendAccelerationMomentum(v) ==
    IF ~Holds(v, {"ready", "volume", "atr rising"}) THEN Nothing
    ELSE IF MayBuy(v) /\ Up(v, {"structure", "spread"}) /\ "rsi buys" \in v.holds THEN LongBy(v.range)
    ELSE IF MaySell(v) /\ Down(v, {"structure", "spread"}) /\ "rsi sells" \in v.holds THEN ShortBy(v.range)
    ELSE Nothing

VolatilityRegimeBreakout(v) ==
    IF ~Holds(v, {"ready", "squeezed", "expanding", "volume"}) THEN Nothing
    ELSE IF MayBuy(v) /\ Up(v, {"breakout"}) THEN LongBy(v.range)
    ELSE IF MaySell(v) /\ Down(v, {"breakout"}) THEN ShortBy(v.range)
    ELSE Nothing

VwapPullbackVolume(v) ==
    LET near == Price - v.line \in -Tolerance..Tolerance
    IN IF "ready" \notin v.holds THEN Nothing
       ELSE IF near /\ Up(v, {"vwap", "rsi"}) /\ "volume" \in v.holds THEN Long(Price - v.range, v.line + ExitDistance)
       ELSE IF near /\ Down(v, {"vwap", "rsi"}) /\ "volume" \in v.holds
       THEN Short(Price + v.range, Highest(v.line - ExitDistance, Floor))
       ELSE IF "fading" \in v.holds THEN Close
       ELSE Nothing

(***************************************************************************)
(* What a generator reads.                                                 *)
(***************************************************************************)
TwoSided ==
    [squeeze |-> [holds |-> {"ready", "squeezed", "expanding", "volume"}, ways |-> {"macd"}],
     momentum |-> [holds |-> {"ready", "fired", "volume"}, ways |-> {"close", "macd", "supertrend"}],
     bear |-> [holds |-> {"ready", "touched upper", "touched lower", "adx strong", "rsi low"}, ways |-> {"htf", "supertrend"}],
     cascade |-> [holds |-> {"ready", "adx strong", "flipped up", "flipped down"}, ways |-> {"daily", "slope", "macd"}],
     donchian |-> [holds |-> {"ready", "broke upper", "broke lower", "volatile", "volume"}, ways |-> {"ema", "exit"}],
     rsi |-> [holds |-> {"ready", "rsi buys", "rsi sells"}, ways |-> {"cross", "extreme"}],
     ichimoku |-> [holds |-> {"ready", "volume"}, ways |-> {"tk", "chikou", "cloud"}],
     fade |-> [holds |-> {"ready", "ranging", "touched upper", "touched lower"}, ways |-> {"slope", "stoch"}],
     macd |-> [holds |-> {"ready"}, ways |-> {"regime", "macd", "histogram"}],
     confluence |-> [holds |-> {"ready", "rsi buys", "rsi sells"}, ways |-> {"daily", "daily ema", "macd"}],
     reversion |-> [holds |-> {"ready", "upper bb", "upper kc", "lower bb", "lower kc", "turns up", "turns down", "stretched"},
                    ways |-> {"htf", "rsi"}],
     bands |-> [holds |-> {"ready", "ranging", "touched upper", "touched lower"}, ways |-> {"rsi", "exit"}],
     divergence |-> [holds |-> {"ready", "bullish divergence", "bearish divergence"}, ways |-> {"regime", "rsi"}],
     supertrend |-> [holds |-> {"ready", "volume"}, ways |-> {"supertrend", "macd", "sign", "flip"}],
     acceleration |-> [holds |-> {"ready", "volume", "atr rising", "rsi buys", "rsi sells"}, ways |-> {"regime", "structure", "spread"}],
     volatility |-> [holds |-> {"ready", "squeezed", "expanding", "volume"}, ways |-> {"regime", "breakout"}],
     vwap |-> [holds |-> {"ready", "volume", "fading"}, ways |-> {"vwap", "rsi"}]]

OnBands == {"squeeze", "bear", "ichimoku", "fade", "bands", "reversion", "continuation"}
OnLine == {"macd", "reversion", "supertrend", "vwap"}
Rules == DOMAIN Buyers \cup DOMAIN TwoSided \cup DOMAIN Researched \cup {"continuation"}

Conditions(g) ==
    IF g \in DOMAIN TwoSided THEN TwoSided[g].holds
    ELSE IF g = "continuation" THEN {"ready", "was inside", "rsi in band", "volume", "below regime"}
    ELSE IF g \in DOMAIN Researched THEN Researched[g]
    ELSE Buyers[g] \cup {"below regime"}
Directions(name) == {"up", "down", "flat"} \cup (IF name = "regime" THEN {"off"} ELSE {})
Ways(g) ==
    LET names == IF g \in DOMAIN TwoSided THEN TwoSided[g].ways ELSE {}
    IN {w \in [names -> {"up", "down", "flat", "off"}] : \A n \in names : w[n] \in Directions(n)}
Bands(g) ==
    IF g \notin OnBands THEN {<<Price, Price, Price>>}
    ELSE {b \in Levels \X Levels \X Levels : b[1] <= b[2] /\ b[2] <= b[3]}
Lines(g) == IF g \in OnLine THEN Levels ELSE {Price}

(* A SuperTrend that points up lies below the close, and the other way.    *)
Possible(v) ==
    "supertrend" \in DOMAIN v.way =>
        (v.way["supertrend"] = "up" => v.line <= Price) /\ (v.way["supertrend"] = "down" => v.line >= Price)

Answer(g, v) ==
    CASE g \in DOMAIN Buyers -> Buys(g, v)
      [] g \in DOMAIN Researched -> Research(g, v)
      [] g = "continuation" -> KeltnerChannelContinuation(v)
      [] g = "squeeze" -> BbSqueezeBreakout(v)
      [] g = "momentum" -> BbSqueezeMomentum(v)
      [] g = "bear" -> BearTrendFollower(v)
      [] g = "cascade" -> CascadingMomentumFilter(v)
      [] g = "donchian" -> DonchianAtr(v)
      [] g = "rsi" -> EmaTrendRsi(v)
      [] g = "ichimoku" -> IchimokuCloudTrend(v)
      [] g = "fade" -> KeltnerFadeAdx(v)
      [] g = "macd" -> MacdPullback(v)
      [] g = "confluence" -> MultiTfConfluence(v)
      [] g = "reversion" -> RegimeAwareMeanReversion(v)
      [] g = "bands" -> RsiBbMeanReversion(v)
      [] g = "divergence" -> RsiDivergenceReversal(v)
      [] g = "supertrend" -> SupertrendVolumeMacd(v)
      [] g = "acceleration" -> TrendAccelerationMomentum(v)
      [] g = "volatility" -> VolatilityRegimeBreakout(v)
      [] g = "vwap" -> VwapPullbackVolume(v)

RuleInit == rule = "none" /\ view = Nothing /\ answer = NotAsked

Generate ==
    /\ answer = NotAsked
    /\ \E g \in Rules : \E w \in Ways(g), b \in Bands(g), l \in Lines(g), r \in Ranges, h \in SUBSET Conditions(g) :
          LET v == [holds |-> h, way |-> w, lower |-> b[1], mid |-> b[2], upper |-> b[3], line |-> l, range |-> r]
          IN Possible(v) /\ rule' = g /\ view' = v /\ answer' = Answer(g, v)

RuleNext == Generate

(***************************************************************************)
(* Properties.                                                             *)
(***************************************************************************)
IsEntry(a) == a # NotAsked /\ a # Nothing /\ a # Failed /\ a # Close
Reflect(x) == 2 * Price - x
Opposite(name) ==
    CASE name = "up" -> "down"                             [] name = "down" -> "up"
      [] name = "touched upper" -> "touched lower"         [] name = "touched lower" -> "touched upper"
      [] name = "flipped up" -> "flipped down"             [] name = "flipped down" -> "flipped up"
      [] name = "rsi buys" -> "rsi sells"                  [] name = "rsi sells" -> "rsi buys"
      [] name = "bullish divergence" -> "bearish divergence" [] name = "bearish divergence" -> "bullish divergence"
      [] name = "broke upper" -> "broke lower"             [] name = "broke lower" -> "broke upper"
      [] name = "upper bb" -> "lower bb"                   [] name = "lower bb" -> "upper bb"
      [] name = "upper kc" -> "lower kc"                   [] name = "lower kc" -> "upper kc"
      [] name = "turns up" -> "turns down"                 [] name = "turns down" -> "turns up"
      [] OTHER -> name
Mirrored(v) ==
    [v EXCEPT !.holds = {Opposite(n) : n \in v.holds}, !.way = [n \in DOMAIN v.way |-> Opposite(v.way[n])],
              !.lower = Reflect(v.upper), !.mid = Reflect(v.mid), !.upper = Reflect(v.lower), !.line = Reflect(v.line)]

(* The stop of every entry is on its losing side, although most stops come *)
(* from bands, averages and clouds and not from the price.  macd_pullback  *)
(* alone needs its average within one range of the price, and              *)
(* supertrend_volume_macd a line that is not the price itself.             *)
Guarded ==
    /\ rule = "macd" => view.line - Price \in (1 - view.range)..(view.range - 1)
    /\ rule = "supertrend" => view.line # Price
    => IF answer.direction = "long" THEN answer.stop < Price ELSE answer.stop > Price

(* The same conditions the other way round give the opposite entry, its    *)
(* stop and target at the same distances, unless there is no room for them *)
(* above zero or a trend is exactly flat.  bear_trend_follower is not      *)
(* symmetric by design.                                                    *)
Symmetric ==
    rule \in DOMAIN TwoSided \ {"bear"} /\ (\A n \in DOMAIN view.way : view.way[n] # "flat") =>
        LET other == Answer(rule, Mirrored(view))
        IN \/ \E x \in {answer.stop, answer.target} : x <= Floor \/ Reflect(x) <= Floor
           \/ /\ IsEntry(other) /\ other.direction # answer.direction
              /\ other.stop = Reflect(answer.stop) /\ other.target = Reflect(answer.target)

\* In every market a generator can look at, the stop of the entry it signals
\* limits a loss, and a falling market is treated as the mirror image of a
\* rising one.
EntriesAreSound == IsEntry(answer) => Guarded /\ Symmetric
=============================================================================
