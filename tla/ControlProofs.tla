--------------------------- MODULE ControlProofs ----------------------------
(***************************************************************************)
(* Proofs about what stands between a signal and the exchange: the limits  *)
(* of the risk pipeline, the sizing, the adapter's calls and their rate    *)
(* limiter, the event bus, the alerts and the summaries that tell of what  *)
(* happened, and the market data all of them decide on.                    *)
(***************************************************************************)
EXTENDS RiskPipeline, ExchangeCalls, Sizing, RateLimiter, EventBus, Alerting, Summaries, MarketData,
        Sums, TLAPS

(***************************************************************************)
(* That a trip in the row is honoured, for any limits, symbols and number  *)
(* of restarts: memory and row both cover what remains of it, so that the  *)
(* checks find the breaker tripped whichever of the two they go back to.   *)
(***************************************************************************)

Timers == [Breakers -> Nat \cup {Off}]

Covers == \A b \in Breakers : held[b] # 0 => tripped[b] >= held[b] /\ savedTrips[b] >= held[b]

TripsInv == tripped \in Timers /\ savedTrips \in Timers /\ held \in [Breakers -> Nat] /\ Covers

(* What a check makes of a breaker that must be honoured.                  *)
LEMMA CheckHonours ==
    ASSUME TripsInv
    PROVE  /\ Checked \in Timers
           /\ StillHeld \in [Breakers -> Nat]
           /\ \A b \in Breakers : StillHeld[b] # 0 => Checked[b] = tripped[b] /\ StillHeld[b] = held[b]
<1>1. Checked \in Timers
  BY LimitsAssumption DEF TripsInv, Timers, Checked
<1>2. StillHeld \in [Breakers -> Nat]
  BY DEF TripsInv, StillHeld
<1>3. ASSUME NEW b \in Breakers, StillHeld[b] # 0
      PROVE  Checked[b] = tripped[b] /\ StillHeld[b] = held[b]
  <2>1. ~Recovers(b) /\ StillHeld[b] = held[b]
    BY <1>3 DEF StillHeld
  <2>2. tripped[b] >= held[b] /\ held[b] \in Nat /\ held[b] # 0 /\ tripped[b] \in Nat \cup {Off}
    BY <1>3, <2>1 DEF TripsInv, Covers, Timers
  <2>3. tripped[b] \notin {Off, 0}
    BY <2>2 DEF Off
  <2> QED
    BY <2>1, <2>3 DEF Checked
<1> QED
  BY <1>1, <1>2, <1>3

LEMMA TripsInitial == RiskInit => TripsInv
  BY DEF RiskInit, TripsInv, Timers, Covers, Off

LEMMA TripsStep ==
    ASSUME TripsInv, [RiskNext]_riskVars
    PROVE  TripsInv'
<1>types. tripped \in Timers /\ savedTrips \in Timers /\ held \in [Breakers -> Nat] /\ Covers
  BY DEF TripsInv
<1>1. CASE UpdateCircuitBreakers
  <2>1. CASE savedTrips' = Checked /\ held' = [b \in Breakers |-> IF Checked[b] = Off THEN 0 ELSE Checked[b]]
    <3>1. tripped' = Checked /\ Checked \in Timers
      BY <1>1, CheckHonours DEF UpdateCircuitBreakers
    <3>2. held' \in [Breakers -> Nat]
      BY <2>1, <3>1 DEF Timers, Off
    <3>3. Covers'
      BY <2>1, <3>1 DEF Covers, Timers, Off
    <3> QED
      BY <2>1, <3>1, <3>2, <3>3 DEF TripsInv
  <2>2. CASE UNCHANGED savedTrips /\ held' = StillHeld
    <3>1. tripped' = Checked
      BY <1>1 DEF UpdateCircuitBreakers
    <3>2. Covers'
      BY <1>types, <2>2, <3>1, CheckHonours DEF Covers
    <3> QED
      BY <1>types, <2>2, <3>1, <3>2, CheckHonours DEF TripsInv
  <2> QED
    BY <1>1, <2>1, <2>2 DEF UpdateCircuitBreakers
<1>2. CASE RiskRestart
  BY <1>2, <1>types DEF RiskRestart, Restored, TripsInv, Covers
<1>3. ASSUME NEW b \in Breakers, ResetBreaker(b) PROVE TripsInv'
  <2>1. tripped' \in Timers /\ held' \in [Breakers -> Nat] /\ savedTrips' = savedTrips
    BY <1>3, <1>types DEF ResetBreaker, Timers
  <2>2. \A a \in Breakers : IF a = b THEN held'[a] = 0 ELSE held'[a] = held[a] /\ tripped'[a] = tripped[a]
    BY <1>3, <1>types DEF ResetBreaker, Timers
  <2>3. Covers'
    BY <1>types, <2>1, <2>2 DEF Covers
  <2> QED
    BY <1>types, <2>1, <2>3 DEF TripsInv
<1>4. ASSUME NEW o \in Orders, NEW extreme \in BOOLEAN, ValidateOrder(o, extreme) PROVE TripsInv'
  <2>1. tripped' = Checked /\ held' = StillHeld /\ UNCHANGED savedTrips
    BY <1>4 DEF ValidateOrder
  <2>2. Covers'
    BY <1>types, <2>1, CheckHonours DEF Covers
  <2> QED
    BY <1>types, <2>1, <2>2, CheckHonours DEF TripsInv
<1>5. ASSUME UNCHANGED <<tripped, savedTrips, held>> PROVE TripsInv'
  BY <1>5, <1>types DEF TripsInv, Covers
<1>6. ASSUME NEW o \in approved, Execute(o) PROVE TripsInv'
  BY <1>5, <1>6 DEF Execute
<1>7. CASE AccountChanges \/ SwitchChanges \/ UNCHANGED riskVars
  BY <1>5, <1>7 DEF AccountChanges, SwitchChanges, riskVars
<1>8. CASE RiskTick
  <2>1. /\ tripped' = [b \in Breakers |-> Less(tripped[b])]
        /\ savedTrips' = [b \in Breakers |-> Less(savedTrips[b])]
        /\ held' = [b \in Breakers |-> Less(held[b])]
    BY <1>8 DEF RiskTick
  <2>2. tripped' \in Timers /\ savedTrips' \in Timers /\ held' \in [Breakers -> Nat]
    BY <1>types, <2>1 DEF Timers, Less, Off
  <2>3. Covers'
    BY <1>types, <2>1 DEF Covers, Timers, Less, Off
  <2> QED
    BY <2>2, <2>3 DEF TripsInv
<1> QED
  BY <1>1, <1>2, <1>3, <1>4, <1>6, <1>7, <1>8 DEF RiskNext

\* A trip that has been written to the row bars every order until its cooldown
\* is over, it is reset by hand or, for the drawdown breaker, it recovers.
THEOREM TripsHonoured == RiskInit /\ [][RiskNext]_riskVars => TripsAreHonoured
<1>1. RiskInit /\ [][RiskNext]_riskVars => []TripsInv
  BY TripsInitial, TripsStep, PTL
<1>2. ASSUME TripsInv, [RiskNext]_riskVars
      PROVE  [approved' \ approved # {} => \A b \in Breakers : held'[b] = 0]_riskVars
  <2>1. SUFFICES ASSUME approved' \ approved # {}
                 PROVE  \A b \in Breakers : held'[b] = 0
    OBVIOUS
  <2>2. PICK o \in Orders, extreme \in BOOLEAN : ValidateOrder(o, extreme)
    BY <1>2, <2>1 DEF RiskNext, riskVars, UpdateCircuitBreakers, RiskRestart, ResetBreaker, Execute,
       AccountChanges, SwitchChanges, RiskTick
  <2>3. held' = StillHeld /\ CircuitBreakersOk
    BY <2>1, <2>2 DEF ValidateOrder
  <2>4. SUFFICES ASSUME NEW b \in Breakers, StillHeld[b] # 0
                 PROVE  FALSE
    BY <2>3
  <2>5. Checked[b] = tripped[b] /\ held[b] # 0
    BY <1>2, <2>4, CheckHonours
  <2>6. Checked[b] # Off
    BY <1>2, <2>5 DEF TripsInv, Covers, Off
  <2> QED
    BY <2>3, <2>6 DEF CircuitBreakersOk
<1> QED
  BY <1>1, <1>2, PTL DEF TripsAreHonoured

(***************************************************************************)
(* That the limits hold as long as orders do not overlap: at most one      *)
(* order is on its way, and it still fits what it was checked against.     *)
(***************************************************************************)
Open == {s \in Symbols : pos[s] # 0}
WithinLimits ==
    /\ Cardinality(Open) <= MaxOpenPositions
    /\ \A s \in Symbols : Abs(pos[s]) <= MaxConcentration /\ Long(s) <= AssetLimit[s]
    /\ TotalLong <= CorrelatedLimit

Fits(o) == MaxPositionsOk(o) /\ ConcentrationOk(o) /\ CorrelationOk(o)

PortfolioInv ==
    /\ pos \in [Symbols -> Int]
    /\ approved \subseteq Orders
    /\ overlapped \/ (\A o \in approved : approved = {o} /\ Fits(o))
    /\ overlapped \/ WithinLimits

LEMMA LongType ==
    ASSUME pos \in [Symbols -> Int]
    PROVE  Integral([s \in Symbols |-> Long(s)], Symbols) /\ TotalLong \in Int
<1>1. Integral([s \in Symbols |-> Long(s)], Symbols)
  BY DEF Integral, Long
<1> QED
  BY <1>1, SumType, LimitsAssumption DEF TotalLong

LEMMA PortfolioInitial == RiskInit => PortfolioInv
<1> SUFFICES ASSUME RiskInit PROVE PortfolioInv
  OBVIOUS
<1>1. pos \in [Symbols -> Int] /\ approved = {} /\ \A s \in Symbols : pos[s] = 0
  BY DEF RiskInit
<1>2. Open = {} /\ Cardinality(Open) = 0
  BY <1>1, FS_EmptySet DEF Open
<1>3. \A s \in Symbols : [t \in Symbols |-> Long(t)][s] = 0
  BY <1>1 DEF Long
<1>4. TotalLong = 0
  BY <1>3, SumZero, LimitsAssumption DEF TotalLong
<1> QED
  BY <1>1, <1>2, <1>4, LimitsAssumption DEF PortfolioInv, WithinLimits, Abs, Long

(* A fill within a symbol: never further from zero than the check allows,  *)
(* and never longer.                                                       *)
LEMMA FillKeepsSymbol ==
    ASSUME NEW p \in Int, NEW o \in Orders, NEW q, q = Filled(p, o)
    PROVE  /\ q \in Int
           /\ o.side = "buy" => IF p < 0 THEN q <= 0 /\ q >= p ELSE q = p + o.units
           /\ o.side = "sell" => IF p > 0 THEN q >= 0 /\ q <= p ELSE q = p - o.units
<1>1. o.units \in Int /\ o.units > 0 /\ o.side \in {"buy", "sell"}
  BY LimitsAssumption DEF Orders
<1>2. \A a, b \in Int : /\ Min({a, b}) = (IF a <= b THEN a ELSE b)
                        /\ Max({a, b}) = (IF a <= b THEN b ELSE a)
  BY DEF Min, Max
<1>3. 0 \in Int /\ p + o.units \in Int /\ p - o.units \in Int
  BY <1>1
<1>m. /\ Min({0, p + o.units}) = (IF 0 <= p + o.units THEN 0 ELSE p + o.units)
      /\ Max({0, p - o.units}) = (IF 0 <= p - o.units THEN p - o.units ELSE 0)
  BY <1>2, <1>3
<1>4. CASE o.side = "buy"
  BY <1>1, <1>m, <1>3, <1>4 DEF Filled
<1>5. CASE o.side = "sell"
  <2>1. q = (IF p > 0 THEN Max({0, p - o.units}) ELSE p - o.units)
    BY <1>5 DEF Filled
  <2>2. o.side # "buy"
    BY <1>5
  <2> QED
    BY <1>1, <1>m, <1>3, <2>1, <2>2
<1> QED
  BY <1>1, <1>4, <1>5

LEMMA FillKeepsLimits ==
    ASSUME pos \in [Symbols -> Int], NEW o \in Orders, Fits(o), WithinLimits,
           pos' = [pos EXCEPT ![o.symbol] = Filled(@, o)]
    PROVE  pos' \in [Symbols -> Int] /\ WithinLimits'
<1> DEFINE s == o.symbol
           p == pos[s]
           q == Filled(p, o)
           f == [t \in Symbols |-> Long(t)]
<1>o. /\ s \in Symbols /\ p \in Int /\ o.units \in Int /\ o.units > 0 /\ o.side \in {"buy", "sell"}
      /\ IsFiniteSet(Symbols)
  BY LimitsAssumption DEF Orders
<1>q. /\ q \in Int
      /\ o.side = "buy" => IF p < 0 THEN q <= 0 /\ q >= p ELSE q = p + o.units
      /\ o.side = "sell" => IF p > 0 THEN q >= 0 /\ q <= p ELSE q = p - o.units
  <2> HIDE DEF p
  <2> QED
    BY <1>o, FillKeepsSymbol
<1>1. pos'[s] = q /\ \A t \in Symbols \ {s} : pos'[t] = pos[t]
  BY <1>o
<1> HIDE DEF q
<1>2. pos' \in [Symbols -> Int]
  BY <1>o, <1>q DEF q
<1>3. Cardinality(Open') <= MaxOpenPositions
  <2>1. IsFiniteSet(Open) /\ IsFiniteSet(Open') /\ Cardinality(Open) \in Nat /\ Cardinality(Open') \in Nat
    BY <1>o, FS_Subset, FS_CardinalityType DEF Open
  <2>2. CASE IsClosing(o)
    <3>1. p # 0
      BY <1>o, <2>2 DEF IsClosing
    <3>2. Open' \subseteq Open
      BY <1>1, <3>1 DEF Open
    <3> QED
      BY <2>1, <3>2, FS_Subset, LimitsAssumption DEF WithinLimits
  <2>3. CASE ~IsClosing(o)
    <3>1. Cardinality(Open) < MaxOpenPositions
      BY <2>3 DEF Fits, MaxPositionsOk, Open
    <3> DEFINE U == Open \cup {s}
    <3>2. Open' \subseteq U
      BY <1>1 DEF Open
    <3>3. IsFiniteSet(U) /\ Cardinality(U) \in Nat /\ Cardinality(U) <= Cardinality(Open) + 1
      <4>1. IsFiniteSet(U) /\ (Cardinality(U) = Cardinality(Open) \/ Cardinality(U) = Cardinality(Open) + 1)
        <5> HIDE DEF s
        <5> QED
          BY <2>1, FS_AddElement
      <4> HIDE DEF U
      <4> QED
        BY <2>1, <4>1
    <3>4. Cardinality(Open') <= Cardinality(U)
      BY <3>2, <3>3, FS_Subset
    <3> HIDE DEF U
    <3> QED
      BY <2>1, <3>1, <3>3, <3>4, LimitsAssumption
  <2> QED
    BY <2>2, <2>3
<1>4. ASSUME NEW t \in Symbols
      PROVE  Abs(pos'[t]) <= MaxConcentration /\ Long(t)' <= AssetLimit[t]
  <2>1. CASE t # s
    BY <1>1, <2>1 DEF WithinLimits, Long
  <2>2. CASE t = s
    <3>1. /\ Abs(p) <= MaxConcentration /\ Abs(p) + o.units <= MaxConcentration /\ Long(s) <= AssetLimit[s]
          /\ o.side = "buy" => Long(s) + o.units <= AssetLimit[s]
      BY <1>o DEF WithinLimits, Fits, ConcentrationOk, CorrelationOk
    <3>2. Long(s) = (IF p > 0 THEN p ELSE 0) /\ Long(s)' = (IF q > 0 THEN q ELSE 0)
      BY <1>1 DEF Long
    <3>3. MaxConcentration \in Int /\ AssetLimit[s] \in Nat
      <4>1. MaxConcentration \in Nat
        BY LimitsAssumption
      <4>2. AssetLimit[s] \in Nat
        BY <1>o, LimitsAssumption
      <4> QED
        BY <4>1, <4>2
    <3> HIDE DEF p, s
    <3> QED
      BY <1>o, <1>q, <1>1, <2>2, <3>1, <3>2, <3>3 DEF Abs
  <2> QED
    BY <2>1, <2>2
<1>5. TotalLong' <= CorrelatedLimit
  <2>1. Integral(f, Symbols) /\ TotalLong \in Int
    BY LongType
  <2> DEFINE g == [t \in Symbols |-> Long(t)']
  <2>2. Integral(g, Symbols)
    BY <1>2 DEF Integral, Long
  <2>3. \A t \in Symbols \ {s} : f[t] = g[t]
    BY <1>1 DEF Long
  <2>4. TotalLong' = SumFunctionOnSet(g, Symbols) /\ TotalLong = SumFunctionOnSet(f, Symbols)
    BY DEF TotalLong
  <2>5. f[s] = (IF p > 0 THEN p ELSE 0) /\ g[s] = (IF q > 0 THEN q ELSE 0)
    BY <1>o, <1>1 DEF Long
  <2>6. TotalLong <= CorrelatedLimit /\ (o.side = "buy" => TotalLong + o.units <= CorrelatedLimit)
    BY DEF WithinLimits, Fits, CorrelationOk
  <2>7. CorrelatedLimit \in Int
    BY LimitsAssumption
  <2> HIDE DEF f, g, s, p
  <2>8. TotalLong' = TotalLong - f[s] + g[s]
    BY <1>o, <2>1, <2>2, <2>3, <2>4, SumAt
  <2> QED
    BY <1>o, <1>q, <2>1, <2>5, <2>6, <2>7, <2>8
<1> QED
  BY <1>2, <1>3, <1>4, <1>5 DEF WithinLimits

LEMMA PortfolioStep ==
    ASSUME PortfolioInv, [RiskNext]_riskVars
    PROVE  PortfolioInv'
<1>types. /\ pos \in [Symbols -> Int] /\ approved \subseteq Orders
          /\ overlapped \/ (\A o \in approved : approved = {o} /\ Fits(o))
          /\ overlapped \/ WithinLimits
  BY DEF PortfolioInv
<1>same. ASSUME UNCHANGED pos
         PROVE  (WithinLimits' <=> WithinLimits) /\ \A o \in Orders : Fits(o)' <=> Fits(o)
  BY <1>same DEF WithinLimits, Open, Long, TotalLong, Fits, MaxPositionsOk, IsClosing,
     ConcentrationOk, CorrelationOk
<1>1. ASSUME UNCHANGED <<pos, approved, overlapped>> PROVE PortfolioInv'
  BY <1>1, <1>types, <1>same DEF PortfolioInv
<1>2. CASE RiskRestart
  BY <1>2, <1>types, <1>same DEF RiskRestart, PortfolioInv
<1>3. ASSUME NEW o \in Orders, NEW extreme \in BOOLEAN, ValidateOrder(o, extreme) PROVE PortfolioInv'
  <2>1. /\ UNCHANGED pos /\ overlapped' = (overlapped \/ approved # {})
        /\ approved' = approved \/ (PortfolioOk(o) /\ approved' = approved \cup {o})
    BY <1>3 DEF ValidateOrder
  <2>2. approved' \subseteq Orders
    BY <1>types, <2>1
  <2>3. overlapped' \/ (\A x \in approved' : approved' = {x} /\ Fits(x)')
    <3> SUFFICES ASSUME ~overlapped' PROVE \A x \in approved' : approved' = {x} /\ Fits(x)'
      OBVIOUS
    <3>1. approved = {}
      BY <2>1
    <3>2. CASE approved' = approved
      BY <3>1, <3>2
    <3>3. CASE PortfolioOk(o) /\ approved' = approved \cup {o}
      BY <1>same, <2>1, <3>1, <3>3 DEF PortfolioOk, Fits
    <3> QED
      BY <2>1, <3>2, <3>3
  <2>4. overlapped' \/ WithinLimits'
    BY <1>types, <1>same, <2>1
  <2> QED
    BY <1>types, <2>1, <2>2, <2>3, <2>4 DEF PortfolioInv
<1>4. ASSUME NEW o \in approved, Execute(o) PROVE PortfolioInv'
  <2>1. o \in Orders /\ approved' = approved \ {o} /\ overlapped' = overlapped
    BY <1>4, <1>types DEF Execute
  <2>2. approved' \subseteq Orders /\ (overlapped' \/ approved' = {})
    BY <1>types, <2>1
  <2>3. CASE pos' = [pos EXCEPT ![o.symbol] = Filled(@, o)]
    <3>1. pos' \in [Symbols -> Int]
      <4>1. pos[o.symbol] \in Int
        BY <1>types, <2>1 DEF Orders
      <4>2. Filled(pos[o.symbol], o) \in Int
        BY <2>1, <4>1, FillKeepsSymbol
      <4> QED
        BY <1>types, <2>3, <4>2
    <3>2. overlapped' \/ WithinLimits'
      BY <1>types, <2>1, <2>3, FillKeepsLimits
    <3> QED
      BY <2>2, <3>1, <3>2 DEF PortfolioInv
  <2>4. CASE UNCHANGED pos
    BY <1>types, <1>same, <2>1, <2>2, <2>4 DEF PortfolioInv
  <2> QED
    BY <1>4, <2>3, <2>4 DEF Execute
<1>5. CASE UpdateCircuitBreakers \/ AccountChanges \/ SwitchChanges \/ RiskTick \/ UNCHANGED riskVars
  BY <1>1, <1>5 DEF UpdateCircuitBreakers, AccountChanges, SwitchChanges, RiskTick, riskVars
<1>6. ASSUME NEW b \in Breakers, ResetBreaker(b) PROVE PortfolioInv'
  BY <1>1, <1>6 DEF ResetBreaker
<1> QED
  BY <1>2, <1>3, <1>4, <1>5, <1>6 DEF RiskNext

\* As long as no order is validated while another is on its way, the checks
\* of single orders keep the portfolio within all its limits: the number of
\* positions, the share of each, the exposure of each asset and of all.
THEOREM ExposureStaysWithinLimits == RiskInit /\ [][RiskNext]_riskVars => []ExposureWithinLimits
<1>1. RiskInit /\ [][RiskNext]_riskVars => []PortfolioInv
  BY PortfolioInitial, PortfolioStep, PTL
<1>2. PortfolioInv => ExposureWithinLimits
  BY DEF PortfolioInv, WithinLimits, Open, ExposureWithinLimits
<1> QED
  BY <1>1, <1>2, PTL

(***************************************************************************)
(* AnswersTellTheTruth, for any number of orders and of calls.  A call     *)
(* settles what its answer will be when the exchange replies; what has to  *)
(* be carried to the answer is how the reply and the book hang together.   *)
(***************************************************************************)

Answers == {"result", "unmapped", "none", "BinanceConnectionError", "BinanceAPIError",
            "OrderNotFoundError", "OrderSubmissionError"} \cup Denials
States == {"NEW", "FILLED", "CANCELED"}

Types ==
    /\ book \in Seq(States)
    /\ Len(book) <= MaxPlaced
    /\ apiCall.id \in Ids
    /\ callStage \in {"idle", "checked", "sent", "replied", "answered"}
    /\ read \in States \cup {"none"}
    /\ confirmed \in Nat /\ doubts \in Nat
    /\ told \in [Ids -> States \cup {"none"}]
    /\ callStage = "replied" => apiCall.op \in Ops
    /\ callStage = "sent" => apiCall.op \in Ops
    /\ callStage = "checked" => apiCall.op \in Ops

Creating == apiCall.op = "create_order"
Target == IF Creating THEN Len(book) ELSE apiCall.id

(* Every order is accounted for, up to the reply that is on its way.       *)
Accounts ==
    /\ callStage # "replied" => confirmed <= Len(book) /\ Len(book) <= confirmed + doubts
    /\ callStage = "replied" /\ ~(Creating /\ reply \in {"ok"} \cup Lost) =>
          confirmed <= Len(book) /\ Len(book) <= confirmed + doubts
    /\ callStage = "replied" /\ Creating /\ reply = "ok" =>
          confirmed + 1 <= Len(book) /\ Len(book) <= confirmed + doubts + 1
    /\ callStage = "replied" /\ Creating /\ reply \in Lost =>
          confirmed <= Len(book) /\ Len(book) <= confirmed + doubts + 1

Final(s) == s \in {"FILLED", "CANCELED"}

Statuses ==
    /\ \A id \in Ids : Final(told[id]) => StateOf(id) = told[id]
    /\ callStage = "replied" /\ Final(read) => Target \in Ids /\ StateOf(Target) = read
    /\ callStage = "replied" /\ reply \in {"-2011", "-2013"} => StateOf(apiCall.id) # "NEW"
    /\ answer = "OrderNotFoundError" => StateOf(apiCall.id) # "NEW"
    /\ callStage # "answered" => answer = "none"

CallInv == Types /\ Accounts /\ Statuses

(***************************************************************************)
(* What the except clauses can raise.                                      *)
(***************************************************************************)
LEMMA Clauses ==
    ASSUME NEW op \in Ops, NEW error
    PROVE  /\ ClientRaises(op, error) \in {"unmapped", "BinanceConnectionError", "BinanceAPIError",
                "SymbolNotFoundError", "BinanceRateLimitError", "BinanceAuthenticationError"}
           /\ error \in Lost => ClientRaises(op, error) \in
                {"unmapped", "BinanceConnectionError", "BinanceAPIError"}
<1>1. ASSUME NEW m, m = Methods[op]
      PROVE  /\ m.named \subseteq {"-1121", "-1003", "-2015"}
             /\ m.codes \subseteq Codes
  BY <1>1 DEF Methods, Ops, Method, Codes, Ping, GetServerTime, GetKlines, GetExchangeInfo,
              GetAccount, CreateOrder, CancelOrder, GetOrderStatus, GetOpenOrders
<1> QED
  BY <1>1 DEF ClientRaises, OwnException, Lost

LEMMA Outcomes ==
    ASSUME apiCall.op \in Ops
    PROVE  /\ reply = "ok" <=> Outcome = "result"
           /\ reply \in Lost => Outcome \notin Denials \cup {"result"}
           /\ Outcome = "OrderNotFoundError" => reply \in {"-2011", "-2013"}
  BY Clauses DEF Outcome, AdapterRaises, HandleApiError, Lost, Denials

(***************************************************************************)
(* The invariant holds at first, and every action keeps it.                *)
(***************************************************************************)
LEMMA CallInitial == CallInit => CallInv
  BY CallsAssumption DEF CallInit, CallInv, Types, Accounts, Statuses, States, NoCall, Ids, Final

LEMMA CallStep ==
    ASSUME CallInv, [CallNext]_callVars
    PROVE  CallInv'
<1> USE CallsAssumption DEF Ids
<1>types. Types
  BY DEF CallInv
<1>accounts. Accounts
  BY DEF CallInv
<1>statuses. Statuses
  BY DEF CallInv
<1>1. ASSUME NEW op \in ByAdapter, NEW id \in Ids, NEW translates \in BOOLEAN,
             CallAdapter(op, id, translates)
      PROVE  CallInv'
  <2>1. op \in Ops
    BY DEF ByAdapter, Ops, Methods
  <2>2. Types'
    BY <1>1, <1>types, <2>1 DEF CallAdapter, Types
  <2>3. Accounts'
    BY <1>1, <1>accounts DEF CallAdapter, Accounts
  <2>4. Statuses'
    BY <1>1, <1>statuses DEF CallAdapter, Statuses, StateOf, Known
  <2> QED
    BY <2>2, <2>3, <2>4 DEF CallInv
<1>2. ASSUME NEW op \in Ops, NEW id \in Ids, CallClient(op, id) PROVE CallInv'
  <2>1. Types'
    BY <1>2, <1>types DEF CallClient, Types
  <2>2. Accounts'
    BY <1>2, <1>accounts DEF CallClient, Accounts
  <2>3. Statuses'
    BY <1>2, <1>statuses DEF CallClient, Statuses, StateOf, Known
  <2> QED
    BY <2>1, <2>2, <2>3 DEF CallInv
<1>3. CASE ClientSends
  <2>1. Types'
    BY <1>3, <1>types DEF ClientSends, Types
  <2>2. Accounts'
    BY <1>3, <1>accounts DEF ClientSends, Accounts
  <2>3. Statuses'
    BY <1>3, <1>statuses DEF ClientSends, Statuses, StateOf, Known
  <2> QED
    BY <2>1, <2>2, <2>3 DEF CallInv
<1>4. CASE ExchangeReplies
  <2> DEFINE Opened == book' = book
             Placed == \E state \in States : book' = Append(book, state) /\ Len(book) < MaxPlaced
                          /\ ((reply' = "ok" /\ read' = state) \/ (reply' \in Lost /\ read' = "none"))
             Closed == /\ StateOf(apiCall.id) = "NEW"
                       /\ book' = [book EXCEPT ![apiCall.id] = "CANCELED"]
                       /\ ((reply' = "ok" /\ read' = "CANCELED") \/ (reply' \in Lost /\ read' = "none"))
  <2>frame. /\ callStage = "sent" /\ callStage' = "replied" /\ apiCall.op \in Ops
            /\ UNCHANGED <<keyed, apiCall, answer, confirmed, doubts, told>>
    BY <1>4, <1>types DEF ExchangeReplies, Types
  <2>1. CASE Opened /\ read' = "none" /\ ~(Creating /\ reply' = "ok")
             /\ (reply' \in {"-2011", "-2013"} => StateOf(apiCall.id) # "NEW")
    <3>1. Types'
      BY <2>frame, <2>1, <1>types DEF Types
    <3>2. Accounts'
      BY <2>frame, <2>1, <1>accounts, <1>types DEF Accounts, Creating, Types
    <3>3. Statuses'
      BY <2>frame, <2>1, <1>statuses DEF Statuses, Final, StateOf, Known
    <3> QED
      BY <3>1, <3>2, <3>3 DEF CallInv
  <2>2. CASE Creating /\ Placed
    <3>1. PICK state \in States : book' = Append(book, state) /\ Len(book) < MaxPlaced
                /\ ((reply' = "ok" /\ read' = state) \/ (reply' \in Lost /\ read' = "none"))
      BY <2>2
    <3>2. /\ Len(book') = Len(book) + 1 /\ book' \in Seq(States)
          /\ \A i \in DOMAIN book : book'[i] = book[i]
          /\ book'[Len(book) + 1] = state
          /\ DOMAIN book' = 1 .. Len(book) + 1 /\ DOMAIN book = 1 .. Len(book)
          /\ Len(book) \in Nat
      BY <3>1, <1>types DEF Types
    <3>3. Types'
      BY <2>frame, <3>1, <3>2, <1>types DEF Types
    <3>4. Accounts'
      BY <2>frame, <2>2, <3>1, <3>2, <1>accounts, <1>types DEF Accounts, Creating, Types
    <3>5. Statuses'
      <4>1. \A i \in DOMAIN book : StateOf(i)' = StateOf(i)
        BY <3>2 DEF StateOf, Known
      <4>2. \A id \in Ids : Final(told[id]) => id \in DOMAIN book
        BY <1>statuses DEF Statuses, StateOf, Known, Final
      <4>3. Target' = Len(book) + 1 /\ StateOf(Target)' = state /\ Target' \in Ids
        BY <2>frame, <2>2, <3>1, <3>2 DEF Target, Creating, StateOf, Known
      <4>4. reply' \notin {"-2011", "-2013"}
        BY <3>1 DEF Lost
      <4>5. answer' = "none"
        BY <2>frame, <1>statuses DEF Statuses
      <4>6. Final(read') => read' = state
        BY <3>1 DEF Final
      <4> QED
        BY <2>frame, <4>1, <4>2, <4>3, <4>4, <4>5, <4>6, <1>statuses DEF Statuses, Final
    <3> QED
      BY <3>3, <3>4, <3>5 DEF CallInv
  <2>3. CASE ~Creating /\ Closed
    <3>1. apiCall.id \in DOMAIN book
      BY <2>3 DEF StateOf, Known
    <3>2. Len(book') = Len(book) /\ book' \in Seq(States) /\ DOMAIN book' = DOMAIN book
      BY <2>3, <3>1, <1>types DEF Types, States
    <3>3. \A i : StateOf(i)' = IF i = apiCall.id THEN "CANCELED" ELSE StateOf(i)
      BY <2>3, <3>1, <3>2, <1>types DEF StateOf, Known, Types
    <3>4. Types'
      BY <2>frame, <2>3, <3>2, <1>types DEF Types, States
    <3>5. Accounts'
      BY <2>frame, <2>3, <3>2, <1>accounts DEF Accounts, Creating
    <3>6. Statuses'
      <4>1. Target' = apiCall.id /\ StateOf(Target)' = "CANCELED" /\ Target' \in Ids
        BY <2>frame, <2>3, <3>3, <1>types DEF Target, Creating, Types
      <4>2. Final(read') => read' = "CANCELED"
        BY <2>3 DEF Final
      <4>3. answer' = "none" /\ reply' \notin {"-2011", "-2013"}
        BY <2>frame, <2>3, <1>statuses DEF Statuses, Lost
      <4>4. \A id \in Ids : Final(told[id]) => StateOf(id)' = told[id]
        BY <2>3, <3>3, <1>statuses DEF Statuses, Final
      <4> QED
        BY <2>frame, <4>1, <4>2, <4>3, <4>4 DEF Statuses, Final
    <3> QED
      BY <3>4, <3>5, <3>6 DEF CallInv
  <2>4. CASE /\ apiCall.op = "get_order_status" /\ Known(apiCall.id)
             /\ reply' = "ok" /\ read' = book[apiCall.id] /\ Opened
    <3>1. Types'
      BY <2>frame, <2>4, <1>types DEF Types, Known
    <3>2. Accounts'
      BY <2>frame, <2>4, <1>accounts DEF Accounts, Creating
    <3>3. Statuses'
      BY <2>frame, <2>4, <1>statuses, <1>types DEF Statuses, Types, Final, Target, Creating, StateOf, Known
    <3> QED
      BY <3>1, <3>2, <3>3 DEF CallInv
  <2> QED
    <3>1. CASE Replies(Refusals(apiCall.op) \cup Lost) /\ UNCHANGED book
      <4>1. reply' \in Refusals(apiCall.op) \cup Lost /\ read' = "none"
        BY <3>1 DEF Replies
      <4>2. reply' \notin {"ok", "-2011", "-2013"}
        BY <4>1 DEF Refusals, Lost
      <4> QED
        BY <3>1, <4>1, <4>2, <2>1
    <3>2. CASE apiCall.op = "create_order" /\ \E state \in {"NEW", "FILLED"} : Accepts(state)
      <4>1. PICK state \in {"NEW", "FILLED"} : Accepts(state)
        BY <3>2
      <4>2. state \in States
        BY DEF States
      <4>3. Placed
        BY <4>1, <4>2 DEF Accepts, Replies
      <4> QED
        BY <3>2, <4>3, <2>2 DEF Creating
    <3>3. CASE apiCall.op = "cancel_order" /\ Cancels(apiCall.id)
      BY <3>3, <2>1, <2>3 DEF Cancels, Creating, Replies
    <3>4. CASE /\ apiCall.op = "get_order_status"
               /\ IF Known(apiCall.id) THEN reply' = "ok" /\ read' = book[apiCall.id]
                  ELSE Replies({"-2013"})
               /\ UNCHANGED book
      BY <3>4, <2>1, <2>4 DEF Replies, Creating, StateOf
    <3>5. CASE /\ apiCall.op \notin {"create_order", "cancel_order", "get_order_status"}
               /\ Replies({"ok"}) /\ UNCHANGED book
      BY <3>5, <2>1 DEF Replies, Creating
    <3> QED
      BY <1>4, <3>1, <3>2, <3>3, <3>4, <3>5 DEF ExchangeReplies
<1>5. CASE CallReturns
  <2>1. apiCall.op \in Ops /\ callStage = "replied" /\ callStage' = "answered"
    BY <1>5, <1>types DEF CallReturns, Types
  <2>2. UNCHANGED <<book, keyed, apiCall, reply, read>> /\ answer' = Outcome
    BY <1>5 DEF CallReturns
  <2>3. told' = IF read = "none" THEN told ELSE [told EXCEPT ![Target] = read]
    BY <1>5 DEF CallReturns, Target, Creating
  <2>4. Types'
    <3>1. confirmed' \in Nat /\ doubts' \in Nat
      BY <1>5, <1>types DEF CallReturns, Types
    <3>2. told' \in [Ids -> States \cup {"none"}]
      BY <2>3, <1>types DEF Types
    <3> QED
      BY <2>1, <2>2, <3>1, <3>2, <1>types DEF Types
  <2>5. Accounts'
    <3>1. CASE ~Creating
      BY <1>5, <2>1, <2>2, <3>1, <1>accounts DEF CallReturns, Accounts, Creating
    <3>2. CASE Creating /\ reply = "ok"
      BY <1>5, <2>1, <2>2, <3>2, Outcomes, <1>accounts, <1>types
         DEF CallReturns, Accounts, Creating, Types
    <3>3. CASE Creating /\ reply \in Lost
      BY <1>5, <2>1, <2>2, <3>3, Outcomes, <1>accounts, <1>types
         DEF CallReturns, Accounts, Creating, Types, Lost
    <3>4. CASE Creating /\ reply \notin {"ok"} \cup Lost
      BY <1>5, <2>1, <2>2, <3>4, <1>accounts, <1>types
         DEF CallReturns, Accounts, Creating, Types
    <3> QED
      BY <3>1, <3>2, <3>3, <3>4
  <2>6. Statuses'
    <3>1. \A id \in Ids : Final(told'[id]) => StateOf(id)' = told'[id]
      BY <2>1, <2>2, <2>3, <1>statuses, <1>types DEF Statuses, Types, StateOf, Known, Final
    <3>2. answer' = "OrderNotFoundError" => StateOf(apiCall.id)' # "NEW"
      BY <2>1, <2>2, Outcomes, <1>statuses DEF Statuses, StateOf, Known
    <3> QED
      BY <2>1, <2>2, <3>1, <3>2 DEF Statuses, Final
  <2> QED
    BY <2>4, <2>5, <2>6 DEF CallInv
<1>6. CASE CallEnds
  <2>1. Types'
    BY <1>6, <1>types DEF CallEnds, Types, NoCall
  <2>2. Accounts'
    BY <1>6, <1>accounts DEF CallEnds, Accounts
  <2>3. Statuses'
    BY <1>6, <1>statuses DEF CallEnds, Statuses, StateOf, Known
  <2> QED
    BY <2>1, <2>2, <2>3 DEF CallInv
<1>7. ASSUME NEW id \in Ids, BookMoves(id) PROVE CallInv'
  <2>1. PICK state \in {"FILLED", "CANCELED"} : book' = [book EXCEPT ![id] = state]
    BY <1>7 DEF BookMoves
  <2>2. id \in DOMAIN book /\ book[id] = "NEW"
    BY <1>7 DEF BookMoves, StateOf, Known
  <2>a. state \in States
    BY DEF States
  <2>3. Len(book') = Len(book) /\ book' \in Seq(States) /\ DOMAIN book' = DOMAIN book
    BY <2>1, <2>2, <2>a, <1>types DEF Types
  <2>4. \A i : StateOf(i)' = IF i = id THEN state ELSE StateOf(i)
    <3>1. \A i \in DOMAIN book : book'[i] = IF i = id THEN state ELSE book[i]
      BY <2>1, <2>2, <1>types DEF Types
    <3> QED
      BY <2>2, <2>3, <3>1 DEF StateOf, Known
  <2>5. Types'
    BY <1>7, <1>types, <2>3 DEF BookMoves, Types
  <2>6. Accounts'
    BY <1>7, <1>accounts, <2>3 DEF BookMoves, Accounts, Creating
  <2>7. Statuses'
    BY <1>7, <1>statuses, <2>2, <2>3, <2>4 DEF BookMoves, Statuses, Target, Creating, Final, StateOf, Known
  <2> QED
    BY <2>5, <2>6, <2>7 DEF CallInv
<1>8. CASE UNCHANGED callVars
  BY <1>8 DEF callVars, CallInv, Types, Accounts, Statuses, Target, Creating, StateOf, Known
<1> QED
  BY <1>1, <1>2, <1>3, <1>4, <1>5, <1>6, <1>7, <1>8 DEF CallNext

LEMMA CallInvariant == CallSpec => []CallInv
  BY CallInitial, CallStep, PTL DEF CallSpec

\* Whatever is lost between the two, the caller and the exchange never disagree
\* on more than the caller knows to be open.
THEOREM TruthfulAnswers == CallSpec => []AnswersTellTheTruth
<1>1. CallInv => AnswersTellTheTruth
  BY DEF CallInv, Accounts, Statuses, AnswersTellTheTruth, Final
<1> QED
  BY <1>1, CallInvariant, PTL

(***************************************************************************)
(* Sizing: the arithmetic of whole units, and what each method makes of a  *)
(* request.                                                                *)
(***************************************************************************)
LEMMA QuotientIsSmall ==
    \A n \in Nat, d \in Nat \ {0} : n \div d \in Nat /\ (n \div d) * d <= n /\ n < (n \div d) * d + d
  OBVIOUS

LEMMA ProductsKeepOrder == \A a, b, c \in Nat : a <= b => a * c <= b * c
  OBVIOUS

LEMMA ProductIsNatural == \A a, b \in Nat : a * b \in Nat
  OBVIOUS

LEMMA ProductIsPositive == \A a, b \in Nat \ {0} : a * b \in Nat \ {0}
  OBVIOUS

LEMMA LesserAndGreater ==
    \A a, b \in Int : /\ Min({a, b}) = (IF a <= b THEN a ELSE b)
                      /\ Max({a, b}) = (IF a <= b THEN b ELSE a)
  BY DEF Min, Max

LEMMA RequestTypes ==
    ASSUME NEW r \in Requests
    PROVE  /\ r.stop \in Nat \ {0} /\ r.atr \in Nat \ {0} /\ r.entry \in Nat \ {0} /\ r.gain \in Nat \ {0}
           /\ r.cash \in Nat /\ r.volatility \in Nat /\ r.loss \in Nat
           /\ r.wins \in 0..100 /\ r.regime \in 0..100 /\ r.cap \in 0..30
           /\ Equity \in Nat /\ Lot \in Nat
  BY SizingAssumption DEF MINIMUM_CASH_RESERVE_PCT, EMERGENCY_BUFFER_PCT

(* What is left of the cash above the reserve, if anything.                *)
LEMMA ReserveIsKept ==
    ASSUME NEW r \in Requests
    PROVE  /\ AvailableCapital(r.cash) \in Nat
           /\ AvailableCapital(r.cash) = 0 \/ Equity * r.cap <= r.cash * 100
<1> DEFINE reserve == (Equity * 30) \div 100
<1>1. AvailableCapital(r.cash) = Max({0, r.cash - reserve})
  BY DEF AvailableCapital, MINIMUM_CASH_RESERVE_PCT, EMERGENCY_BUFFER_PCT
<1>2. Equity * 30 \in Nat /\ reserve \in Nat /\ Equity * 30 < reserve * 100 + 100
  <2>1. Equity * 30 \in Nat
    BY RequestTypes, ProductIsNatural
  <2> DEFINE whole == Equity * 30
  <2> HIDE DEF whole
  <2>2. whole \in Nat => whole \div 100 \in Nat /\ whole < (whole \div 100) * 100 + 100
    BY QuotientIsSmall
  <2> QED
    BY <2>1, <2>2 DEF whole
<1>3. Equity * r.cap <= Equity * 30 /\ Equity * r.cap \in Nat
  BY RequestTypes, ProductsKeepOrder, ProductIsNatural
<1> HIDE DEF reserve
<1>4. AvailableCapital(r.cash) = (IF 0 <= r.cash - reserve THEN r.cash - reserve ELSE 0)
  <2> DEFINE left == r.cash - reserve
  <2>1. left \in Int
    BY <1>2, RequestTypes
  <2>2. AvailableCapital(r.cash) = Max({0, left})
    BY <1>1
  <2> HIDE DEF left
  <2>3. Max({0, left}) = (IF 0 <= left THEN left ELSE 0)
    BY <2>1, LesserAndGreater
  <2> QED
    BY <2>2, <2>3 DEF left
<1> QED
  BY <1>2, <1>3, <1>4, RequestTypes

LEMMA RiskType == ASSUME NEW r \in Requests PROVE RiskAmount(r) \in Nat
<1>1. Min({r.cap, 2}) \in Nat
  BY RequestTypes, LesserAndGreater
<1>2. AvailableCapital(r.cash) * Min({r.cap, 2}) \in Nat
  BY <1>1, ReserveIsKept, ProductIsNatural
<1> QED
  BY <1>2, QuotientIsSmall DEF RiskAmount

(* The stop of a fixed-risk or Kelly order costs no more than its risk.    *)
LEMMA StopCostsRisk ==
    ASSUME NEW risk \in Nat, NEW stop \in Nat \ {0}
    PROVE  (risk * Lot) \div stop \in Nat /\ ((risk * Lot) \div stop) * stop <= risk * Lot
<1>1. risk * Lot \in Nat
  BY SizingAssumption, ProductIsNatural
<1> QED
  BY <1>1, QuotientIsSmall

LEMMA AtrStopCostsRisk ==
    ASSUME NEW r \in Requests
    PROVE  /\ AtrSize(r).risk = RiskAmount(r) /\ AtrSize(r).quantity \in Nat
           /\ r.stop * 100 <= r.atr * AtrMultiplier(r) =>
                AtrSize(r).quantity * r.stop <= RiskAmount(r) * Lot
<1> DEFINE n == RiskAmount(r) * Lot
           d == r.atr * AtrMultiplier(r)
           q == AtrSize(r).quantity
<1>1. n \in Nat /\ RiskAmount(r) * Lot * 100 = n * 100 /\ n * 100 \in Nat
  BY RequestTypes, RiskType, ProductIsNatural
<1>2. AtrMultiplier(r) \in Nat \ {0}
  BY RequestTypes DEF AtrMultiplier
<1>3. d \in Nat \ {0}
  BY <1>2, RequestTypes, ProductIsPositive
<1>4. q = (n * 100) \div d /\ AtrSize(r).risk = RiskAmount(r)
  BY <1>1 DEF AtrSize
<1> HIDE DEF n, d, q
<1>5. q \in Nat /\ q * d <= n * 100
  BY <1>1, <1>3, <1>4, QuotientIsSmall
<1>6. ASSUME r.stop * 100 <= d PROVE q * r.stop <= n
  <2>1. r.stop * 100 \in Nat /\ r.stop \in Nat
    BY RequestTypes
  <2>2. (r.stop * 100) * q <= d * q
    BY <1>3, <1>5, <1>6, <2>1, ProductsKeepOrder
  <2>3. (r.stop * 100) * q = (q * r.stop) * 100 /\ d * q = q * d /\ q * r.stop \in Nat
    BY <1>3, <1>5, <2>1
  <2> QED
    BY <1>1, <1>3, <1>5, <2>2, <2>3
<1> QED
  BY <1>4, <1>5, <1>6 DEF n, d, q

LEMMA RawIsSound ==
    ASSUME NEW r \in Requests
    PROVE  /\ Raw(r).quantity \in Nat /\ Raw(r).risk \in Nat /\ DOMAIN Raw(r) = {"risk", "quantity"}
           /\ AvailableCapital(r.cash) = 0 => Raw(r).quantity = 0
           /\ (r.method = "atr_based" => r.stop * 100 <= r.atr * AtrMultiplier(r)) =>
                Raw(r).quantity * r.stop <= Raw(r).risk * Lot
<1>1. CASE AvailableCapital(r.cash) = 0
  <2>1. Raw(r) = [risk |-> 0, quantity |-> 0]
    BY <1>1 DEF Raw
  <2> QED
    BY <2>1, RequestTypes
<1>2. CASE AvailableCapital(r.cash) # 0 /\ r.method = "atr_based"
  <2>1. Raw(r) = AtrSize(r)
    BY <1>2 DEF Raw
  <2>2. DOMAIN AtrSize(r) = {"risk", "quantity"}
    BY DEF AtrSize
  <2> QED
    BY <1>2, <2>1, <2>2, AtrStopCostsRisk, RiskType
<1>3. CASE AvailableCapital(r.cash) # 0 /\ r.method = "kelly"
  <2> DEFINE edge == r.wins * r.gain - (100 - r.wins) * r.loss
             risk == (AvailableCapital(r.cash) * edge) \div (400 * r.gain)
  <2>1. Raw(r) = IF edge <= 0 THEN [risk |-> 0, quantity |-> 0]
                 ELSE [risk |-> risk, quantity |-> (risk * Lot) \div r.stop]
    BY <1>3 DEF Raw, KellySize
  <2>2. edge \in Int
    <3>1. r.wins * r.gain \in Nat /\ (100 - r.wins) * r.loss \in Nat
      BY RequestTypes, ProductIsNatural
    <3> QED
      BY <3>1
  <2>3. 400 * r.gain \in Nat \ {0}
    BY RequestTypes
  <2>4. CASE edge <= 0
    <3>1. Raw(r) = [risk |-> 0, quantity |-> 0]
      BY <2>1, <2>4
    <3> QED
      BY <1>3, <3>1, RequestTypes
  <2>5. CASE ~(edge <= 0)
    <3> HIDE DEF edge
    <3>1. AvailableCapital(r.cash) * edge \in Nat
      BY <2>2, <2>5, ReserveIsKept, ProductIsNatural
    <3>2. risk \in Nat
      BY <2>3, <3>1, QuotientIsSmall
    <3>3. Raw(r) = [risk |-> risk, quantity |-> (risk * Lot) \div r.stop]
      BY <2>1, <2>5 DEF edge
    <3> HIDE DEF risk
    <3> QED
      BY <1>3, <3>2, <3>3, RequestTypes, StopCostsRisk
  <2> QED
    BY <2>4, <2>5
<1>4. CASE AvailableCapital(r.cash) # 0 /\ r.method \notin {"atr_based", "kelly"}
  <2>1. Raw(r) = [risk |-> RiskAmount(r), quantity |-> (RiskAmount(r) * Lot) \div r.stop]
    BY <1>4 DEF Raw, FixedRiskSize
  <2> QED
    BY <1>4, <2>1, RequestTypes, RiskType, StopCostsRisk
<1> QED
  BY <1>1, <1>2, <1>3, <1>4

(* The adjustment and the cap only take away.                              *)
LEMMA SizeIsCapped ==
    ASSUME NEW r \in Requests, NEW q, q = SizeOf(r).quantity
    PROVE  /\ q \in Nat /\ q <= Raw(r).quantity /\ SizeOf(r).risk = Raw(r).risk
           /\ q * r.entry * 100 <= Equity * r.cap * Lot
<1> DEFINE raw == Raw(r).quantity
           adjusted == RegimeAdjusted(raw, r)
           value == Equity * r.cap * Lot
           cap == PositionCap(r)
<1>1. raw \in Nat /\ DOMAIN Raw(r) = {"risk", "quantity"}
  BY RawIsSound
<1>2. SizeOf(r).risk = Raw(r).risk /\ q = Min({adjusted, cap})
  BY <1>1 DEF SizeOf
<1>3. adjusted \in Nat /\ adjusted <= raw
  <2>1. raw * r.regime \in Nat /\ raw * r.regime <= raw * 100
    <3> HIDE DEF raw
    <3>1. r.regime \in Nat /\ r.regime <= 100
      BY RequestTypes
    <3>2. r.regime * raw <= 100 * raw /\ r.regime * raw = raw * r.regime /\ 100 * raw = raw * 100
      BY <1>1, <3>1, ProductsKeepOrder
    <3> QED
      BY <1>1, <3>1, <3>2, ProductIsNatural
  <2>2. adjusted = (raw * r.regime) \div 100
    BY DEF RegimeAdjusted
  <2> HIDE DEF raw, adjusted
  <2>3. adjusted \in Nat /\ adjusted * 100 <= raw * r.regime
    BY <2>1, <2>2, QuotientIsSmall
  <2> QED
    BY <1>1, <2>1, <2>3
<1>4. value \in Nat
  <2>1. Equity * r.cap \in Nat
    BY RequestTypes, ProductIsNatural
  <2> QED
    BY <2>1, RequestTypes, ProductIsNatural
<1>5. 100 * r.entry \in Nat \ {0} /\ r.entry \in Nat
  BY RequestTypes
<1>6. cap = value \div (100 * r.entry)
  BY DEF PositionCap
<1> HIDE DEF raw, adjusted, value, cap
<1>7. cap \in Nat /\ cap * (100 * r.entry) <= value
  BY <1>4, <1>5, <1>6, QuotientIsSmall
<1>8. q \in Nat /\ q <= adjusted /\ q <= cap
  BY <1>2, <1>3, <1>7, LesserAndGreater
<1>9. q * r.entry * 100 <= value
  <2>1. q * (100 * r.entry) <= cap * (100 * r.entry)
    BY <1>5, <1>7, <1>8, ProductsKeepOrder
  <2>2. q * r.entry * 100 = q * (100 * r.entry) /\ q * (100 * r.entry) \in Nat
    BY <1>5, <1>8
  <2>3. cap * (100 * r.entry) \in Nat
    BY <1>5, <1>7, ProductIsNatural
  <2> QED
    BY <1>4, <1>7, <2>1, <2>2, <2>3
<1> QED
  BY <1>1, <1>2, <1>3, <1>8, <1>9 DEF raw, value

(* The position can be paid for: the cap is below what is kept back.       *)
LEMMA SizeCanBePaid ==
    ASSUME NEW r \in Requests, NEW q, q = SizeOf(r).quantity
    PROVE  q * r.entry <= r.cash * Lot
<1> DEFINE notional == q * r.entry
           e == Equity * r.cap
<1>1. q \in Nat /\ q <= Raw(r).quantity /\ q * r.entry * 100 <= Equity * r.cap * Lot
  BY SizeIsCapped
<1>2. notional \in Nat /\ e \in Nat /\ r.cash * Lot \in Nat /\ r.cash * 100 \in Nat
  BY <1>1, RequestTypes, ProductIsNatural
<1>3. CASE AvailableCapital(r.cash) = 0
  <2>1. Raw(r).quantity = 0
    BY <1>3, RawIsSound
  <2>2. q = 0
    BY <1>1, <2>1
  <2> QED
    BY <1>2, <2>2, RequestTypes
<1>4. CASE AvailableCapital(r.cash) # 0
  <2>1. e <= r.cash * 100
    BY <1>4, ReserveIsKept
  <2>2. e * Lot <= (r.cash * 100) * Lot
    <3> HIDE DEF e
    <3> QED
      BY <1>2, <2>1, RequestTypes, ProductsKeepOrder
  <2>3. (r.cash * 100) * Lot = (r.cash * Lot) * 100
    BY RequestTypes
  <2>4. notional * 100 <= e * Lot
    BY <1>1
  <2>5. e * Lot \in Nat
    BY <1>2, RequestTypes, ProductIsNatural
  <2> HIDE DEF e, notional
  <2>6. notional <= r.cash * Lot
    BY <1>2, <2>2, <2>3, <2>4, <2>5
  <2> QED
    BY <2>6 DEF notional
<1> QED
  BY <1>3, <1>4

\* Whatever the method, the profile and the prices, the sizing of an order can
\* be paid for from the cash, passes the check of its size, and its stop costs
\* no more than the risk it names, unless the ATR sets the stop elsewhere.
THEOREM SizesAreSound == SizeInit /\ [][SizeNext]_sizeVars => []SizeIsSound
<1> DEFINE Inv == sized = NotSized \/ (request \in Requests /\ sized = SizeOf(request))
<1>1. SizeInit => Inv
  BY DEF SizeInit
<1>2. Inv /\ [SizeNext]_sizeVars => Inv'
  BY DEF SizeNext, CalculatePositionSize, sizeVars
<1>3. Inv => SizeIsSound
  <2> SUFFICES ASSUME request \in Requests, sized = SizeOf(request) PROVE SizeIsSound
    BY DEF SizeIsSound
  <2> DEFINE q == sized.quantity
             raw == Raw(request).quantity
  <2>1. /\ q \in Nat /\ q <= raw /\ sized.risk = Raw(request).risk
        /\ q * request.entry * 100 <= Equity * request.cap * Lot
        /\ q * request.entry <= request.cash * Lot
    BY SizeIsCapped, SizeCanBePaid
  <2>2. /\ raw \in Nat /\ Raw(request).risk \in Nat
        /\ (request.method = "atr_based" => request.stop * 100 <= request.atr * AtrMultiplier(request)) =>
             raw * request.stop <= Raw(request).risk * Lot
    BY RawIsSound
  <2>3. request.stop \in Nat /\ Lot \in Nat
    BY RequestTypes
  <2>4. q * request.stop <= raw * request.stop /\ q * request.stop \in Nat /\ raw * request.stop \in Nat
    <3> HIDE DEF q, raw
    <3> QED
      BY <2>1, <2>2, <2>3, ProductsKeepOrder, ProductIsNatural
  <2>5. Raw(request).risk * Lot \in Nat
    BY <2>2, <2>3, ProductIsNatural
  <2>6. raw * request.stop <= Raw(request).risk * Lot => q * request.stop <= sized.risk * Lot
    <3> DEFINE a == q * request.stop
               b == raw * request.stop
    <3> HIDE DEF a, b
    <3>1. a \in Nat /\ b \in Nat /\ a <= b
      BY <2>4 DEF a, b
    <3>2. b <= Raw(request).risk * Lot => a <= Raw(request).risk * Lot
      BY <2>5, <3>1
    <3> QED
      BY <2>1, <3>2 DEF a, b
  <2> QED
    BY <2>1, <2>2, <2>6 DEF SizeIsSound, Notional, LossAtStop
<1> QED
  BY <1>1, <1>2, <1>3, PTL

(***************************************************************************)
(* The rate limiter: what was granted from a tick on and what a bucket     *)
(* holds now were in the bucket then or have been earned since.            *)
(***************************************************************************)
Grants(b) == [i \in 1..LookBack |-> recent[i][b]]
GrantedSince(b, i) == SumFunctionOnSet(Grants(b), i..LookBack)

PaidSince(b, i) ==
    Cost * GrantedSince(b, i) + Refilled(b) <= Capacity[b] + (LookBack - i) * Rate[b]

LimitInv ==
    /\ tokens \in [Buckets -> Nat] /\ age \in [Buckets -> Nat]
    /\ \A b \in Buckets : tokens[b] <= Capacity[b]
    /\ recent \in [1..LookBack -> [Buckets -> Nat]]
    /\ \A b \in Buckets, i \in 1..LookBack : PaidSince(b, i)

LEMMA RefilledType ==
    ASSUME tokens \in [Buckets -> Nat], age \in [Buckets -> Nat], NEW b \in Buckets
    PROVE  Refilled(b) \in Nat /\ Refilled(b) <= Capacity[b] /\ age[b] * Rate[b] \in Nat
<1>1. age[b] \in Nat /\ Rate[b] \in Nat /\ tokens[b] \in Nat /\ Capacity[b] \in Nat
  BY BucketsAssumption
<1>2. age[b] * Rate[b] \in Nat
  BY <1>1
<1> QED
  BY <1>1, <1>2 DEF Refilled

LEMMA GrantsType ==
    ASSUME recent \in [1..LookBack -> [Buckets -> Nat]], NEW b \in Buckets, NEW i \in 1..LookBack
    PROVE  /\ IsFiniteSet(i..LookBack) /\ Integral(Grants(b), i..LookBack)
           /\ GrantedSince(b, i) \in Nat
<1>1. IsFiniteSet(i..LookBack)
  BY BucketsAssumption, FS_Interval
<1>2. \A j \in i..LookBack : Grants(b)[j] \in Nat
  BY BucketsAssumption DEF Grants
<1>3. Integral(Grants(b), i..LookBack)
  BY <1>2 DEF Integral
<1>4. GrantedSince(b, i) \in Nat
  BY <1>1, <1>2, SumNatural DEF GrantedSince
<1> QED
  BY <1>1, <1>3, <1>4

LEMMA LimitInitial == LimitInit => LimitInv
<1> SUFFICES ASSUME LimitInit PROVE LimitInv
  OBVIOUS
<1>1. /\ tokens = Capacity /\ age = [b \in Buckets |-> 0]
      /\ recent = [i \in 1..LookBack |-> [b \in Buckets |-> 0]]
  BY DEF LimitInit, NoCalls
<1>2. tokens \in [Buckets -> Nat] /\ age \in [Buckets -> Nat] /\ recent \in [1..LookBack -> [Buckets -> Nat]]
  BY <1>1, BucketsAssumption
<1>3. ASSUME NEW b \in Buckets, NEW i \in 1..LookBack PROVE PaidSince(b, i)
  <2>1. \A j \in i..LookBack : Grants(b)[j] = 0
    BY <1>1, BucketsAssumption DEF Grants
  <2>2. GrantedSince(b, i) = 0
    BY <1>2, <2>1, GrantsType, SumZero DEF GrantedSince
  <2>3. LookBack - i \in Nat /\ Rate[b] \in Nat /\ Capacity[b] \in Nat /\ Cost \in Nat
    BY BucketsAssumption
  <2>4. (LookBack - i) * Rate[b] \in Nat /\ Cost * 0 = 0
    BY <2>3
  <2>5. Refilled(b) \in Nat /\ Refilled(b) <= Capacity[b]
    BY <1>2, RefilledType
  <2> QED
    BY <2>2, <2>3, <2>4, <2>5 DEF PaidSince
<1> QED
  BY <1>1, <1>2, <1>3, BucketsAssumption DEF LimitInv

(* A step that takes from the buckets what it grants, or takes and grants  *)
(* nothing.                                                                *)
LEMMA TakingIsPaid ==
    ASSUME LimitInv, NEW b \in Buckets, NEW n \in {0, 1},
           Refilled(b)' \in Nat, Cost * n + Refilled(b)' <= Refilled(b),
           recent' \in [1..LookBack -> [Buckets -> Nat]],
           recent'[LookBack][b] = recent[LookBack][b] + n,
           \A i \in 1..LookBack : i # LookBack => recent'[i][b] = recent[i][b]
    PROVE  \A i \in 1..LookBack : PaidSince(b, i)'
<1> TAKE i \in 1..LookBack
<1> DEFINE f == Grants(b)
           g == Grants(b)'
           S == i..LookBack
<1>1. recent \in [1..LookBack -> [Buckets -> Nat]] /\ PaidSince(b, i)
  BY DEF LimitInv
<1>2. IsFiniteSet(S) /\ Integral(f, S) /\ GrantedSince(b, i) \in Nat
  BY <1>1, GrantsType
<1>3. LookBack \in S /\ LookBack \in 1..LookBack
  BY BucketsAssumption
<1>4. \A j \in 1..LookBack : g[j] = recent'[j][b] /\ f[j] = recent[j][b]
  BY DEF Grants
<1>5. Integral(g, S)
  <2>1. \A j \in S : j \in 1..LookBack
    BY BucketsAssumption
  <2> QED
    BY <1>4, <2>1 DEF Integral
<1>6. g[LookBack] = f[LookBack] + n /\ \A j \in S \ {LookBack} : f[j] = g[j]
  <2>1. g[LookBack] = f[LookBack] + n
    BY <1>3, <1>4
  <2>2. \A j \in S : j \in 1..LookBack
    BY BucketsAssumption
  <2>3. \A j \in S \ {LookBack} : f[j] = g[j]
    BY <1>4, <2>2
  <2> QED
    BY <2>1, <2>3
<1>7. SumFunctionOnSet(g, S) = SumFunctionOnSet(f, S) - f[LookBack] + g[LookBack]
  <2> HIDE DEF f, g, S
  <2> QED
    BY <1>2, <1>3, <1>5, <1>6, SumAt
<1>8. f[LookBack] \in Int /\ GrantedSince(b, i)' = SumFunctionOnSet(g, S) /\ GrantedSince(b, i) = SumFunctionOnSet(f, S)
  BY <1>2, <1>3 DEF Integral, GrantedSince
<1>9. GrantedSince(b, i)' = GrantedSince(b, i) + n
  <2> HIDE DEF f, g, S
  <2> QED
    BY <1>2, <1>6, <1>7, <1>8
<1>10. Cost * (GrantedSince(b, i) + n) = Cost * GrantedSince(b, i) + Cost * n
  BY <1>2, BucketsAssumption
<1>11. /\ Cost * GrantedSince(b, i) \in Nat /\ Cost * n \in Nat /\ Capacity[b] \in Nat
       /\ (LookBack - i) * Rate[b] \in Nat /\ Refilled(b) \in Nat
  <2>1. LookBack - i \in Nat /\ Rate[b] \in Nat /\ Capacity[b] \in Nat /\ Cost \in Nat
    <3>1. LookBack \in Nat /\ Cost \in Nat /\ Capacity \in [Buckets -> Nat] /\ Rate \in [Buckets -> Nat]
      BY BucketsAssumption
    <3>2. LookBack - i \in Nat
      BY ONLY <3>1, i \in 1..LookBack
    <3> QED
      BY ONLY <3>1, <3>2, b \in Buckets
  <2>2. Refilled(b) \in Nat
    BY RefilledType DEF LimitInv
  <2>3. (LookBack - i) * Rate[b] \in Nat
    BY <2>1
  <2>4. Cost * GrantedSince(b, i) \in Nat /\ Cost * n \in Nat
    BY <1>2, <2>1
  <2> QED
    BY <2>1, <2>2, <2>3, <2>4
<1> DEFINE w == Cost * GrantedSince(b, i)
           earned == (LookBack - i) * Rate[b]
<1>12. w + Refilled(b) <= Capacity[b] + earned
  BY <1>1 DEF PaidSince
<1>13. w + Cost * n + Refilled(b)' <= Capacity[b] + earned
  <2> DEFINE c == Cost * n
             r == Refilled(b)'
  <2>1. c + r <= Refilled(b) /\ r \in Nat /\ c \in Nat
    BY <1>11
  <2> HIDE DEF w, earned, c, r
  <2>2. w + c + r <= Capacity[b] + earned
    BY <1>11, <1>12, <2>1 DEF w, earned
  <2> QED
    BY <2>2 DEF c, r
<1> QED
  BY <1>9, <1>10, <1>13 DEF PaidSince

(* What a refill leaves in a bucket whose clock is restarted, and in one   *)
(* that is left alone.                                                     *)
LEMMA BucketAfter ==
    ASSUME LimitInv, NEW b \in Buckets
    PROVE  /\ age'[b] = 0 /\ tokens'[b] \in Nat /\ tokens'[b] <= Capacity[b] => Refilled(b)' = tokens'[b]
           /\ age'[b] = age[b] /\ tokens'[b] = tokens[b] => Refilled(b)' = Refilled(b)
<1>1. Rate[b] \in Nat /\ Capacity[b] \in Nat
  BY BucketsAssumption
<1>2. 0 * Rate[b] = 0
  BY <1>1
<1> QED
  BY <1>1, <1>2 DEF Refilled

LEMMA BlockPays == ASSUME LimitInv, EmergencyBlocks PROVE LimitInv'
<1>types. /\ tokens \in [Buckets -> Nat] /\ age \in [Buckets -> Nat]
          /\ \A b \in Buckets : tokens[b] <= Capacity[b]
          /\ recent \in [1..LookBack -> [Buckets -> Nat]]
  BY DEF LimitInv
<1>1. /\ tokens' = [tokens EXCEPT !["requests"] = Refilled("requests")]
      /\ age' = [b \in Buckets |-> IF b \in {"requests"} THEN 0 ELSE age[b]]
      /\ recent' = recent
  BY DEF EmergencyBlocks, Touched, Restarted
<1>2. "requests" \in Buckets
  BY BucketsAssumption
<1>3. Refilled("requests") \in Nat /\ Refilled("requests") <= Capacity["requests"]
  BY <1>types, <1>2, RefilledType
<1>4. tokens' \in [Buckets -> Nat] /\ age' \in [Buckets -> Nat] /\ \A b \in Buckets : tokens'[b] <= Capacity[b]
  BY <1>types, <1>1, <1>2, <1>3
<1>5. ASSUME NEW b \in Buckets PROVE Refilled(b)' = Refilled(b)
  <2>1. CASE b = "requests"
    <3>1. age'[b] = 0 /\ tokens'[b] = Refilled(b)
      BY <1>types, <1>1, <1>2, <2>1
    <3> QED
      BY <1>3, <2>1, <3>1, BucketAfter
  <2>2. CASE b # "requests"
    <3>1. age'[b] = age[b] /\ tokens'[b] = tokens[b]
      BY <1>types, <1>1, <2>2
    <3> QED
      BY <3>1, BucketAfter
  <2> QED
    BY <2>1, <2>2
<1>6. ASSUME NEW b \in Buckets, NEW i \in 1..LookBack PROVE PaidSince(b, i)'
  <2>1. PaidSince(b, i)
    BY DEF LimitInv
  <2> QED
    BY <1>1, <1>5, <2>1 DEF PaidSince, GrantedSince, Grants
<1> QED
  BY <1>types, <1>1, <1>4, <1>6 DEF LimitInv

LEMMA ConsumePays == ASSUME LimitInv, Consume PROVE LimitInv'
<1>types. /\ tokens \in [Buckets -> Nat] /\ age \in [Buckets -> Nat]
          /\ \A b \in Buckets : tokens[b] <= Capacity[b]
          /\ recent \in [1..LookBack -> [Buckets -> Nat]]
  BY DEF LimitInv
<1> DEFINE needed == Needed(Head(line))
           able == {b \in needed : Refilled(b) >= Cost}
<1>1. /\ tokens' = [b \in Buckets |-> IF b \in able THEN Refilled(b) - Cost
                                      ELSE IF b \in needed THEN Refilled(b) ELSE tokens[b]]
      /\ age' = [b \in Buckets |-> IF b \in needed THEN 0 ELSE age[b]]
      /\ \/ /\ able = needed
            /\ recent' = [recent EXCEPT ![LookBack] =
                             [b \in Buckets |-> @[b] + (IF b \in needed THEN 1 ELSE 0)]]
         \/ able # needed /\ recent' = recent
  BY DEF Consume, Touched, Restarted
<1>2. \A b \in able : b \in needed /\ Refilled(b) >= Cost
  OBVIOUS
<1> HIDE DEF needed, able
<1>3. Cost \in Nat /\ LookBack \in 1..LookBack
  BY BucketsAssumption
<1>4. ASSUME NEW b \in Buckets PROVE Refilled(b) \in Nat /\ Refilled(b) <= Capacity[b] /\ Capacity[b] \in Nat
  BY <1>types, RefilledType, BucketsAssumption
<1>5. ASSUME NEW b \in Buckets
      PROVE  tokens'[b] \in Nat /\ tokens'[b] <= Capacity[b] /\ age'[b] \in Nat
  BY <1>types, <1>1, <1>2, <1>3, <1>4
<1>6. ASSUME NEW b \in Buckets
      PROVE  /\ Refilled(b)' \in Nat
             /\ Refilled(b)' <= Refilled(b)
             /\ b \in able => Cost + Refilled(b)' <= Refilled(b)
  <2>1. CASE b \in needed
    <3>1. Refilled(b)' = tokens'[b]
      BY <1>1, <1>5, <2>1, BucketAfter
    <3> QED
      BY <1>1, <1>2, <1>3, <1>4, <1>5, <2>1, <3>1
  <2>2. CASE b \notin needed
    <3>1. Refilled(b)' = Refilled(b) /\ b \notin able
      BY <1>1, <1>2, <2>2, BucketAfter
    <3> QED
      BY <1>4, <3>1
  <2> QED
    BY <2>1, <2>2
<1>7. tokens' \in [Buckets -> Nat] /\ age' \in [Buckets -> Nat]
  <2>1. tokens' \in [Buckets -> Nat]
    BY <1>1, <1>5
  <2>2. age' \in [Buckets -> Nat]
    BY <1>1, <1>5
  <2> QED
    BY <2>1, <2>2
<1>8. recent' \in [1..LookBack -> [Buckets -> Nat]]
  <2>1. \A b \in Buckets : recent[LookBack][b] + (IF b \in needed THEN 1 ELSE 0) \in Nat
    BY <1>types, <1>3
  <2> DEFINE row == [b \in Buckets |-> recent[LookBack][b] + (IF b \in needed THEN 1 ELSE 0)]
  <2>2. row \in [Buckets -> Nat]
    BY <2>1
  <2>3. recent' = [recent EXCEPT ![LookBack] = row] \/ recent' = recent
    BY <1>1
  <2> HIDE DEF row
  <2> QED
    BY <1>types, <1>3, <2>2, <2>3
<1>9. ASSUME NEW b \in Buckets PROVE \A i \in 1..LookBack : PaidSince(b, i)'
  <2> DEFINE n == IF able = needed /\ b \in needed THEN 1 ELSE 0
  <2>1. n \in {0, 1} /\ Cost * n = (IF n = 1 THEN Cost ELSE 0)
    BY <1>3
  <2>2. /\ recent'[LookBack][b] = recent[LookBack][b] + n
        /\ \A i \in 1..LookBack : i # LookBack => recent'[i][b] = recent[i][b]
    BY <1>types, <1>1, <1>3
  <2>3. n = 1 => b \in able
    OBVIOUS
  <2> HIDE DEF n
  <2>4. Cost * n + Refilled(b)' <= Refilled(b)
    BY <1>3, <1>4, <1>6, <2>1, <2>3
  <2> QED
    BY <1>6, <1>8, <2>1, <2>2, <2>4, TakingIsPaid
<1> QED
  BY <1>5, <1>7, <1>8, <1>9 DEF LimitInv

(* A tick moves the window on and earns what it makes room for.            *)
LEMMA TickPays == ASSUME LimitInv, LimitTick PROVE LimitInv'
<1>types. /\ tokens \in [Buckets -> Nat] /\ age \in [Buckets -> Nat]
          /\ \A b \in Buckets : tokens[b] <= Capacity[b]
          /\ recent \in [1..LookBack -> [Buckets -> Nat]]
  BY DEF LimitInv
<1>0. LookBack \in 1..LookBack /\ LookBack \in Nat /\ NoCalls \in [Buckets -> Nat]
  BY BucketsAssumption DEF NoCalls
<1>1. /\ age' = [b \in Buckets |-> IF Refilled(b) = Capacity[b] THEN age[b] ELSE age[b] + 1]
      /\ recent' = [i \in 1..LookBack |-> IF i < LookBack THEN recent[i + 1] ELSE NoCalls]
      /\ tokens' = tokens
  BY DEF LimitTick
<1>2. age' \in [Buckets -> Nat] /\ tokens' \in [Buckets -> Nat]
  BY <1>types, <1>1
<1>3. recent' \in [1..LookBack -> [Buckets -> Nat]]
  <2>1. \A i \in 1..LookBack : i < LookBack => i + 1 \in 1..LookBack
    BY <1>0
  <2> QED
    BY <1>types, <1>0, <1>1, <2>1
<1>4. ASSUME NEW b \in Buckets
      PROVE  Refilled(b)' \in Nat /\ Refilled(b)' <= Capacity[b] /\ Refilled(b)' <= Refilled(b) + Rate[b]
  <2>1. Rate[b] \in Nat /\ Capacity[b] \in Nat /\ age[b] \in Nat /\ tokens[b] \in Nat /\ age[b] * Rate[b] \in Nat
    BY <1>types, RefilledType, BucketsAssumption
  <2>2. (age[b] + 1) * Rate[b] = age[b] * Rate[b] + Rate[b]
    BY <2>1
  <2>3. Refilled(b)' \in Nat /\ Refilled(b)' <= Capacity[b]
    <3>1. age'[b] \in Nat /\ age'[b] * Rate[b] \in Nat
      BY <1>2, <2>1
    <3> QED
      BY <1>1, <2>1, <3>1 DEF Refilled
  <2>4. CASE Refilled(b) = Capacity[b]
    BY <2>1, <2>3, <2>4
  <2>5. CASE Refilled(b) # Capacity[b]
    <3>1. age'[b] = age[b] + 1
      BY <1>1, <2>5
    <3>2. Refilled(b) = tokens[b] + age[b] * Rate[b]
      BY <2>5 DEF Refilled
    <3>3. Refilled(b)' <= tokens[b] + age'[b] * Rate[b]
      <4>1. age'[b] * Rate[b] \in Nat
        BY <1>2, <2>1
      <4> QED
        BY <1>1, <2>1, <4>1 DEF Refilled
    <3>4. age'[b] * Rate[b] = age[b] * Rate[b] + Rate[b]
      BY <2>2, <3>1
    <3> DEFINE earned == age[b] * Rate[b]
    <3>5. earned \in Nat
      BY <2>1
    <3>6. Refilled(b)' <= tokens[b] + (earned + Rate[b]) /\ Refilled(b) = tokens[b] + earned
      BY <3>2, <3>3, <3>4
    <3> HIDE DEF earned
    <3> QED
      BY <2>1, <2>3, <3>5, <3>6
  <2> QED
    BY <2>3, <2>4, <2>5
<1>5. ASSUME NEW b \in Buckets, NEW i \in 1..LookBack PROVE PaidSince(b, i)'
  <2> DEFINE f == Grants(b)
             g == Grants(b)'
  <2>1. \A j \in 1..LookBack : /\ g[j] = recent'[j][b] /\ g[j] \in Nat
                               /\ f[j] = recent[j][b] /\ f[j] \in Nat
    BY <1>types, <1>3 DEF Grants
  <2>2. g[LookBack] = 0 /\ \A j \in 1..(LookBack - 1) : g[j] = f[j + 1]
    BY <1>0, <1>1, <2>1 DEF NoCalls
  <2>3. SumFunctionOnSet(g, i..LookBack) = SumFunctionOnSet(g, i..(LookBack - 1)) + 0
    <3>1. \A j \in i..LookBack : g[j] \in Int
      BY <2>1
    <3> HIDE DEF g
    <3>2. SumFunctionOnSet(g, i..LookBack) = SumFunctionOnSet(g, i..(LookBack - 1)) + g[LookBack]
      BY <1>0, <3>1, SumOfInterval
    <3> QED
      BY <2>2, <3>2
  <2>4. SumFunctionOnSet(f, (i + 1)..LookBack) = SumFunctionOnSet(g, i..(LookBack - 1))
    <3> DEFINE c == LookBack - 1
    <3>0. \A j \in i..c : j \in 1..LookBack /\ j \in 1..(LookBack - 1)
      BY <1>0
    <3>1. \A j \in i..c : g[j] \in Int /\ f[j + 1] = g[j]
      <4> HIDE DEF f, g, c
      <4> QED
        BY <2>1, <2>2, <3>0
    <3>2. c \in Int /\ c + 1 = LookBack
      BY <1>0
    <3> HIDE DEF f, g, c
    <3>3. SumFunctionOnSet(f, (i + 1)..(c + 1)) = SumFunctionOnSet(g, i..c)
      BY <3>1, <3>2, SumShifts
    <3> QED
      BY <3>2, <3>3 DEF c
  <2>5. GrantedSince(b, i)' = SumFunctionOnSet(g, i..LookBack)
    BY DEF GrantedSince
  <2>6. Rate[b] \in Nat /\ Capacity[b] \in Nat /\ Cost \in Nat /\ LookBack - i \in Nat
    BY <1>0, BucketsAssumption
  <2>7. CASE i = LookBack
    <3>1. i..(LookBack - 1) = {}
      BY <1>0, <2>7
    <3>2. SumFunctionOnSet(g, i..(LookBack - 1)) = 0
      BY <3>1, SumEmpty
    <3>3. GrantedSince(b, i)' = 0
      BY <2>3, <2>5, <3>2
    <3>4. Cost * 0 = 0 /\ (LookBack - i) * Rate[b] = 0
      BY <2>6, <2>7
    <3> QED
      BY <1>4, <2>6, <3>3, <3>4 DEF PaidSince
  <2>8. CASE i # LookBack
    <3>1. i + 1 \in 1..LookBack
      BY <1>0, <2>8
    <3>2. PaidSince(b, i + 1) /\ GrantedSince(b, i + 1) \in Nat
      BY <1>types, <3>1, GrantsType DEF LimitInv
    <3>3. GrantedSince(b, i + 1) = SumFunctionOnSet(f, (i + 1)..LookBack)
      BY DEF GrantedSince
    <3>4. GrantedSince(b, i)' = GrantedSince(b, i + 1)
      <4> DEFINE x == SumFunctionOnSet(g, i..(LookBack - 1))
      <4>1. x \in Nat /\ GrantedSince(b, i)' = x + 0 /\ x = GrantedSince(b, i + 1)
        BY <2>3, <2>4, <2>5, <3>2, <3>3
      <4> HIDE DEF x
      <4> QED
        BY <4>1
    <3> DEFINE w == Cost * GrantedSince(b, i + 1)
               less == (LookBack - (i + 1)) * Rate[b]
    <3>5. w \in Nat /\ less \in Nat /\ (LookBack - i) * Rate[b] = less + Rate[b]
      <4>1. w \in Nat
        BY <2>6, <3>2
      <4>2. LookBack - (i + 1) \in Nat /\ LookBack - i = (LookBack - (i + 1)) + 1
        BY <1>0, <3>1
      <4> DEFINE d == LookBack - (i + 1)
      <4>3. d \in Nat /\ LookBack - i = d + 1
        BY <4>2
      <4> HIDE DEF d
      <4>4. (d + 1) * Rate[b] = d * Rate[b] + Rate[b] /\ d * Rate[b] \in Nat
        BY <2>6, <4>3
      <4> QED
        BY <4>1, <4>3, <4>4 DEF d
    <3>6. w + Refilled(b) <= Capacity[b] + less
      BY <3>2 DEF PaidSince
    <3>7. Refilled(b) \in Nat
      BY <1>types, RefilledType
    <3> HIDE DEF w, less
    <3>8. w + Refilled(b)' <= Capacity[b] + (less + Rate[b])
      BY <1>4, <2>6, <3>5, <3>6, <3>7
    <3> QED
      BY <3>4, <3>5, <3>8 DEF PaidSince, w
  <2> QED
    BY <2>7, <2>8
<1> QED
  BY <1>types, <1>1, <1>2, <1>3, <1>5 DEF LimitInv

LEMMA LimitStep == ASSUME LimitInv, [LimitNext]_limitVars PROVE LimitInv'
<1>1. ASSUME UNCHANGED <<tokens, age, recent>> PROVE LimitInv'
  BY <1>1 DEF LimitInv, PaidSince, GrantedSince, Grants, Refilled
<1>2. ASSUME NEW call \in Calls, CallsAcquire(call) PROVE LimitInv'
  BY <1>1, <1>2 DEF CallsAcquire
<1> QED
  BY <1>1, <1>2, BlockPays, ConsumePays, TickPays DEF LimitNext, limitVars

\* Whatever the callers ask for, the calls granted in any window are paid for
\* by one full bucket and what the window has earned: neither the attempts
\* that fail nor the sleepers nor the three buckets of an order create a token.
THEOREM GrantsArePaidFor == LimitInit /\ [][LimitNext]_limitVars => []CallsArePaidFor
<1>1. LimitInv => CallsArePaidFor
  <2> SUFFICES ASSUME LimitInv, NEW b \in Buckets
               PROVE  Cost * Granted(b) <= Capacity[b] + (LookBack - 1) * Rate[b]
    BY DEF CallsArePaidFor
  <2>1. 1 \in 1..LookBack
    BY BucketsAssumption
  <2>2. PaidSince(b, 1) /\ GrantedSince(b, 1) \in Nat /\ Refilled(b) \in Nat
    BY <2>1, GrantsType, RefilledType DEF LimitInv
  <2>3. Granted(b) = GrantedSince(b, 1)
    BY DEF Granted, GrantedSince, Grants
  <2>4. Capacity[b] \in Nat /\ Cost \in Nat /\ Rate[b] \in Nat /\ LookBack - 1 \in Nat
    BY BucketsAssumption
  <2>5. Cost * GrantedSince(b, 1) \in Nat /\ (LookBack - 1) * Rate[b] \in Nat
    BY <2>2, <2>4
  <2> DEFINE w == Cost * GrantedSince(b, 1)
             earned == (LookBack - 1) * Rate[b]
  <2>6. w + Refilled(b) <= Capacity[b] + earned /\ w \in Nat /\ earned \in Nat
    BY <2>2, <2>5 DEF PaidSince
  <2> HIDE DEF w, earned
  <2>7. w <= Capacity[b] + earned
    BY <2>2, <2>4, <2>6
  <2> QED
    BY <2>3, <2>7 DEF w, earned
<1> QED
  BY <1>1, LimitInitial, LimitStep, PTL

(***************************************************************************)
(* The event bus: what a stream has sent and what its queue holds.         *)
(***************************************************************************)
Elements(q) == {q[i] : i \in DOMAIN q}

Accounted(s) ==
    /\ Increasing(got[s] \o subscribers[s])
    /\ Elements(got[s] \o subscribers[s]) = (since[s] + 1)..published \ refused[s]

BusTypes ==
    /\ stage \in [Streams -> {"none", "answered", "reading", "waiting", "ended", "lost"}]
    /\ published \in Nat
    /\ since \in [Streams -> Nat]
    /\ got \in [Streams -> Seq(Int)]
    /\ refused \in [Streams -> SUBSET Int]
    /\ DOMAIN subscribers \subseteq Streams
    /\ subscribers \in [DOMAIN subscribers -> Seq(Int)]

BusInv ==
    /\ BusTypes
    /\ \A s \in Streams :
         /\ since[s] <= published /\ \A n \in refused[s] : n <= published
         /\ stage[s] = "none" => got[s] = <<>> /\ s \notin DOMAIN subscribers
         /\ stage[s] \in {"answered", "reading", "waiting"} => s \in DOMAIN subscribers
         /\ stage[s] = "ended" => s \notin DOMAIN subscribers
         /\ s \in DOMAIN subscribers => Accounted(s)

LEMMA SendKeepsEvents ==
    ASSUME NEW g \in Seq(Int), NEW q \in Seq(Int), q # <<>>
    PROVE  Append(g, Head(q)) \o Tail(q) = g \o q
  OBVIOUS

LEMMA PublishAppends ==
    ASSUME NEW g \in Seq(Int), NEW q \in Seq(Int), NEW n \in Int
    PROVE  g \o Append(q, n) = Append(g \o q, n)
  OBVIOUS

LEMMA AppendKeepsOrder ==
    ASSUME NEW e \in Seq(Int), NEW n \in Int, Increasing(e), \A i \in DOMAIN e : e[i] < n
    PROVE  Increasing(Append(e, n)) /\ Elements(Append(e, n)) = Elements(e) \cup {n}
<1> DEFINE t == Append(e, n)
<1>1. /\ t \in Seq(Int) /\ Len(t) = Len(e) + 1 /\ t[Len(e) + 1] = n
      /\ \A i \in 1..Len(e) : t[i] = e[i]
  OBVIOUS
<1>2. DOMAIN t = 1..(Len(e) + 1) /\ DOMAIN e = 1..Len(e) /\ Len(e) \in Nat
  BY <1>1
<1> HIDE DEF t
<1>3. Increasing(t)
  <2> SUFFICES ASSUME NEW i \in DOMAIN t, NEW j \in DOMAIN t, i < j PROVE t[i] < t[j]
    BY DEF Increasing
  <2>1. i \in 1..Len(e)
    BY <1>2
  <2>2. CASE j \in 1..Len(e)
    BY <1>1, <1>2, <2>1, <2>2 DEF Increasing
  <2>3. CASE j = Len(e) + 1
    BY <1>1, <1>2, <2>1, <2>3
  <2> QED
    BY <1>2, <2>2, <2>3
<1>4. Elements(t) = Elements(e) \cup {n}
  <2>1. ASSUME NEW x \in Elements(t) PROVE x \in Elements(e) \cup {n}
    <3>1. PICK i \in DOMAIN t : x = t[i]
      BY DEF Elements
    <3>2. CASE i \in 1..Len(e)
      BY <1>1, <1>2, <3>1, <3>2 DEF Elements
    <3>3. CASE i = Len(e) + 1
      BY <1>1, <3>1, <3>3
    <3> QED
      BY <1>2, <3>2, <3>3
  <2>2. ASSUME NEW x \in Elements(e) PROVE x \in Elements(t)
    <3>1. PICK i \in DOMAIN e : x = e[i]
      BY DEF Elements
    <3>2. i \in DOMAIN t /\ x = t[i]
      BY <1>1, <1>2, <3>1
    <3> QED
      BY <3>2 DEF Elements
  <2>3. n \in Elements(t)
    <3>1. Len(e) + 1 \in DOMAIN t
      BY <1>2
    <3> QED
      BY <1>1, <3>1 DEF Elements
  <2> QED
    BY <2>1, <2>2, <2>3
<1> QED
  BY <1>3, <1>4 DEF t

LEMMA BusInitial == BusInit => BusInv
  BY DEF BusInit, BusInv, BusTypes

LEMMA BusStep == ASSUME BusInv, [BusNext]_busVars PROVE BusInv'
<1>types. /\ stage \in [Streams -> {"none", "answered", "reading", "waiting", "ended", "lost"}]
          /\ published \in Nat /\ since \in [Streams -> Nat] /\ got \in [Streams -> Seq(Int)]
          /\ refused \in [Streams -> SUBSET Int] /\ DOMAIN subscribers \subseteq Streams
          /\ subscribers \in [DOMAIN subscribers -> Seq(Int)]
  BY DEF BusInv, BusTypes
<1>old. ASSUME NEW s \in Streams
        PROVE  /\ since[s] <= published /\ \A n \in refused[s] : n <= published
               /\ stage[s] = "none" => got[s] = <<>> /\ s \notin DOMAIN subscribers
               /\ stage[s] \in {"answered", "reading", "waiting"} => s \in DOMAIN subscribers
               /\ stage[s] = "ended" => s \notin DOMAIN subscribers
               /\ s \in DOMAIN subscribers => Accounted(s)
  BY DEF BusInv
<1>1. ASSUME NEW s \in Streams, Subscribe(s) PROVE BusInv'
  <2>1. /\ DOMAIN subscribers' = DOMAIN subscribers \cup {s} /\ subscribers'[s] = <<>>
        /\ \A t \in DOMAIN subscribers : t # s => subscribers'[t] = subscribers[t]
    BY <1>1 DEF Subscribe
  <2>s. subscribers' \in [DOMAIN subscribers' -> Seq(Int)]
    BY <1>1, <1>types DEF Subscribe
  <2>2. /\ stage' = [stage EXCEPT ![s] = "answered"] /\ since' = [since EXCEPT ![s] = published]
        /\ UNCHANGED <<gone, published, got, refused>> /\ stage[s] = "none"
    BY <1>1 DEF Subscribe
  <2>3. got[s] = <<>>
    BY <1>old, <2>2
  <2>4. Accounted(s)'
    <3>1. got'[s] \o subscribers'[s] = <<>> /\ since'[s] = published /\ published' = published
      BY <1>types, <2>1, <2>2, <2>3
    <3>2. DOMAIN <<>> = {}
      OBVIOUS
    <3> QED
      BY <1>types, <3>1, <3>2 DEF Accounted, Increasing, Elements
  <2>5. BusTypes'
    BY <1>types, <2>1, <2>s, <2>2 DEF BusTypes
  <2>6. ASSUME NEW t \in Streams, t # s, t \in DOMAIN subscribers' PROVE Accounted(t)'
    BY <1>types, <1>old, <2>1, <2>2, <2>6 DEF Accounted
  <2> QED
    BY <1>types, <1>old, <2>1, <2>2, <2>4, <2>5, <2>6 DEF BusInv
<1>2. ASSUME NEW s \in Streams, StreamEnds(s) PROVE BusInv'
  <2>1. /\ DOMAIN subscribers' = DOMAIN subscribers \ {s}
        /\ \A t \in DOMAIN subscribers' : subscribers'[t] = subscribers[t]
        /\ stage' = [stage EXCEPT ![s] = "ended"] /\ stage[s] # "none"
        /\ UNCHANGED <<gone, published, since, got, refused>>
    BY <1>2 DEF StreamEnds, Without
  <2>2. BusTypes'
    BY <1>2, <1>types, <2>1 DEF BusTypes, StreamEnds, Without
  <2>3. \A t \in DOMAIN subscribers' : Accounted(t)'
    BY <1>types, <1>old, <2>1 DEF Accounted
  <2> QED
    BY <1>types, <1>old, <2>1, <2>2, <2>3 DEF BusInv
<1>3. ASSUME NEW s \in Streams, EventArrives(s) PROVE BusInv'
  <2>1. /\ subscribers[s] # <<>> /\ s \in DOMAIN subscribers
        /\ got' = [got EXCEPT ![s] = Append(@, Head(subscribers[s]))]
        /\ subscribers' = [subscribers EXCEPT ![s] = Tail(@)]
        /\ stage' = [stage EXCEPT ![s] = "reading"] /\ stage[s] = "waiting"
        /\ UNCHANGED <<gone, published, since, refused>>
    BY <1>3, <1>old DEF EventArrives
  <2>2. got[s] \in Seq(Int) /\ subscribers[s] \in Seq(Int)
    BY <1>types, <2>1
  <2>3. Head(subscribers[s]) \in Int /\ Tail(subscribers[s]) \in Seq(Int)
    BY <2>1, <2>2
  <2>4. BusTypes'
    BY <1>types, <2>1, <2>2, <2>3 DEF BusTypes
  <2>5. got'[s] = Append(got[s], Head(subscribers[s])) /\ subscribers'[s] = Tail(subscribers[s])
    BY <1>types, <2>1
  <2>6. got'[s] \o subscribers'[s] = got[s] \o subscribers[s]
    BY <2>1, <2>2, <2>5, SendKeepsEvents
  <2>7. Accounted(s)'
    BY <1>old, <2>1, <2>6 DEF Accounted
  <2>8. \A t \in DOMAIN subscribers' : t # s => Accounted(t)'
    BY <1>types, <1>old, <2>1 DEF Accounted
  <2> QED
    BY <1>types, <1>old, <2>1, <2>4, <2>7, <2>8 DEF BusInv
<1>4. ASSUME NEW s \in Streams,
             \/ StreamBegins(s) \/ StreamNeverBegins(s) \/ ClientLeaves(s) \/ GetEvent(s) \/ KeepAlive(s)
      PROVE  BusInv'
  <2>1. UNCHANGED <<subscribers, published, since, got, refused>>
    BY <1>4 DEF StreamBegins, StreamNeverBegins, ClientLeaves, GetEvent, KeepAlive
  <2>2. \/ UNCHANGED stage
        \/ /\ stage[s] \in {"answered", "reading", "waiting"}
           /\ \E n \in {"reading", "waiting", "lost"} : stage' = [stage EXCEPT ![s] = n]
    BY <1>4 DEF StreamBegins, StreamNeverBegins, ClientLeaves, GetEvent, KeepAlive
  <2>3. \A t \in Streams : Accounted(t)' <=> Accounted(t)
    BY <2>1 DEF Accounted
  <2> QED
    BY <1>types, <1>old, <2>1, <2>2, <2>3 DEF BusInv, BusTypes
<1>5. CASE Publish
  <2>1. /\ published' = published + 1
        /\ DOMAIN subscribers' = DOMAIN subscribers
        /\ \A s \in DOMAIN subscribers : subscribers'[s] = Offered(subscribers[s], published + 1)
        /\ refused' = [s \in Streams |->
                    IF s \in DOMAIN subscribers /\ Len(subscribers[s]) = QueueSize
                    THEN refused[s] \cup {published + 1} ELSE refused[s]]
        /\ UNCHANGED <<stage, gone, since, got>>
    BY <1>5 DEF Publish
  <2>2. ASSUME NEW s \in DOMAIN subscribers PROVE subscribers'[s] \in Seq(Int)
    <3>1. subscribers[s] \in Seq(Int) /\ published + 1 \in Int
      BY <1>types
    <3>2. Append(subscribers[s], published + 1) \in Seq(Int)
      BY <3>1
    <3> QED
      BY <2>1, <3>1, <3>2 DEF Offered
  <2>3. subscribers' \in [DOMAIN subscribers' -> Seq(Int)]
    BY <1>5, <2>1, <2>2 DEF Publish
  <2>4. BusTypes'
    BY <1>types, <2>1, <2>3 DEF BusTypes
  <2>5. ASSUME NEW s \in DOMAIN subscribers PROVE Accounted(s)'
    <3> DEFINE e == got[s] \o subscribers[s]
               n == published + 1
    <3>1. /\ s \in Streams /\ got[s] \in Seq(Int) /\ subscribers[s] \in Seq(Int) /\ n \in Int /\ e \in Seq(Int)
          /\ since[s] \in Nat /\ since[s] <= published
      BY <1>types, <1>old
    <3>2. Increasing(e) /\ Elements(e) = (since[s] + 1)..published \ refused[s]
      BY <1>old, <3>1 DEF Accounted
    <3>3. published \notin refused[s] \/ published # n
      BY <1>types
    <3>n. n \notin refused[s]
      BY <1>types, <1>old, <3>1
    <3>4. CASE Len(subscribers[s]) = QueueSize
      <4>1. got'[s] \o subscribers'[s] = e /\ refused'[s] = refused[s] \cup {n}
        BY <2>1, <3>1, <3>4 DEF Offered
      <4>2. (since[s] + 1)..n \ (refused[s] \cup {n}) = (since[s] + 1)..published \ refused[s]
        BY <1>types, <3>1
      <4> QED
        BY <2>1, <3>2, <4>1, <4>2 DEF Accounted
    <3>5. CASE Len(subscribers[s]) # QueueSize
      <4>0. subscribers'[s] = Append(subscribers[s], n)
        BY <2>1, <3>5 DEF Offered
      <4>1. got'[s] \o subscribers'[s] = Append(e, n) /\ refused'[s] = refused[s]
        <5>1. got[s] \o Append(subscribers[s], n) = Append(e, n)
          BY <3>1, PublishAppends
        <5> QED
          BY <2>1, <3>1, <3>5, <4>0, <5>1
      <4>2. \A i \in DOMAIN e : e[i] < n
        <5>1. \A i \in DOMAIN e : e[i] \in (since[s] + 1)..published
          BY <3>2 DEF Elements
        <5> QED
          BY <1>types, <3>1, <5>1
      <4> HIDE DEF e, n
      <4>3. Increasing(Append(e, n)) /\ Elements(Append(e, n)) = Elements(e) \cup {n}
        BY <3>1, <3>2, <4>2, AppendKeepsOrder
      <4>4. (since[s] + 1)..n \ refused[s] = ((since[s] + 1)..published \ refused[s]) \cup {n}
        BY <1>types, <3>1, <3>n DEF n
      <4>5. published' = n /\ since' = since
        BY <2>1 DEF n
      <4> QED
        BY <3>2, <4>1, <4>3, <4>4, <4>5 DEF Accounted
    <3> QED
      BY <3>4, <3>5
  <2>6. \A s \in Streams : since'[s] <= published' /\ \A n \in refused'[s] : n <= published'
    BY <1>types, <1>old, <2>1
  <2> QED
    BY <1>types, <1>old, <2>1, <2>4, <2>5, <2>6 DEF BusInv
<1>6. CASE UNCHANGED busVars
  BY <1>types, <1>old, <1>6 DEF busVars, BusInv, BusTypes, Accounted
<1> QED
  BY <1>1, <1>2, <1>3, <1>4, <1>5, <1>6 DEF BusNext

\* Every event published while a stream is subscribed has been sent to its
\* client, waits in its queue or found the queue full, in order and once; a
\* stream that has begun keeps its subscription until it ends.
THEOREM NoEventIsLost == BusInit /\ [][BusNext]_busVars => []EventsAreAccountedFor
<1>1. BusInv => EventsAreAccountedFor
  BY DEF BusInv, Accounted, Elements, EventsAreAccountedFor
<1> QED
  BY <1>1, BusInitial, BusStep, PTL

(***************************************************************************)
(* Alerting: the limiter's memory holds every alert of the last hour.      *)
(***************************************************************************)
Counted == {a \in pastLog : LevelOf(a.event) # "critical"}
Window(a) == {b \in Counted : LevelOf(b.event) = LevelOf(a.event) /\ b.at \in (a.at - Hour)..a.at}
Alerts == [event : Events, at : Nat]

FloodInv ==
    /\ clock \in Nat
    /\ titles \in [Kinds -> Int]
    /\ times \in [Levels -> SUBSET Alerts]
    /\ pastLog \subseteq Alerts /\ IsFiniteSet(pastLog)
    /\ \A l \in Levels : IsFiniteSet(times[l])
    /\ \A a \in pastLog : a.at <= clock
    /\ \A a \in Counted :
         /\ clock - a.at <= Hour => a \in times[LevelOf(a.event)]
         /\ a.at <= titles[a.event.kind]
         /\ Cardinality(Window(a)) <= LevelMax
    /\ \A a, b \in Counted :
         a # b /\ a.event.kind = b.event.kind => a.at - b.at >= TitleCooldown \/ b.at - a.at >= TitleCooldown

LEMMA LevelType == ASSUME NEW e \in Events PROVE LevelOf(e) \in Levels
<1>1. e.kind \in Kinds
  BY AlertsAssumption
<1>2. \A k \in DOMAIN TradingTriggers : TradingTriggers[k] \in Levels
  BY DEF TradingTriggers, Levels
<1>3. \A k \in DOMAIN SystemTriggers : SystemTriggers[k] \in Levels
  BY DEF SystemTriggers, Levels
<1>4. \A k \in DOMAIN FaultTriggers : FaultTriggers[k] \in Levels
  BY DEF FaultTriggers, Levels
<1> QED
  BY <1>1, <1>2, <1>3, <1>4 DEF LevelOf, Kinds

LEMMA FloodInitial == AlertInit => FloodInv
<1> SUFFICES ASSUME AlertInit PROVE FloodInv
  OBVIOUS
<1>1. Counted = {} /\ pastLog = {} /\ IsFiniteSet({})
  BY FS_EmptySet DEF AlertInit, Counted
<1>2. titles \in [Kinds -> Int]
  BY DEF AlertInit
<1>3. clock = 0 /\ times = [l \in Levels |-> {}]
  BY DEF AlertInit
<1> QED
  BY <1>1, <1>2, <1>3 DEF FloodInv

LEMMA FloodSend == ASSUME FloodInv, NEW e \in Events, SendAlert(e) PROVE FloodInv'
<1>types. /\ clock \in Nat /\ titles \in [Kinds -> Int] /\ times \in [Levels -> SUBSET Alerts]
          /\ pastLog \subseteq Alerts /\ IsFiniteSet(pastLog)
          /\ \A l \in Levels : IsFiniteSet(times[l])
          /\ \A a \in pastLog : a.at <= clock
  BY DEF FloodInv
<1>old. ASSUME NEW a \in Counted
        PROVE  /\ a \in pastLog /\ a.at \in Nat /\ a.at <= clock /\ a.event \in Events
               /\ clock - a.at <= Hour => a \in times[LevelOf(a.event)]
               /\ a.at <= titles[a.event.kind]
               /\ Cardinality(Window(a)) <= LevelMax
  BY DEF FloodInv, Counted, Alerts
<1> DEFINE n == Alert(e)
           level == LevelOf(e)
<1>1. /\ level # "critical" /\ ~InCooldown(e.kind) /\ Cardinality(Recent(level)) < LevelMax
      /\ titles' = [titles EXCEPT ![e.kind] = clock]
      /\ times' = [times EXCEPT ![level] = Recent(level) \cup {n}]
      /\ pastLog' = pastLog \cup {n} /\ clock' = clock
  BY DEF SendAlert, Begin
<1>2. level \in Levels /\ e.kind \in Kinds /\ n.event = e /\ n.at = clock /\ n \in Alerts
  BY <1>types, LevelType, AlertsAssumption DEF Alert, Alerts
<1>3. Counted' = Counted \cup {n}
  BY <1>1, <1>2 DEF Counted
<1> HIDE DEF n, level
<1>4. IsFiniteSet(pastLog') /\ pastLog' \subseteq Alerts /\ \A a \in pastLog' : a.at <= clock'
  BY <1>types, <1>1, <1>2, FS_AddElement
<1>5. /\ IsFiniteSet(Recent(level)) /\ IsFiniteSet(times'[level])
      /\ Cardinality(times'[level]) <= LevelMax
  <2>1. IsFiniteSet(Recent(level))
    BY <1>types, <1>2, FS_Subset DEF Recent
  <2> DEFINE U == Recent(level) \cup {n}
  <2>2. /\ IsFiniteSet(U) /\ Cardinality(Recent(level)) \in Nat
        /\ Cardinality(U) = Cardinality(Recent(level)) \/ Cardinality(U) = Cardinality(Recent(level)) + 1
    BY <2>1, FS_AddElement, FS_CardinalityType
  <2>3. times'[level] = U
    BY <1>types, <1>1, <1>2
  <2>4. LevelMax \in Nat
    BY AlertsAssumption
  <2> HIDE DEF U
  <2> QED
    BY <1>1, <2>1, <2>2, <2>3, <2>4
<1>6. times' \in [Levels -> SUBSET Alerts] /\ \A l \in Levels : IsFiniteSet(times'[l])
  <2> DEFINE U == Recent(level) \cup {n}
  <2>1. U \in SUBSET Alerts /\ times' = [times EXCEPT ![level] = U]
    BY <1>types, <1>1, <1>2 DEF Recent
  <2> HIDE DEF U
  <2>2. times' \in [Levels -> SUBSET Alerts]
    BY <1>types, <1>2, <2>1
  <2>3. \A l \in Levels : l # level => times'[l] = times[l]
    BY <1>types, <1>2, <2>1
  <2> QED
    BY <1>types, <1>5, <2>2, <2>3
<1>7. titles' \in [Kinds -> Int] /\ titles'[e.kind] = clock
      /\ \A k \in Kinds : k # e.kind => titles'[k] = titles[k]
  BY <1>types, <1>1, <1>2
<1>8. ASSUME NEW a \in Counted', clock - a.at <= Hour PROVE a \in times'[LevelOf(a.event)]
  <2>1. CASE a = n
    <3>1. n \in times'[level] /\ LevelOf(a.event) = level
      BY <1>types, <1>1, <1>2, <2>1 DEF level
    <3> QED
      BY <2>1, <3>1
  <2>2. CASE a \in Counted
    <3>1. a \in times[LevelOf(a.event)] /\ LevelOf(a.event) \in Levels
      BY <1>8, <1>old, <2>2, LevelType
    <3>2. CASE LevelOf(a.event) = level
      <4>1. a \in Recent(level)
        BY <1>8, <3>1, <3>2 DEF Recent
      <4> QED
        BY <1>types, <1>1, <1>2, <3>2, <4>1
    <3>3. CASE LevelOf(a.event) # level
      BY <1>types, <1>1, <3>1, <3>3
    <3> QED
      BY <3>2, <3>3
  <2> QED
    BY <1>3, <2>1, <2>2
<1>9. ASSUME NEW a \in Counted' PROVE a.at <= titles'[a.event.kind]
  <2>1. CASE a = n
    BY <1>types, <1>2, <1>7, <2>1
  <2>2. CASE a \in Counted
    <3>1. a.event.kind \in Kinds
      BY <1>old, <2>2, AlertsAssumption
    <3> QED
      BY <1>types, <1>old, <1>7, <2>2, <3>1
  <2> QED
    BY <1>3, <2>1, <2>2
<1>10. ASSUME NEW a \in Counted' PROVE Cardinality(Window(a)') <= LevelMax
  <2>0. Window(a)' = {b \in Counted' : LevelOf(b.event) = LevelOf(a.event) /\ b.at \in (a.at - Hour)..a.at}
    BY DEF Window
  <2>a. a.at \in Nat /\ a.at <= clock
    BY <1>types, <1>2, <1>3, <1>old
  <2>1. CASE LevelOf(a.event) = level /\ a.at = clock
    <3>1. Window(a)' \subseteq times'[level]
      <4>1. ASSUME NEW b \in Counted', LevelOf(b.event) = level, b.at \in (clock - Hour)..clock
            PROVE  b \in times'[level]
        <5>1. Hour \in Nat /\ b.at \in Int /\ clock - b.at <= Hour
          BY <1>types, <4>1, AlertsAssumption
        <5> QED
          BY <1>8, <4>1, <5>1
      <4> QED
        BY <2>0, <2>1, <4>1
    <3>2. /\ IsFiniteSet(Window(a)') /\ Cardinality(Window(a)') <= Cardinality(times'[level])
          /\ Cardinality(Window(a)') \in Nat /\ Cardinality(times'[level]) \in Nat
      BY <1>5, <3>1, FS_Subset, FS_CardinalityType
    <3>3. LevelMax \in Nat
      BY AlertsAssumption
    <3> QED
      BY <1>5, <3>2, <3>3
  <2>2. CASE ~(LevelOf(a.event) = level /\ a.at = clock)
    <3>1. a \in Counted
      BY <1>2, <1>3, <2>2 DEF level
    <3>2. ~(LevelOf(n.event) = LevelOf(a.event) /\ n.at \in (a.at - Hour)..a.at)
      BY <1>types, <1>2, <2>2, <2>a DEF level
    <3>3. Window(a)' = Window(a)
      BY <1>3, <2>0, <3>2 DEF Window
    <3> QED
      BY <1>old, <3>1, <3>3
  <2> QED
    BY <2>1, <2>2
<1>11. ASSUME NEW a \in Counted, a.event.kind = e.kind PROVE clock - a.at >= TitleCooldown
  <2>1. a.at <= titles[e.kind] /\ a.at \in Nat /\ titles[e.kind] \in Int
    BY <1>types, <1>old, <1>2, <1>11
  <2>2. clock - titles[e.kind] >= TitleCooldown /\ TitleCooldown \in Nat
    BY <1>types, <1>1, <2>1, AlertsAssumption DEF InCooldown
  <2> QED
    BY <1>types, <2>1, <2>2
<1>12. ASSUME NEW a \in Counted', NEW b \in Counted', a # b, a.event.kind = b.event.kind
       PROVE  a.at - b.at >= TitleCooldown \/ b.at - a.at >= TitleCooldown
  <2>1. CASE a \in Counted /\ b \in Counted
    BY <1>12, <2>1 DEF FloodInv
  <2>2. CASE a = n /\ b \in Counted
    BY <1>2, <1>11, <1>12, <2>2
  <2>3. CASE b = n /\ a \in Counted
    BY <1>2, <1>11, <1>12, <2>3
  <2> QED
    BY <1>3, <1>12, <2>1, <2>2, <2>3
<1>13. clock' \in Nat /\ \A a \in Counted' : clock' - a.at <= Hour => a \in times'[LevelOf(a.event)]
  BY <1>types, <1>1, <1>8
<1> QED
  BY <1>4, <1>6, <1>7, <1>9, <1>10, <1>12, <1>13 DEF FloodInv

LEMMA FloodStep == ASSUME FloodInv, [AlertNext]_alertVars PROVE FloodInv'
<1>types. /\ clock \in Nat /\ titles \in [Kinds -> Int] /\ times \in [Levels -> SUBSET Alerts]
          /\ pastLog \subseteq Alerts /\ IsFiniteSet(pastLog)
          /\ \A l \in Levels : IsFiniteSet(times[l])
          /\ \A a \in pastLog : a.at <= clock
  BY DEF FloodInv
<1>old. ASSUME NEW a \in Counted
        PROVE  /\ a \in pastLog /\ a.at \in Nat /\ a.at <= clock /\ a.event \in Events
               /\ clock - a.at <= Hour => a \in times[LevelOf(a.event)]
               /\ a.at <= titles[a.event.kind]
               /\ Cardinality(Window(a)) <= LevelMax
  BY DEF FloodInv, Counted, Alerts
<1>pairs. \A a, b \in Counted :
            a # b /\ a.event.kind = b.event.kind => a.at - b.at >= TitleCooldown \/ b.at - a.at >= TitleCooldown
  BY DEF FloodInv
<1>1. ASSUME UNCHANGED <<clock, titles, times, pastLog>> PROVE FloodInv'
  BY <1>1 DEF FloodInv, Counted, Window
<1>2. ASSUME NEW e \in Events, SendCritical(e) PROVE FloodInv'
  <2>1. /\ pastLog' = pastLog \cup {Alert(e)} /\ LevelOf(e) = "critical"
        /\ UNCHANGED <<clock, titles, times>>
    BY <1>2 DEF SendCritical, Begin
  <2>2. Alert(e).event = e /\ Alert(e).at = clock /\ Alert(e) \in Alerts
    BY <1>types DEF Alert, Alerts
  <2>3. Counted' = Counted
    BY <2>1, <2>2 DEF Counted
  <2>4. IsFiniteSet(pastLog') /\ pastLog' \subseteq Alerts /\ \A a \in pastLog' : a.at <= clock
    BY <1>types, <2>1, <2>2, FS_AddElement
  <2>5. \A a \in Counted : Window(a)' = Window(a)
    BY <2>3 DEF Window
  <2> QED
    BY <1>types, <1>old, <1>pairs, <2>1, <2>3, <2>4, <2>5 DEF FloodInv
<1>3. ASSUME NEW e \in Events, SuppressAlert(e) PROVE FloodInv'
  <2>1. /\ times' = times \/ times' = [times EXCEPT ![LevelOf(e)] = Recent(LevelOf(e))]
        /\ UNCHANGED <<clock, titles, pastLog>>
    BY <1>3 DEF SuppressAlert
  <2>2. LevelOf(e) \in Levels /\ IsFiniteSet(Recent(LevelOf(e)))
    BY <1>types, LevelType, FS_Subset DEF Recent
  <2>3. Counted' = Counted /\ \A a \in Counted : Window(a)' = Window(a)
    BY <2>1 DEF Counted, Window
  <2>4. times' \in [Levels -> SUBSET Alerts] /\ \A l \in Levels : IsFiniteSet(times'[l])
    <3> DEFINE R == Recent(LevelOf(e))
               l0 == LevelOf(e)
    <3>1. R \in SUBSET Alerts /\ IsFiniteSet(R) /\ l0 \in Levels
      BY <1>types, <2>2 DEF Recent
    <3>2. times' = times \/ times' = [times EXCEPT ![l0] = R]
      BY <2>1
    <3> HIDE DEF R, l0
    <3>3. times' \in [Levels -> SUBSET Alerts]
      BY <1>types, <3>1, <3>2
    <3>4. \A l \in Levels : times'[l] = times[l] \/ times'[l] = R
      BY <1>types, <3>1, <3>2
    <3> QED
      BY <1>types, <3>1, <3>3, <3>4
  <2>5. ASSUME NEW a \in Counted, clock - a.at <= Hour PROVE a \in times'[LevelOf(a.event)]
    <3>1. a \in times[LevelOf(a.event)] /\ LevelOf(a.event) \in Levels
      BY <1>old, <2>5, LevelType
    <3>2. a \in Recent(LevelOf(a.event))
      BY <2>5, <3>1 DEF Recent
    <3> QED
      BY <1>types, <2>1, <2>2, <3>1, <3>2
  <2> QED
    BY <1>types, <1>old, <1>pairs, <2>1, <2>3, <2>4, <2>5 DEF FloodInv
<1>4. CASE AlertTick
  <2>1. clock' = clock + 1 /\ UNCHANGED <<titles, times, pastLog>>
    BY <1>4 DEF AlertTick
  <2>2. Counted' = Counted /\ \A a \in Counted : Window(a)' = Window(a)
    BY <2>1 DEF Counted, Window
  <2>3. Hour \in Nat
    BY AlertsAssumption
  <2>4. \A a \in Counted : clock' - a.at <= Hour => clock - a.at <= Hour
    BY <1>types, <1>old, <2>1, <2>3
  <2>5. \A a \in pastLog : a.at <= clock'
    <3>1. ASSUME NEW a \in pastLog PROVE a.at \in Nat /\ a.at <= clock
      BY <1>types DEF Alerts
    <3> QED
      BY <1>types, <2>1, <3>1
  <2> QED
    BY <1>types, <1>old, <1>pairs, <2>1, <2>2, <2>4, <2>5 DEF FloodInv
<1>5. ASSUME NEW e \in Events, Register(e) \/ Acknowledge(e) PROVE FloodInv'
  BY <1>1, <1>5 DEF Register, Acknowledge
<1>6. CASE CheckEscalations \/ UNCHANGED alertVars
  BY <1>1, <1>6 DEF CheckEscalations, alertVars
<1> QED
  BY <1>2, <1>3, <1>4, <1>5, <1>6, FloodSend DEF AlertNext

\* No window of an hour lets more alerts of a level through than its limit,
\* and two of one title are a cooldown apart, critical ones excepted: what
\* the limiter has forgotten is older than an hour.
THEOREM AlertsNeverFlood == AlertInit /\ [][AlertNext]_alertVars => []FloodsAreBounded
<1>1. FloodInv => FloodsAreBounded
  BY DEF FloodInv, Counted, Window, FloodsAreBounded
<1> QED
  BY <1>1, FloodInitial, FloodStep, PTL

(***************************************************************************)
(* The summaries: a loop that sleeps wakes at a midnight that none of its  *)
(* summaries has seen.                                                     *)
(***************************************************************************)
Reports == [at : Nat, trades : SUBSET Nat]

LogInv(log, period, task, wake, late, now) ==
    /\ log \in Seq(Reports) /\ wake \in Nat /\ now \in Nat /\ late \in BOOLEAN
    /\ InOrder(log, period)
    /\ \A i \in DOMAIN log : log[i].at <= now
    /\ task = "sleeping" => wake % period = 0 /\ \A i \in DOMAIN log : log[i].at < wake
    /\ ~late => \A i \in DOMAIN log : log[i].at % period = 0

\* A weekly summary knows of every order of its week that has been filled.
WeekIsTold(log, fills) ==
    \A i \in DOMAIN log : \A f \in fills :
        log[i].at - WeekTicks <= f /\ f < log[i].at => f \in log[i].trades

SumInv ==
    /\ fillTimes \subseteq Nat /\ \A f \in fillTimes : f <= time
    /\ DOMAIN tasks = Loops /\ DOMAIN wakes = Loops
    /\ LogInv(dailies, DayTicks, tasks["daily"], wakes["daily"], tardy, time)
    /\ LogInv(weeklies, WeekTicks, tasks["weekly"], wakes["weekly"], tardy, time)
    /\ WeekIsTold(weeklies, fillTimes)

LEMMA ReportTypes ==
    ASSUME NEW log \in Seq(Reports)
    PROVE  \A i \in DOMAIN log : log[i] \in Reports /\ log[i].at \in Nat
<1>1. \A i \in DOMAIN log : log[i] \in Reports
  OBVIOUS
<1>2. \A report \in Reports : report.at \in Nat
  BY DEF Reports
<1> QED
  BY <1>1, <1>2

LEMMA Periods == DayTicks \in Nat \ {0} /\ WeekTicks \in Nat \ {0}
<1>1. DayTicks \in Nat \ {0} /\ WeekDays \in Nat \ {0}
  BY SummariesAssumption
<1> QED
  BY <1>1 DEF WeekTicks

LEMMA WakeType ==
    ASSUME NEW period \in Nat \ {0}, NEW now \in Nat, NEW wake, wake = now + (period - (now % period))
    PROVE  wake \in Nat /\ wake % period = 0 /\ now < wake
  BY NextMultiple

LEMMA Between == ASSUME NEW a \in Nat, NEW b \in Nat, NEW c \in Nat, a <= b, b < c PROVE a < c
  OBVIOUS

\* A loop falls asleep: the next midnight is after everything it has sent.
LEMMA FallsAsleep ==
    ASSUME NEW period \in Nat \ {0}, NEW log, NEW task, NEW wake, NEW late, NEW now,
           LogInv(log, period, task, wake, late, now),
           NEW next, next = now + (period - (now % period))
    PROVE  LogInv(log, period, "sleeping", next, late, now)
<1>1. now \in Nat /\ log \in Seq(Reports) /\ \A i \in DOMAIN log : log[i].at <= now
  BY DEF LogInv
<1>2. next \in Nat /\ next % period = 0 /\ now < next
  BY <1>1, WakeType
<1>3. \A i \in DOMAIN log : log[i].at \in Nat
  BY <1>1, ReportTypes
<1>4. \A i \in DOMAIN log : log[i].at < next
  <2> SUFFICES ASSUME NEW i \in DOMAIN log PROVE log[i].at < next
    OBVIOUS
  <2>1. log[i].at \in Nat /\ log[i].at <= now /\ now \in Nat /\ next \in Nat /\ now < next
    BY <1>1, <1>2, <1>3
  <2> QED
    BY <2>1, Between
<1> QED
  BY <1>2, <1>4 DEF LogInv

\* Without a summary a loop may be woken late, give up, or wait for a retry.
LEMMA StaysAwake ==
    ASSUME NEW period, NEW log, NEW task, NEW wake, NEW late, NEW now,
           LogInv(log, period, task, wake, late, now),
           NEW other, other # "sleeping", NEW next \in Nat, NEW later \in BOOLEAN, late => later
    PROVE  LogInv(log, period, other, next, later, now)
  BY DEF LogInv

LEMMA LateElsewhere ==
    ASSUME NEW period, NEW log, NEW task, NEW wake, NEW late, NEW now,
           LogInv(log, period, task, wake, late, now), NEW later \in BOOLEAN, late => later
    PROVE  LogInv(log, period, task, wake, later, now)
  BY DEF LogInv

LEMMA TimeGoes ==
    ASSUME NEW period, NEW log, NEW task, NEW wake, NEW late, NEW now,
           LogInv(log, period, task, wake, late, now)
    PROVE  LogInv(log, period, task, wake, late, now + 1)
<1>1. now \in Nat /\ log \in Seq(Reports) /\ \A i \in DOMAIN log : log[i].at <= now
  BY DEF LogInv
<1>2. \A i \in DOMAIN log : log[i].at \in Nat
  BY <1>1, ReportTypes
<1>3. now + 1 \in Nat /\ \A i \in DOMAIN log : log[i].at <= now + 1
  BY <1>1, <1>2
<1> QED
  BY <1>3 DEF LogInv

\* A summary is sent in a later period than those before it.
LEMMA SendsOnce ==
    ASSUME NEW period \in Nat \ {0}, NEW log, NEW wake, NEW late, NEW now,
           LogInv(log, period, "sleeping", wake, late, now), now >= wake,
           NEW report \in Reports, report.at = now,
           NEW later, later = (late \/ now > wake),
           NEW next, next = now + (period - (now % period))
    PROVE  LogInv(Append(log, report), period, "sleeping", next, later, now)
<1> DEFINE new == Append(log, report)
           n == Len(log) + 1
<1>1. /\ now \in Nat /\ wake \in Nat /\ wake % period = 0 /\ log \in Seq(Reports) /\ late \in BOOLEAN
      /\ \A i \in DOMAIN log : log[i].at \in Nat /\ log[i].at < wake /\ log[i].at <= now
      /\ InOrder(log, period)
      /\ ~late => \A i \in DOMAIN log : log[i].at % period = 0
  <2>1. /\ now \in Nat /\ wake \in Nat /\ wake % period = 0 /\ log \in Seq(Reports) /\ late \in BOOLEAN
        /\ \A i \in DOMAIN log : log[i].at < wake /\ log[i].at <= now
        /\ InOrder(log, period)
        /\ ~late => \A i \in DOMAIN log : log[i].at % period = 0
    BY DEF LogInv
  <2>2. \A i \in DOMAIN log : log[i].at \in Nat
    BY <2>1, ReportTypes
  <2> QED
    BY <2>1, <2>2
<1>2. /\ new \in Seq(Reports) /\ Len(log) \in Nat /\ new[n] = report
      /\ \A i \in DOMAIN log : i \in DOMAIN new /\ new[i] = log[i]
      /\ \A i \in DOMAIN new : i \in DOMAIN log \/ i = n
      /\ \A i \in DOMAIN log : i < n /\ i \in Nat
  <2>1. /\ new \in Seq(Reports) /\ Len(log) \in Nat /\ new[n] = report
        /\ \A i \in DOMAIN log : i \in DOMAIN new /\ new[i] = log[i]
        /\ \A i \in DOMAIN new : i \in DOMAIN log \/ i = n
    BY <1>1, AppendFacts
  <2>2. \A i \in DOMAIN log : i < n /\ i \in Nat
    BY <1>1
  <2> QED
    BY <2>1, <2>2
<1>3. later \in BOOLEAN
  BY <1>1
<1>4. next \in Nat /\ next % period = 0 /\ now < next
  BY <1>1, WakeType
<1>5. \A i \in DOMAIN log : log[i].at \div period < now \div period
  BY <1>1, LaterPeriod
<1> HIDE DEF new, n
<1>6. InOrder(new, period)
  <2> SUFFICES ASSUME NEW i \in DOMAIN new, NEW j \in DOMAIN new, i < j
               PROVE  new[i].at \div period < new[j].at \div period
    BY DEF InOrder
  <2>1. i \in DOMAIN log
    BY <1>2 DEF n
  <2>2. CASE j \in DOMAIN log
    BY <1>1, <1>2, <2>1, <2>2 DEF InOrder
  <2>3. CASE j = n
    BY <1>2, <1>5, <2>1, <2>3
  <2> QED
    BY <1>2, <2>2, <2>3
<1>7. \A i \in DOMAIN new : new[i].at <= now /\ new[i].at < next
  <2>1. \A i \in DOMAIN log : log[i].at <= now /\ log[i].at < next
    <3> SUFFICES ASSUME NEW i \in DOMAIN log PROVE log[i].at <= now /\ log[i].at < next
      OBVIOUS
    <3>1. log[i].at \in Nat /\ log[i].at <= now /\ now \in Nat /\ next \in Nat /\ now < next
      BY <1>1, <1>4
    <3> QED
      BY <3>1, Between
  <2>2. report.at <= now /\ report.at < next
    BY <1>1, <1>4
  <2> QED
    BY <1>2, <2>1, <2>2
<1>8. ASSUME ~later PROVE \A i \in DOMAIN new : new[i].at % period = 0
  <2>1. ~late /\ ~(now > wake)
    BY <1>8
  <2>2. now = wake
    BY <1>1, <2>1
  <2>3. report.at % period = 0
    BY <1>1, <2>2
  <2> QED
    BY <1>1, <1>2, <2>1, <2>3
<1> QED
  BY <1>1, <1>2, <1>3, <1>4, <1>6, <1>7, <1>8 DEF LogInv, new

LEMMA SumInitial == SumInit => SumInv
<1> SUFFICES ASSUME SumInit PROVE SumInv
  OBVIOUS
<1>1. \A period : LogInv(<<>>, period, "ended", 0, FALSE, 0)
  BY DEF LogInv, InOrder
<1> QED
  BY <1>1 DEF SumInit, SumInv, WeekIsTold, Loops

\* What a loop sleeps until.
LEMMA NextWakes ==
    /\ NextWake("daily") = time + (DayTicks - (time % DayTicks))
    /\ NextWake("weekly") = time + (WeekTicks - (time % WeekTicks))
  BY DEF NextWake, SecondsUntilMidnight, SecondsUntilSunday

LEMMA WakesStep == ASSUME SumInv, NEW loop \in Loops, NEW fails \in BOOLEAN, Wakes(loop, fails)
                   PROVE  SumInv'
<1> DEFINE other == IF loop = "daily" THEN "weekly" ELSE "daily"
<1>1. /\ tasks[loop] = "sleeping" /\ time >= wakes[loop] /\ tardy' = (tardy \/ time > wakes[loop])
      /\ UNCHANGED <<time, fillTimes>>
  BY DEF Wakes
<1>2. /\ LogInv(dailies, DayTicks, tasks["daily"], wakes["daily"], tardy, time)
      /\ LogInv(weeklies, WeekTicks, tasks["weekly"], wakes["weekly"], tardy, time)
      /\ DOMAIN tasks = Loops /\ DOMAIN wakes = Loops
      /\ fillTimes \subseteq Nat /\ WeekIsTold(weeklies, fillTimes)
      /\ \A f \in fillTimes : f <= time
  BY DEF SumInv
<1>3. time \in Nat /\ tardy \in BOOLEAN /\ wakes[loop] \in Nat
  BY <1>2 DEF LogInv, Loops
<1>4. tardy' \in BOOLEAN /\ (tardy => tardy')
  BY <1>1, <1>3
<1>5. CASE fails
  <2>1. /\ tasks' = [tasks EXCEPT ![loop] = "retrying"]
        /\ wakes' = [wakes EXCEPT ![loop] = time + RetryTicks]
        /\ UNCHANGED <<dailies, weeklies>>
    BY <1>5 DEF Wakes
  <2>2. time + RetryTicks \in Nat
    BY <1>3, SummariesAssumption
  <2>3. DOMAIN tasks' = Loops /\ DOMAIN wakes' = Loops
    BY <1>2, <2>1
  <2>4. LogInv(dailies, DayTicks, tasks'["daily"], wakes'["daily"], tardy', time)
    <3>1. CASE loop = "daily"
      <4>1. tasks'["daily"] # "sleeping" /\ wakes'["daily"] \in Nat
        BY <1>2, <2>1, <2>2, <3>1 DEF Loops
      <4> QED
        BY <1>2, <1>4, <4>1, StaysAwake
    <3>2. CASE loop # "daily"
      <4>1. tasks'["daily"] = tasks["daily"] /\ wakes'["daily"] = wakes["daily"]
        BY <1>2, <2>1, <3>2 DEF Loops
      <4> QED
        BY <1>2, <1>4, <4>1, LateElsewhere
    <3> QED
      BY <3>1, <3>2
  <2>5. LogInv(weeklies, WeekTicks, tasks'["weekly"], wakes'["weekly"], tardy', time)
    <3>1. CASE loop = "weekly"
      <4>1. tasks'["weekly"] # "sleeping" /\ wakes'["weekly"] \in Nat
        BY <1>2, <2>1, <2>2, <3>1 DEF Loops
      <4> QED
        BY <1>2, <1>4, <4>1, StaysAwake
    <3>2. CASE loop # "weekly"
      <4>1. tasks'["weekly"] = tasks["weekly"] /\ wakes'["weekly"] = wakes["weekly"]
        BY <1>2, <2>1, <3>2 DEF Loops
      <4> QED
        BY <1>2, <1>4, <4>1, LateElsewhere
    <3> QED
      BY <3>1, <3>2
  <2> QED
    BY <1>1, <1>2, <2>1, <2>3, <2>4, <2>5 DEF SumInv
<1>6. CASE ~fails /\ loop = "daily"
  <2>1. /\ dailies' = Append(dailies, AggregateDaily) /\ weeklies' = weeklies
        /\ wakes' = [wakes EXCEPT !["daily"] = NextWake("daily")] /\ tasks' = tasks
    BY <1>6 DEF Wakes, Send
  <2>2. AggregateDaily \in Reports /\ AggregateDaily.at = time
    BY <1>2, <1>3 DEF AggregateDaily, Reports
  <2>3. /\ wakes'["daily"] = NextWake("daily") /\ wakes'["weekly"] = wakes["weekly"]
        /\ DOMAIN wakes' = Loops
    BY <1>2, <2>1 DEF Loops
  <2>4. LogInv(dailies, DayTicks, "sleeping", wakes["daily"], tardy, time) /\ time >= wakes["daily"]
    BY <1>1, <1>2, <1>6
  <2>5. LogInv(Append(dailies, AggregateDaily), DayTicks, "sleeping", NextWake("daily"), tardy', time)
    BY <1>1, <1>6, <2>2, <2>4, NextWakes, Periods, SendsOnce
  <2>6. LogInv(weeklies, WeekTicks, tasks["weekly"], wakes["weekly"], tardy', time)
    BY <1>2, <1>4, LateElsewhere
  <2> QED
    BY <1>1, <1>2, <1>6, <2>1, <2>3, <2>5, <2>6 DEF SumInv
<1>7. CASE ~fails /\ loop = "weekly"
  <2>1. /\ weeklies' = Append(weeklies, AggregateWeekly) /\ dailies' = dailies
        /\ wakes' = [wakes EXCEPT !["weekly"] = NextWake("weekly")] /\ tasks' = tasks
    BY <1>7 DEF Wakes, Send
  <2>2. /\ AggregateWeekly \in Reports /\ AggregateWeekly.at = time
        /\ \A f \in fillTimes : time - WeekTicks <= f => f \in AggregateWeekly.trades
    <3>1. AggregateWeekly.trades = {f \in fillTimes : f >= time - WeekTicks} /\ AggregateWeekly.at = time
      BY DEF AggregateWeekly
    <3>2. AggregateWeekly \in Reports
      BY <1>2, <1>3 DEF AggregateWeekly, Reports
    <3>3. \A f \in fillTimes : f \in Nat /\ time - WeekTicks \in Int
      BY <1>2, <1>3, Periods
    <3> QED
      BY <3>1, <3>2, <3>3
  <2>3. /\ wakes'["weekly"] = NextWake("weekly") /\ wakes'["daily"] = wakes["daily"]
        /\ DOMAIN wakes' = Loops
    BY <1>2, <2>1 DEF Loops
  <2>4. LogInv(weeklies, WeekTicks, "sleeping", wakes["weekly"], tardy, time) /\ time >= wakes["weekly"]
    BY <1>1, <1>2, <1>7
  <2>5. LogInv(Append(weeklies, AggregateWeekly), WeekTicks, "sleeping", NextWake("weekly"), tardy', time)
    BY <1>1, <1>7, <2>2, <2>4, NextWakes, Periods, SendsOnce
  <2>6. LogInv(dailies, DayTicks, tasks["daily"], wakes["daily"], tardy', time)
    BY <1>2, <1>4, LateElsewhere
  <2>7. WeekIsTold(weeklies', fillTimes)
    <3>1. weeklies \in Seq(Reports)
      BY <1>2 DEF LogInv
    <3> DEFINE report == AggregateWeekly
    <3>2. report \in Reports /\ report.at = time /\ \A f \in fillTimes : time - WeekTicks <= f => f \in report.trades
      BY <2>2
    <3> HIDE DEF report
    <3>3. \A i \in DOMAIN Append(weeklies, report) :
              \/ i \in DOMAIN weeklies /\ Append(weeklies, report)[i] = weeklies[i]
              \/ Append(weeklies, report)[i] = report
      BY <3>1, <3>2, AppendFacts
    <3>4. WeekIsTold(Append(weeklies, report), fillTimes)
      BY <1>2, <3>2, <3>3 DEF WeekIsTold
    <3> QED
      BY <2>1, <3>4 DEF report
  <2> QED
    BY <1>1, <1>2, <1>7, <2>1, <2>3, <2>5, <2>6, <2>7 DEF SumInv
<1> QED
  BY <1>5, <1>6, <1>7 DEF Loops

LEMMA SumStep == ASSUME SumInv, [SumNext]_sumVars PROVE SumInv'
<1>inv. /\ LogInv(dailies, DayTicks, tasks["daily"], wakes["daily"], tardy, time)
        /\ LogInv(weeklies, WeekTicks, tasks["weekly"], wakes["weekly"], tardy, time)
        /\ DOMAIN tasks = Loops /\ DOMAIN wakes = Loops
        /\ fillTimes \subseteq Nat /\ WeekIsTold(weeklies, fillTimes)
        /\ \A f \in fillTimes : f <= time
  BY DEF SumInv
<1>types. /\ time \in Nat /\ tardy \in BOOLEAN /\ wakes["daily"] \in Nat /\ wakes["weekly"] \in Nat
          /\ weeklies \in Seq(Reports) /\ \A i \in DOMAIN weeklies : weeklies[i].at <= time
  BY <1>inv DEF LogInv
<1>1. CASE StartScheduler
  <2>1. /\ tasks' = [loop \in Loops |-> "sleeping"] /\ wakes' = [loop \in Loops |-> NextWake(loop)]
        /\ UNCHANGED <<time, fillTimes, dailies, weeklies, tardy>>
    BY <1>1 DEF StartScheduler
  <2>2. /\ tasks'["daily"] = "sleeping" /\ tasks'["weekly"] = "sleeping"
        /\ wakes'["daily"] = NextWake("daily") /\ wakes'["weekly"] = NextWake("weekly")
        /\ DOMAIN tasks' = Loops /\ DOMAIN wakes' = Loops
    BY <2>1 DEF Loops
  <2>3. LogInv(dailies, DayTicks, "sleeping", NextWake("daily"), tardy, time)
    BY <1>inv, NextWakes, Periods, FallsAsleep
  <2>4. LogInv(weeklies, WeekTicks, "sleeping", NextWake("weekly"), tardy, time)
    BY <1>inv, NextWakes, Periods, FallsAsleep
  <2> QED
    BY <1>inv, <2>1, <2>2, <2>3, <2>4 DEF SumInv
<1>2. CASE StopScheduler
  <2>1. /\ tasks' = [loop \in Loops |-> "ended"]
        /\ UNCHANGED <<time, fillTimes, wakes, dailies, weeklies, tardy>>
    BY <1>2 DEF StopScheduler
  <2>2. tasks'["daily"] = "ended" /\ tasks'["weekly"] = "ended" /\ DOMAIN tasks' = Loops
    BY <2>1 DEF Loops
  <2>3. /\ LogInv(dailies, DayTicks, "ended", wakes["daily"], tardy, time)
        /\ LogInv(weeklies, WeekTicks, "ended", wakes["weekly"], tardy, time)
    BY <1>inv, <1>types, StaysAwake
  <2> QED
    BY <1>inv, <2>1, <2>2, <2>3 DEF SumInv
<1>3. ASSUME NEW loop \in Loops, Retries(loop) PROVE SumInv'
  <2>1. /\ tasks' = [tasks EXCEPT ![loop] = "sleeping"] /\ wakes' = [wakes EXCEPT ![loop] = NextWake(loop)]
        /\ UNCHANGED <<time, fillTimes, dailies, weeklies, tardy>>
    BY <1>3 DEF Retries
  <2>2. DOMAIN tasks' = Loops /\ DOMAIN wakes' = Loops
    BY <1>inv, <2>1
  <2>3. LogInv(dailies, DayTicks, tasks'["daily"], wakes'["daily"], tardy, time)
    <3>1. CASE loop = "daily"
      <4>1. tasks'["daily"] = "sleeping" /\ wakes'["daily"] = NextWake("daily")
        BY <1>inv, <2>1, <3>1
      <4> QED
        BY <1>inv, <4>1, NextWakes, Periods, FallsAsleep
    <3>2. CASE loop # "daily"
      <4>1. tasks'["daily"] = tasks["daily"] /\ wakes'["daily"] = wakes["daily"]
        BY <1>inv, <2>1, <3>2 DEF Loops
      <4> QED
        BY <1>inv, <4>1
    <3> QED
      BY <3>1, <3>2
  <2>4. LogInv(weeklies, WeekTicks, tasks'["weekly"], wakes'["weekly"], tardy, time)
    <3>1. CASE loop = "weekly"
      <4>1. tasks'["weekly"] = "sleeping" /\ wakes'["weekly"] = NextWake("weekly")
        BY <1>inv, <2>1, <3>1
      <4> QED
        BY <1>inv, <4>1, NextWakes, Periods, FallsAsleep
    <3>2. CASE loop # "weekly"
      <4>1. tasks'["weekly"] = tasks["weekly"] /\ wakes'["weekly"] = wakes["weekly"]
        BY <1>inv, <2>1, <3>2 DEF Loops
      <4> QED
        BY <1>inv, <4>1
    <3> QED
      BY <3>1, <3>2
  <2> QED
    BY <1>inv, <2>1, <2>2, <2>3, <2>4 DEF SumInv
<1>4. ASSUME NEW loop \in Loops, NEW fails \in BOOLEAN, Wakes(loop, fails) PROVE SumInv'
  BY <1>4, WakesStep
<1>5. CASE OrderFills
  <2>1. /\ fillTimes' = fillTimes \cup {time} /\ UNCHANGED <<time, tasks, wakes, dailies, weeklies, tardy>>
    BY <1>5 DEF OrderFills
  <2>2. fillTimes' \subseteq Nat /\ \A f \in fillTimes' : f <= time
    <3>1. \A f \in fillTimes' : f \in fillTimes \/ f = time
      BY <2>1
    <3>2. time <= time
      BY <1>types
    <3> QED
      BY <1>inv, <1>types, <3>1, <3>2
  <2>3. \A i \in DOMAIN weeklies : ~(time < weeklies[i].at)
    <3>1. \A i \in DOMAIN weeklies : weeklies[i].at \in Nat
      BY <1>types, ReportTypes
    <3> QED
      BY <1>types, <3>1
  <2>4. WeekIsTold(weeklies, fillTimes')
    BY <1>inv, <2>1, <2>3 DEF WeekIsTold
  <2> QED
    BY <1>inv, <2>1, <2>2, <2>4 DEF SumInv
<1>6. CASE TimePasses
  <2>1. time' = time + 1 /\ UNCHANGED <<fillTimes, tasks, wakes, dailies, weeklies, tardy>>
    BY <1>6 DEF TimePasses
  <2>2. /\ LogInv(dailies, DayTicks, tasks["daily"], wakes["daily"], tardy, time + 1)
        /\ LogInv(weeklies, WeekTicks, tasks["weekly"], wakes["weekly"], tardy, time + 1)
    BY <1>inv, TimeGoes
  <2>3. \A f \in fillTimes : f <= time + 1
    BY <1>inv, <1>types
  <2> QED
    BY <1>inv, <2>1, <2>2, <2>3 DEF SumInv
<1>7. CASE UNCHANGED sumVars
  BY <1>7 DEF sumVars, SumInv
<1> QED
  BY <1>1, <1>2, <1>3, <1>4, <1>5, <1>6, <1>7 DEF SumNext

\* However late the loops wake, whatever fails and however often the scheduler
\* starts and stops, no day and no week is summed up twice; without a late wake
\* every summary is one of a midnight, and two weekly ones in a row miss no
\* order between them.
THEOREM SummariesDoNotRepeat == SumInit /\ [][SumNext]_sumVars => []SummariesAreSound
<1>1. SumInv => SummariesAreSound
  <2> SUFFICES ASSUME SumInv PROVE SummariesAreSound
    OBVIOUS
  <2>1. /\ LogInv(dailies, DayTicks, tasks["daily"], wakes["daily"], tardy, time)
        /\ LogInv(weeklies, WeekTicks, tasks["weekly"], wakes["weekly"], tardy, time)
        /\ WeekIsTold(weeklies, fillTimes)
    BY DEF SumInv
  <2>2. /\ InOrder(dailies, DayTicks) /\ InOrder(weeklies, WeekTicks)
        /\ ~tardy => /\ \A i \in DOMAIN dailies : dailies[i].at % DayTicks = 0
                     /\ \A i \in DOMAIN weeklies : weeklies[i].at % WeekTicks = 0
    BY <2>1 DEF LogInv
  <2>3. \A i \in DOMAIN weeklies \ {1} :
            weeklies[i - 1].at = weeklies[i].at - WeekTicks =>
                \A f \in fillTimes : weeklies[i - 1].at <= f /\ f < weeklies[i].at => f \in weeklies[i].trades
    BY <2>1 DEF WeekIsTold
  <2> QED
    BY <2>2, <2>3 DEF SummariesAreSound
<1> QED
  BY <1>1, SumInitial, SumStep, PTL

(***************************************************************************)
(* The market data: every entry, and every series on its way, answers the  *)
(* questions its key stands for, and what is left of its expiry tells how  *)
(* old it can be.                                                          *)
(***************************************************************************)
Quoted == {w.symbol : w \in Wanted}
Verdicts == {"none", "pause", "interpolate", "use"}
Series == [symbol : Quoted, age : Nat, verdict : Verdicts]
Computed == [symbol : Quoted, age : Nat, setup : Setups]

IsSeriesOf(v, w) ==
    /\ v \in Series /\ v.symbol = w.symbol
    /\ "none" \notin Shared(w) => v.verdict # "none"
IsIndicatorOf(v, setup, symbol) ==
    /\ v \in Computed /\ v.symbol = symbol
    /\ v.setup.class = setup.class /\ v.setup.listed = setup.listed

InTime(e, delay, ttl) == e.left >= 0 => e.value.age + e.left <= delay + ttl

IsEntryRecord(e) == e = [value |-> e.value, left |-> e.left, place |-> e.place] /\ e.left \in Int

EntriesFit(es) ==
    /\ \A k \in DOMAIN es : IsEntryRecord(es[k])
    /\ \A w \in Wanted : SeriesKey(w) \in DOMAIN es =>
          IsSeriesOf(es[SeriesKey(w)].value, w) /\ InTime(es[SeriesKey(w)], MaxDelay, SeriesTtl)
    /\ \A s \in Setups, symbol \in Quoted : IndicatorKey(s, symbol) \in DOMAIN es =>
          /\ IsIndicatorOf(es[IndicatorKey(s, symbol)].value, s, symbol)
          /\ InTime(es[IndicatorKey(s, symbol)], SeriesTtl + MaxDelay, IndicatorTtl)

AskedCalls == [at : {"asked"}, wanted : Wanted, waited : 0..MaxDelay]
AnsweredCalls == [at : {"answered"}, wanted : Wanted, waited : 0..MaxDelay,
                  value : [symbol : Quoted, age : Nat, verdict : Verdicts \cup {"reject"}]]
HoldingCalls == [at : {"holding"}, wanted : Wanted, value : Series]

CallFits(call) ==
    \/ call = Idle
    \/ call \in AskedCalls
    \/ /\ call \in AnsweredCalls
       /\ call.value.symbol = call.wanted.symbol /\ call.value.age <= call.waited
       /\ call.wanted.checks # "none" => call.value.verdict # "none"
    \/ /\ call \in HoldingCalls
       /\ call.value.age <= SeriesTtl + MaxDelay

CacheInv ==
    /\ EntriesFit(entries)
    /\ DOMAIN calls = Callers /\ calls = [c \in Callers |-> calls[c]]
    /\ \A c \in Callers : CallFits(calls[c])
    /\ AnswersFitTheQuestion

LEMMA MarketTypes ==
    /\ SeriesTtl \in Nat /\ IndicatorTtl \in Nat /\ MaxDelay \in Nat
    /\ Oldest \in Nat /\ Oldest = SeriesTtl + MaxDelay + IndicatorTtl + 1
    /\ \A w \in Wanted : DOMAIN w = {"symbol", "checks"} /\ w.symbol \in Quoted
                         /\ w.checks \in {"all", "gaps", "none"}
<1>1. SeriesTtl \in Nat /\ IndicatorTtl \in Nat /\ MaxDelay \in Nat
  BY MarketAssumption
<1>2. \A w \in Wanted : w \in [symbol : Quoted, checks : {"all", "gaps", "none"}]
  BY MarketAssumption DEF Quoted
<1>3. Oldest \in Nat /\ Oldest = SeriesTtl + MaxDelay + IndicatorTtl + 1
  BY <1>1 DEF Oldest
<1> QED
  BY <1>1, <1>2, <1>3

LEMMA KeysDiffer ==
    /\ \A v, w : SeriesKey(v) = SeriesKey(w) => v.symbol = w.symbol
    /\ \A w, s, symbol : SeriesKey(w) # IndicatorKey(s, symbol)
    /\ \A s, t, a, b : IndicatorKey(s, a) = IndicatorKey(t, b) =>
          s.class = t.class /\ s.listed = t.listed /\ a = b
  BY DEF SeriesKey, IndicatorKey

LEMMA SameSeries ==
    ASSUME NEW v, NEW w, NEW x, v.symbol = w.symbol
    PROVE  IsSeriesOf(x, v) <=> IsSeriesOf(x, w)
<1>1. Shared(v) = Shared(w)
  BY DEF Shared
<1> QED
  BY <1>1 DEF IsSeriesOf

\* Taking entries away, or moving them, spoils none.
LEMMA FewerFit ==
    ASSUME NEW es, EntriesFit(es), NEW fs, DOMAIN fs \subseteq DOMAIN es,
           \A k \in DOMAIN fs : /\ IsEntryRecord(fs[k])
                                /\ fs[k].value = es[k].value /\ fs[k].left = es[k].left
    PROVE  EntriesFit(fs)
  BY DEF EntriesFit, InTime

LEMMA OnlyFit ==
    ASSUME NEW es, EntriesFit(es), NEW keys, keys \subseteq DOMAIN es
    PROVE  EntriesFit(Only(es, keys)) /\ DOMAIN Only(es, keys) = keys
<1> DEFINE fs == Only(es, keys)
           place(k) == Cardinality({j \in keys : es[j].place <= es[k].place})
<1>1. fs = [k \in keys |-> [es[k] EXCEPT !.place = place(k)]]
  BY DEF Only
<1> HIDE DEF fs, place
<1>2. \A k \in keys : IsEntryRecord(es[k])
  BY DEF EntriesFit
<1>3. \A k \in DOMAIN fs : /\ IsEntryRecord(fs[k])
                           /\ fs[k].value = es[k].value /\ fs[k].left = es[k].left
  <2> SUFFICES ASSUME NEW k \in keys
               PROVE  /\ IsEntryRecord(fs[k])
                      /\ fs[k].value = es[k].value /\ fs[k].left = es[k].left
    BY <1>1
  <2>1. es[k] = [value |-> es[k].value, left |-> es[k].left, place |-> es[k].place] /\ es[k].left \in Int
    BY <1>2 DEF IsEntryRecord
  <2>2. fs[k] = [es[k] EXCEPT !.place = place(k)]
    BY <1>1
  <2>3. fs[k] = [value |-> es[k].value, left |-> es[k].left, place |-> place(k)]
    BY <2>1, <2>2
  <2> QED
    BY <2>1, <2>3 DEF IsEntryRecord
<1>4. DOMAIN fs = keys
  BY <1>1
<1>5. EntriesFit(fs)
  BY <1>3, <1>4, FewerFit
<1> QED
  BY <1>4, <1>5 DEF fs

LEMMA GetFits ==
    ASSUME EntriesFit(entries), NEW key
    PROVE  EntriesFit(AfterGet(key))
<1>1. EntriesFit(Only(entries, DOMAIN entries \ {key}))
  BY OnlyFit
<1> QED
  BY <1>1 DEF AfterGet, Removed

LEMMA EvictedFit ==
    ASSUME NEW es, EntriesFit(es)
    PROVE  EntriesFit(Evicted(es))
<1>1. EntriesFit(Only(es, Alive(es)))
  BY OnlyFit DEF Alive
<1> DEFINE later == {k \in Alive(es) : \E j \in Alive(es) : es[j].place < es[k].place}
<1>2. later \subseteq DOMAIN es
  BY DEF Alive
<1>3. EntriesFit(Only(es, later))
  <2> HIDE DEF later
  <2> QED
    BY <1>2, OnlyFit
<1>4. Evicted(es) \in {es, Only(es, Alive(es)), Only(es, later)}
  BY DEF Evicted
<1> HIDE DEF later
<1> QED
  BY <1>1, <1>3, <1>4

\* After a set there is the entry set, and the others are as they were.
SetInto(fs, kept, key, value, ttl) ==
    /\ DOMAIN fs = DOMAIN kept \cup {key}
    /\ \A k \in DOMAIN kept \ {key} : fs[k] = kept[k]
    /\ IsEntryRecord(fs[key]) /\ fs[key].value = value /\ fs[key].left = ttl

LEMMA SetGives ==
    ASSUME NEW es, EntriesFit(es), NEW key, NEW value, NEW ttl \in Int,
           NEW fs, fs = AfterSet(es, key, value, ttl)
    PROVE  \E kept : EntriesFit(kept) /\ SetInto(fs, kept, key, value, ttl)
<1>1. PICK kept : kept = IF key \in DOMAIN es THEN es ELSE Evicted(es)
  OBVIOUS
<1>2. PICK place : place = IF key \in DOMAIN es THEN es[key].place ELSE Cardinality(DOMAIN kept) + 1
  OBVIOUS
<1>3. fs = [k \in DOMAIN kept \cup {key} |->
               IF k = key THEN [value |-> value, left |-> ttl, place |-> place] ELSE kept[k]]
  BY <1>1, <1>2 DEF AfterSet
<1>4. EntriesFit(kept)
  BY <1>1, EvictedFit
<1>5. fs[key] = [value |-> value, left |-> ttl, place |-> place]
  BY <1>3
<1>6. IsEntryRecord(fs[key]) /\ fs[key].value = value /\ fs[key].left = ttl
  BY <1>5 DEF IsEntryRecord
<1>7. /\ DOMAIN fs = DOMAIN kept \cup {key}
      /\ \A k \in DOMAIN kept \ {key} : fs[k] = kept[k]
  BY <1>3
<1> QED
  BY <1>4, <1>6, <1>7 DEF SetInto

LEMMA SeriesSet ==
    ASSUME NEW es, EntriesFit(es), NEW w \in Wanted, NEW value, IsSeriesOf(value, w),
           value.age <= MaxDelay
    PROVE  EntriesFit(AfterSet(es, SeriesKey(w), value, SeriesTtl))
<1>1. PICK key : key = SeriesKey(w)
  OBVIOUS
<1>2. PICK fs : fs = AfterSet(es, key, value, SeriesTtl)
  OBVIOUS
<1>held. PICK kept : EntriesFit(kept) /\ SetInto(fs, kept, key, value, SeriesTtl)
  BY <1>2, SetGives, MarketTypes
<1>3. /\ EntriesFit(kept)
      /\ DOMAIN fs = DOMAIN kept \cup {key}
      /\ \A k \in DOMAIN kept \ {key} : fs[k] = kept[k]
      /\ IsEntryRecord(fs[key]) /\ fs[key].value = value /\ fs[key].left = SeriesTtl
  BY <1>held DEF SetInto
<1>4. InTime(fs[key], MaxDelay, SeriesTtl)
  BY <1>3, MarketTypes DEF InTime, IsSeriesOf, Series
<1>5. \A k \in DOMAIN fs : IsEntryRecord(fs[k])
  BY <1>3 DEF EntriesFit
<1>6. \A v \in Wanted : SeriesKey(v) \in DOMAIN fs =>
          IsSeriesOf(fs[SeriesKey(v)].value, v) /\ InTime(fs[SeriesKey(v)], MaxDelay, SeriesTtl)
  <2> SUFFICES ASSUME NEW v \in Wanted, SeriesKey(v) \in DOMAIN fs
               PROVE  IsSeriesOf(fs[SeriesKey(v)].value, v) /\ InTime(fs[SeriesKey(v)], MaxDelay, SeriesTtl)
    OBVIOUS
  <2>1. CASE SeriesKey(v) = key
    <3>1. v.symbol = w.symbol
      BY <1>1, <2>1, KeysDiffer
    <3>2. IsSeriesOf(value, v)
      BY <3>1, SameSeries
    <3> QED
      BY <1>3, <1>4, <2>1, <3>2
  <2>2. CASE SeriesKey(v) # key
    BY <1>3, <2>2 DEF EntriesFit
  <2> QED
    BY <2>1, <2>2
<1>7. \A s \in Setups, symbol \in Quoted : IndicatorKey(s, symbol) \in DOMAIN fs =>
          /\ IsIndicatorOf(fs[IndicatorKey(s, symbol)].value, s, symbol)
          /\ InTime(fs[IndicatorKey(s, symbol)], SeriesTtl + MaxDelay, IndicatorTtl)
  <2>1. \A s, symbol : IndicatorKey(s, symbol) # key
    BY <1>1, KeysDiffer
  <2> QED
    BY <1>3, <2>1 DEF EntriesFit
<1>8. EntriesFit(fs)
  BY <1>5, <1>6, <1>7 DEF EntriesFit
<1> QED
  BY <1>1, <1>2, <1>8

LEMMA IndicatorSet ==
    ASSUME NEW es, EntriesFit(es), NEW s \in Setups, NEW symbol \in Quoted,
           NEW value, IsIndicatorOf(value, s, symbol), value.age <= SeriesTtl + MaxDelay
    PROVE  EntriesFit(AfterSet(es, IndicatorKey(s, symbol), value, IndicatorTtl))
<1>1. PICK key : key = IndicatorKey(s, symbol)
  OBVIOUS
<1>2. PICK fs : fs = AfterSet(es, key, value, IndicatorTtl)
  OBVIOUS
<1>held. PICK kept : EntriesFit(kept) /\ SetInto(fs, kept, key, value, IndicatorTtl)
  BY <1>2, SetGives, MarketTypes
<1>3. /\ EntriesFit(kept)
      /\ DOMAIN fs = DOMAIN kept \cup {key}
      /\ \A k \in DOMAIN kept \ {key} : fs[k] = kept[k]
      /\ IsEntryRecord(fs[key]) /\ fs[key].value = value /\ fs[key].left = IndicatorTtl
  BY <1>held DEF SetInto
<1>4. InTime(fs[key], SeriesTtl + MaxDelay, IndicatorTtl)
  BY <1>3, MarketTypes DEF InTime, IsIndicatorOf, Computed
<1>5. \A k \in DOMAIN fs : IsEntryRecord(fs[k])
  BY <1>3 DEF EntriesFit
<1>6. \A v \in Wanted : SeriesKey(v) \in DOMAIN fs =>
          IsSeriesOf(fs[SeriesKey(v)].value, v) /\ InTime(fs[SeriesKey(v)], MaxDelay, SeriesTtl)
  <2>1. \A v : SeriesKey(v) # key
    BY <1>1, KeysDiffer
  <2> QED
    BY <1>3, <2>1 DEF EntriesFit
<1>7. \A t \in Setups, other \in Quoted : IndicatorKey(t, other) \in DOMAIN fs =>
          /\ IsIndicatorOf(fs[IndicatorKey(t, other)].value, t, other)
          /\ InTime(fs[IndicatorKey(t, other)], SeriesTtl + MaxDelay, IndicatorTtl)
  <2> SUFFICES ASSUME NEW t \in Setups, NEW other \in Quoted, IndicatorKey(t, other) \in DOMAIN fs
               PROVE  /\ IsIndicatorOf(fs[IndicatorKey(t, other)].value, t, other)
                      /\ InTime(fs[IndicatorKey(t, other)], SeriesTtl + MaxDelay, IndicatorTtl)
    OBVIOUS
  <2>1. CASE IndicatorKey(t, other) = key
    <3>1. s.class = t.class /\ s.listed = t.listed /\ symbol = other
      BY <1>1, <2>1, KeysDiffer
    <3>2. IsIndicatorOf(value, t, other)
      BY <3>1 DEF IsIndicatorOf
    <3> QED
      BY <1>3, <1>4, <2>1, <3>2
  <2>2. CASE IndicatorKey(t, other) # key
    BY <1>3, <2>2 DEF EntriesFit
  <2> QED
    BY <2>1, <2>2
<1>8. EntriesFit(fs)
  BY <1>5, <1>6, <1>7 DEF EntriesFit
<1> QED
  BY <1>1, <1>2, <1>8

\* A series or an indicator that has grown older by a tick is still the one
\* it was.
LEMMA OlderIs ==
    /\ \A v, w : IsSeriesOf(v, w) => IsSeriesOf(Older(v), w) /\ Older(v).age <= v.age + 1
    /\ \A v, s, symbol : IsIndicatorOf(v, s, symbol) =>
           IsIndicatorOf(Older(v), s, symbol) /\ Older(v).age <= v.age + 1
<1>1. ASSUME NEW v, v.age \in Nat
      PROVE  \E n \in Nat : Older(v) = [v EXCEPT !.age = n] /\ n <= v.age + 1
  <2>1. PICK n : n = Min({v.age + 1, Oldest})
    OBVIOUS
  <2>2. n = IF v.age + 1 <= Oldest THEN v.age + 1 ELSE Oldest
    BY <1>1, <2>1, LesserOf, MarketTypes
  <2>3. n \in Nat /\ n <= v.age + 1
    BY <1>1, <2>2, MarketTypes
  <2> QED
    BY <2>1, <2>3 DEF Older
<1>2. ASSUME NEW v, NEW w, IsSeriesOf(v, w)
      PROVE  IsSeriesOf(Older(v), w) /\ Older(v).age <= v.age + 1
  <2>1. v \in Series /\ v.age \in Nat
    BY <1>2 DEF IsSeriesOf, Series
  <2>2. PICK n \in Nat : Older(v) = [v EXCEPT !.age = n] /\ n <= v.age + 1
    BY <1>1, <2>1
  <2>3. Older(v) \in Series /\ Older(v).age = n /\ Older(v).symbol = v.symbol /\ Older(v).verdict = v.verdict
    BY <2>1, <2>2 DEF Series
  <2> QED
    BY <1>2, <2>2, <2>3 DEF IsSeriesOf
<1>3. ASSUME NEW v, NEW s, NEW symbol, IsIndicatorOf(v, s, symbol)
      PROVE  IsIndicatorOf(Older(v), s, symbol) /\ Older(v).age <= v.age + 1
  <2>1. v \in Computed /\ v.age \in Nat
    BY <1>3 DEF IsIndicatorOf, Computed
  <2>2. PICK n \in Nat : Older(v) = [v EXCEPT !.age = n] /\ n <= v.age + 1
    BY <1>1, <2>1
  <2>3. Older(v) \in Computed /\ Older(v).age = n /\ Older(v).symbol = v.symbol /\ Older(v).setup = v.setup
    BY <2>1, <2>2 DEF Computed
  <2> QED
    BY <1>3, <2>2, <2>3 DEF IsIndicatorOf
<1> QED
  BY <1>2, <1>3

\* What is left of the expiry goes down as the age goes up.
Aging(e, f) ==
    /\ IsEntryRecord(f) /\ f.value = Older(e.value)
    /\ f.left >= 0 => f.left = e.left - 1

LEMMA TickOf ==
    ASSUME NEW e, IsEntryRecord(e),
           NEW f, f = [e EXCEPT !.left = Max({@ - 1, -1}), !.value = Older(@)]
    PROVE  Aging(e, f)
<1>1. PICK value, left, place : e = [value |-> value, left |-> left, place |-> place] /\ left \in Int
  BY DEF IsEntryRecord
<1>2. PICK older : older = Older(value)
  OBVIOUS
<1>3. PICK n : n = left - 1
  OBVIOUS
<1>4. n \in Int /\ -1 \in Int
  BY <1>1, <1>3
<1>5. PICK m : m = Max({n, -1})
  OBVIOUS
<1>6. m = IF n <= -1 THEN -1 ELSE n
  BY <1>4, <1>5, GreaterOf
<1>7. f = [e EXCEPT !.left = m, !.value = older]
  BY <1>1, <1>2, <1>3, <1>5
<1>8. f = [value |-> older, left |-> m, place |-> place]
  BY <1>1, <1>7
<1>9. m \in Int /\ (m >= 0 => m = left - 1)
  BY <1>1, <1>3, <1>4, <1>6
<1>10. f.value = older /\ f.left = m /\ f.place = place /\ e.value = value /\ e.left = left
  BY ONLY <1>1, <1>8
<1> QED
  BY ONLY <1>1, <1>2, <1>8, <1>9, <1>10 DEF Aging, IsEntryRecord

LEMMA TickFits ==
    ASSUME NEW es, EntriesFit(es), NEW fs, DOMAIN fs = DOMAIN es,
           \A k \in DOMAIN es : Aging(es[k], fs[k])
    PROVE  EntriesFit(fs)
<1>1. \A k \in DOMAIN es : IsEntryRecord(es[k])
  BY DEF EntriesFit
<1>2. \A k \in DOMAIN es : IsEntryRecord(fs[k]) /\ fs[k].value = Older(es[k].value)
  BY DEF Aging
<1>3. ASSUME NEW k \in DOMAIN es, NEW delay \in Nat, NEW ttl \in Nat, InTime(es[k], delay, ttl),
             es[k].value.age \in Nat, fs[k].value.age \in Nat, fs[k].value.age <= es[k].value.age + 1
      PROVE  InTime(fs[k], delay, ttl)
  <2>1. Aging(es[k], fs[k]) /\ es[k].left \in Int /\ fs[k].left \in Int
    BY <1>1, <1>2 DEF IsEntryRecord
  <2> QED
    BY <1>3, <2>1 DEF InTime, Aging
<1>4. \A w \in Wanted : SeriesKey(w) \in DOMAIN fs =>
          IsSeriesOf(fs[SeriesKey(w)].value, w) /\ InTime(fs[SeriesKey(w)], MaxDelay, SeriesTtl)
  <2> SUFFICES ASSUME NEW w \in Wanted, NEW k \in DOMAIN es, k = SeriesKey(w)
               PROVE  IsSeriesOf(fs[k].value, w) /\ InTime(fs[k], MaxDelay, SeriesTtl)
    OBVIOUS
  <2>1. IsSeriesOf(es[k].value, w) /\ InTime(es[k], MaxDelay, SeriesTtl)
    BY DEF EntriesFit
  <2>2. IsSeriesOf(fs[k].value, w) /\ fs[k].value.age <= es[k].value.age + 1
    BY <1>2, <2>1, OlderIs
  <2>3. es[k].value.age \in Nat /\ fs[k].value.age \in Nat
    BY <2>1, <2>2 DEF IsSeriesOf, Series
  <2> QED
    BY <1>3, <2>1, <2>2, <2>3, MarketTypes
<1>5. \A s \in Setups, symbol \in Quoted : IndicatorKey(s, symbol) \in DOMAIN fs =>
          /\ IsIndicatorOf(fs[IndicatorKey(s, symbol)].value, s, symbol)
          /\ InTime(fs[IndicatorKey(s, symbol)], SeriesTtl + MaxDelay, IndicatorTtl)
  <2> SUFFICES ASSUME NEW s \in Setups, NEW symbol \in Quoted, NEW k \in DOMAIN es, k = IndicatorKey(s, symbol)
               PROVE  /\ IsIndicatorOf(fs[k].value, s, symbol)
                      /\ InTime(fs[k], SeriesTtl + MaxDelay, IndicatorTtl)
    OBVIOUS
  <2>1. IsIndicatorOf(es[k].value, s, symbol) /\ InTime(es[k], SeriesTtl + MaxDelay, IndicatorTtl)
    BY DEF EntriesFit
  <2>2. IsIndicatorOf(fs[k].value, s, symbol) /\ fs[k].value.age <= es[k].value.age + 1
    BY <1>2, <2>1, OlderIs
  <2>3. es[k].value.age \in Nat /\ fs[k].value.age \in Nat
    BY <2>1, <2>2 DEF IsIndicatorOf, Computed
  <2>4. SeriesTtl + MaxDelay \in Nat /\ IndicatorTtl \in Nat
    BY MarketTypes
  <2> QED
    BY <1>3, <2>1, <2>2, <2>3, <2>4
<1> QED
  BY <1>2, <1>4, <1>5 DEF EntriesFit

\* The answers of one step.
LEMMA NothingGiven == ASSUME given' = NoAnswer PROVE AnswersFitTheQuestion'
  BY DEF AnswersFitTheQuestion

LEMMA SeriesGiven ==
    ASSUME NEW w \in Wanted, NEW v, IsSeriesOf(v, w), v.age <= SeriesTtl + MaxDelay, Answered(w, v)
    PROVE  AnswersFitTheQuestion'
<1>1. given'.question = w /\ given'.value = v
  BY DEF Answered
<1>2. "checks" \in DOMAIN w
  BY MarketTypes
<1>3. v.symbol = w.symbol /\ v.verdict # "reject" /\ (v.verdict = "none" => "none" \in Shared(w))
  BY DEF IsSeriesOf, Series, Verdicts
<1> QED
  BY <1>1, <1>2, <1>3 DEF AnswersFitTheQuestion

LEMMA IndicatorGiven ==
    ASSUME NEW s \in Setups, NEW symbol \in Quoted, NEW v, IsIndicatorOf(v, s, symbol),
           v.age <= SeriesTtl + MaxDelay + IndicatorTtl,
           NEW q, q = [symbol |-> symbol, setup |-> s], Answered(q, v)
    PROVE  AnswersFitTheQuestion'
<1>1. given'.question = q /\ given'.value = v
  BY DEF Answered
<1>2. "checks" \notin DOMAIN q /\ q.symbol = symbol /\ q.setup = s
  OBVIOUS
<1>3. v.symbol = symbol /\ v.setup \in Alike(s)
  BY DEF IsIndicatorOf, Computed, Alike
<1> QED
  BY <1>1, <1>2, <1>3 DEF AnswersFitTheQuestion

\* What is read from the cache has not expired.
LEMMA CachedFits ==
    ASSUME EntriesFit(entries)
    PROVE  /\ \A w \in Wanted : Cached(SeriesKey(w)) =>
                  /\ IsSeriesOf(entries[SeriesKey(w)].value, w)
                  /\ entries[SeriesKey(w)].value.age <= SeriesTtl + MaxDelay
           /\ \A s \in Setups, symbol \in Quoted : Cached(IndicatorKey(s, symbol)) =>
                  /\ IsIndicatorOf(entries[IndicatorKey(s, symbol)].value, s, symbol)
                  /\ entries[IndicatorKey(s, symbol)].value.age <= SeriesTtl + MaxDelay + IndicatorTtl
<1>1. \A k : Cached(k) => k \in DOMAIN entries /\ entries[k].left \in Int /\ entries[k].left >= 0
  BY DEF Cached, Alive, Expired, EntriesFit, IsEntryRecord
<1>2. ASSUME NEW w \in Wanted, NEW k, k = SeriesKey(w), Cached(k)
      PROVE  IsSeriesOf(entries[k].value, w) /\ entries[k].value.age <= SeriesTtl + MaxDelay
  <2>1. IsSeriesOf(entries[k].value, w) /\ InTime(entries[k], MaxDelay, SeriesTtl)
    BY <1>1, <1>2 DEF EntriesFit
  <2>2. entries[k].value.age \in Nat
    BY <2>1 DEF IsSeriesOf, Series
  <2> QED
    BY <1>1, <1>2, <2>1, <2>2, MarketTypes DEF InTime
<1>3. ASSUME NEW s \in Setups, NEW symbol \in Quoted, NEW k, k = IndicatorKey(s, symbol), Cached(k)
      PROVE  /\ IsIndicatorOf(entries[k].value, s, symbol)
             /\ entries[k].value.age <= SeriesTtl + MaxDelay + IndicatorTtl
  <2>1. IsIndicatorOf(entries[k].value, s, symbol) /\ InTime(entries[k], SeriesTtl + MaxDelay, IndicatorTtl)
    BY <1>1, <1>3 DEF EntriesFit
  <2>2. entries[k].value.age \in Nat
    BY <2>1 DEF IsIndicatorOf, Computed
  <2> QED
    BY <1>1, <1>3, <2>1, <2>2, MarketTypes DEF InTime
<1> QED
  BY <1>2, <1>3

\* A step of one caller leaves the calls of the others.
LEMMA OneCall ==
    ASSUME CacheInv, NEW c \in Callers, NEW call, CallFits(call), calls' = [calls EXCEPT ![c] = call]
    PROVE  DOMAIN calls' = Callers /\ calls' = [x \in Callers |-> calls'[x]] /\ \A x \in Callers : CallFits(calls'[x])
  BY DEF CacheInv

LEMMA CallShapes ==
    /\ Idle.at = "idle"
    /\ \A call \in AskedCalls : call.at = "asked"
    /\ \A call \in AnsweredCalls : call.at = "answered"
    /\ \A call \in HoldingCalls : call.at = "holding"
  BY DEF Idle, AskedCalls, AnsweredCalls, HoldingCalls

LEMMA CacheInitial == CacheInit => CacheInv
  BY DEF CacheInit, CacheInv, EntriesFit, CallFits, AnswersFitTheQuestion

LEMMA GetStep == ASSUME CacheInv, NEW c \in Callers, NEW w \in Wanted, GetOhlcv(c, w) PROVE CacheInv'
<1>1. EntriesFit(entries) /\ EntriesFit(entries')
  BY GetFits DEF CacheInv, GetOhlcv
<1>2. CASE Cached(SeriesKey(w))
  <2>1. PICK v : v = entries[SeriesKey(w)].value
    OBVIOUS
  <2>2. IsSeriesOf(v, w) /\ v.age <= SeriesTtl + MaxDelay
    BY <1>1, <1>2, <2>1, CachedFits
  <2>3. calls' = [calls EXCEPT ![c] = Holding(w, v)] /\ Answered(w, v)
    BY <1>2, <2>1 DEF GetOhlcv
  <2>4. CallFits(Holding(w, v))
    BY <2>2 DEF CallFits, Holding, HoldingCalls, IsSeriesOf
  <2>5. AnswersFitTheQuestion'
    BY <2>2, <2>3, SeriesGiven
  <2> QED
    BY <1>1, <2>3, <2>4, <2>5, OneCall DEF CacheInv
<1>3. CASE ~Cached(SeriesKey(w))
  <2>1. PICK call : call = [at |-> "asked", wanted |-> w, waited |-> 0]
    OBVIOUS
  <2>2. CallFits(call)
    BY <2>1, MarketTypes DEF CallFits, AskedCalls
  <2>3. calls' = [calls EXCEPT ![c] = call] /\ given' = NoAnswer
    BY <1>3, <2>1 DEF GetOhlcv
  <2> QED
    BY <1>1, <2>2, <2>3, OneCall, NothingGiven DEF CacheInv
<1> QED
  BY <1>2, <1>3

LEMMA AnswerStep == ASSUME CacheInv, NEW c \in Callers, ExchangeAnswers(c) PROVE CacheInv'
<1>1. calls[c] \in AskedCalls
  BY CallShapes DEF CacheInv, CallFits, ExchangeAnswers
<1>2. PICK w, n : w = calls[c].wanted /\ n = calls[c].waited
  OBVIOUS
<1>3. w \in Wanted /\ n \in 0..MaxDelay
  BY <1>1, <1>2 DEF AskedCalls
<1>4. PICK q \in Qualities : calls' = [calls EXCEPT ![c] =
        [at |-> "answered", wanted |-> w, waited |-> n,
         value |-> [symbol |-> w.symbol, age |-> 0, verdict |-> Verdict(q, w.checks)]]]
  BY <1>2 DEF ExchangeAnswers, CacheInv
<1>5. PICK verdict : verdict = Verdict(q, w.checks)
  OBVIOUS
<1>6. /\ verdict \in Verdicts \cup {"reject"}
      /\ w.checks # "none" => verdict # "none"
  BY <1>5 DEF Verdict, Verdicts
<1>7. PICK call : call = [at |-> "answered", wanted |-> w, waited |-> n,
                          value |-> [symbol |-> w.symbol, age |-> 0, verdict |-> verdict]]
  OBVIOUS
<1>8. CallFits(call)
  BY <1>3, <1>6, <1>7, MarketTypes DEF CallFits, AnsweredCalls
<1>9. calls' = [calls EXCEPT ![c] = call] /\ given' = NoAnswer /\ entries' = entries
  BY <1>4, <1>5, <1>7 DEF ExchangeAnswers
<1> QED
  BY <1>8, <1>9, OneCall, NothingGiven DEF CacheInv

LEMMA EndStep == ASSUME CacheInv, NEW c \in Callers, RequestFails(c) \/ Leave(c) PROVE CacheInv'
<1>1. calls' = [calls EXCEPT ![c] = Idle] /\ given' = NoAnswer /\ entries' = entries
  BY DEF RequestFails, Leave
<1>2. CallFits(Idle)
  BY DEF CallFits
<1> QED
  BY <1>1, <1>2, OneCall, NothingGiven DEF CacheInv

LEMMA FetchStep == ASSUME CacheInv, NEW c \in Callers, FetchAndValidate(c) PROVE CacheInv'
<1>1. /\ calls[c] \in AnsweredCalls
      /\ calls[c].value.symbol = calls[c].wanted.symbol /\ calls[c].value.age <= calls[c].waited
      /\ calls[c].wanted.checks # "none" => calls[c].value.verdict # "none"
  BY CallShapes DEF CacheInv, CallFits, FetchAndValidate
<1>2. PICK w, v : w = calls[c].wanted /\ v = calls[c].value
  OBVIOUS
<1>3. w \in Wanted /\ v \in [symbol : Quoted, age : Nat, verdict : Verdicts \cup {"reject"}]
      /\ v.symbol = w.symbol /\ v.age <= MaxDelay /\ (w.checks # "none" => v.verdict # "none")
  BY <1>1, <1>2, MarketTypes DEF AnsweredCalls
<1>4. CASE v.verdict = "reject"
  <2>1. calls' = [calls EXCEPT ![c] = Idle] /\ given' = NoAnswer /\ entries' = entries
    BY <1>2, <1>4 DEF FetchAndValidate
  <2>2. CallFits(Idle)
    BY DEF CallFits
  <2> QED
    BY <2>1, <2>2, OneCall, NothingGiven DEF CacheInv
<1>5. CASE v.verdict # "reject"
  <2>1. /\ entries' = AfterSet(entries, SeriesKey(w), v, SeriesTtl)
        /\ calls' = [calls EXCEPT ![c] = Holding(w, v)]
        /\ Answered(w, v)
    BY <1>2, <1>5 DEF FetchAndValidate
  <2>2. w.checks \in Shared(w)
    BY <1>3 DEF Shared
  <2>3. v \in Series
    BY <1>3, <1>5 DEF Series
  <2>4. IsSeriesOf(v, w)
    BY <1>3, <2>2, <2>3 DEF IsSeriesOf
  <2>5. EntriesFit(entries')
    BY <1>3, <2>1, <2>4, SeriesSet DEF CacheInv
  <2>6. v.age <= SeriesTtl + MaxDelay
    BY <1>3, MarketTypes
  <2>7. CallFits(Holding(w, v))
    BY <1>3, <2>3, <2>6 DEF CallFits, Holding, HoldingCalls
  <2>8. AnswersFitTheQuestion'
    BY <1>3, <2>1, <2>4, <2>6, SeriesGiven
  <2> QED
    BY <2>1, <2>5, <2>7, <2>8, OneCall DEF CacheInv
<1> QED
  BY <1>4, <1>5

LEMMA CalculateStep ==
    ASSUME CacheInv, NEW c \in Callers, NEW s \in Setups, Calculate(c, s) PROVE CacheInv'
<1>1. calls[c] \in HoldingCalls /\ calls[c].value.age <= SeriesTtl + MaxDelay
  BY CallShapes DEF CacheInv, CallFits, Calculate
<1>2. PICK v : v = calls[c].value
  OBVIOUS
<1>3. v \in Series /\ v.symbol \in Quoted /\ v.age \in Nat /\ v.age <= SeriesTtl + MaxDelay
  BY <1>1, <1>2 DEF HoldingCalls, Series
<1>4. PICK key, q, computed : /\ key = IndicatorKey(s, v.symbol)
                              /\ q = [symbol |-> v.symbol, setup |-> s]
                              /\ computed = [symbol |-> v.symbol, age |-> v.age, setup |-> s]
  OBVIOUS
<1>5. /\ IF Cached(key) THEN Answered(q, entries[key].value) /\ UNCHANGED entries
         ELSE /\ entries' = AfterSet(AfterGet(key), key, computed, IndicatorTtl)
              /\ Answered(q, computed)
      /\ calls' = [calls EXCEPT ![c] = Idle]
  BY <1>2, <1>4 DEF Calculate
<1>6. IsIndicatorOf(computed, s, v.symbol) /\ computed.age <= SeriesTtl + MaxDelay
      /\ computed.age <= SeriesTtl + MaxDelay + IndicatorTtl
  BY <1>3, <1>4, MarketTypes DEF IsIndicatorOf, Computed
<1>7. EntriesFit(entries)
  BY DEF CacheInv
<1>8. EntriesFit(entries') /\ AnswersFitTheQuestion'
  <2>1. CASE Cached(key)
    <3>1. PICK x : x = entries[key].value
      OBVIOUS
    <3>2. IsIndicatorOf(x, s, v.symbol) /\ x.age <= SeriesTtl + MaxDelay + IndicatorTtl
      BY <1>3, <1>4, <1>7, <2>1, <3>1, CachedFits
    <3>3. Answered(q, x) /\ entries' = entries
      BY <1>5, <2>1, <3>1
    <3> QED
      BY <1>3, <1>4, <1>7, <3>2, <3>3, IndicatorGiven
  <2>2. CASE ~Cached(key)
    <3>1. EntriesFit(AfterGet(key))
      BY <1>7, GetFits
    <3>2. PICK es : es = AfterGet(key)
      OBVIOUS
    <3>3. entries' = AfterSet(es, key, computed, IndicatorTtl) /\ Answered(q, computed)
      BY <1>5, <2>2, <3>2
    <3>4. EntriesFit(entries')
      BY <1>3, <1>4, <1>6, <3>1, <3>2, <3>3, IndicatorSet
    <3> QED
      BY <1>3, <1>4, <1>6, <3>3, <3>4, IndicatorGiven
  <2> QED
    BY <2>1, <2>2
<1>9. CallFits(Idle)
  BY DEF CallFits
<1> QED
  BY <1>5, <1>8, <1>9, OneCall DEF CacheInv

LEMMA TakeStep ==
    ASSUME CacheInv, given' = NoAnswer, UNCHANGED calls, NEW keys, keys \subseteq DOMAIN entries,
           entries' = Only(entries, keys)
    PROVE  CacheInv'
  BY OnlyFit, NothingGiven DEF CacheInv

LEMMA ClearStep == ASSUME CacheInv, ClearCache PROVE CacheInv'
<1>1. EntriesFit(entries')
  BY DEF ClearCache, EntriesFit
<1> QED
  BY <1>1, NothingGiven DEF CacheInv, ClearCache

LEMMA TimeStep == ASSUME CacheInv, CacheTick PROVE CacheInv'
<1>1. \A k \in DOMAIN entries : Aging(entries[k], entries'[k])
  BY TickOf DEF CacheInv, EntriesFit, CacheTick
<1>2. DOMAIN entries' = DOMAIN entries
  BY DEF CacheTick
<1>3. EntriesFit(entries')
  BY <1>1, <1>2, TickFits DEF CacheInv
<1>4. ASSUME NEW c \in Callers PROVE CallFits(Waiting(calls[c]))
  <2>1. CallFits(calls[c]) /\ calls[c].at # "holding" /\ (calls[c] # Idle => calls[c].waited < MaxDelay)
    BY DEF CacheInv, CacheTick
  <2>2. CASE calls[c] = Idle
    BY <2>2, CallShapes DEF Waiting, CallFits
  <2>3. CASE calls[c] \in AskedCalls
    <3>1. Waiting(calls[c]) = [calls[c] EXCEPT !.waited = @ + 1]
      BY <2>3, CallShapes DEF Waiting
    <3>2. calls[c].waited \in 0..MaxDelay /\ calls[c].waited < MaxDelay
      BY <2>1, <2>3, CallShapes DEF AskedCalls
    <3>3. calls[c].waited + 1 \in 0..MaxDelay
      BY <3>2, MarketTypes
    <3>4. Waiting(calls[c]) \in AskedCalls
      BY <2>3, <3>1, <3>3 DEF AskedCalls
    <3> QED
      BY <3>4 DEF CallFits
  <2>4. CASE /\ calls[c] \in AnsweredCalls
             /\ calls[c].value.symbol = calls[c].wanted.symbol /\ calls[c].value.age <= calls[c].waited
             /\ calls[c].wanted.checks # "none" => calls[c].value.verdict # "none"
    <3>1. PICK w, n, v : w = calls[c].wanted /\ n = calls[c].waited /\ v = calls[c].value
      OBVIOUS
    <3>2. /\ w \in Wanted /\ n \in 0..MaxDelay /\ n < MaxDelay
          /\ v \in [symbol : Quoted, age : Nat, verdict : Verdicts \cup {"reject"}]
          /\ calls[c] = [at |-> "answered", wanted |-> w, waited |-> n, value |-> v]
      BY <2>1, <2>4, <3>1, CallShapes DEF AnsweredCalls
    <3>3. PICK a : a = Min({v.age + 1, Oldest})
      OBVIOUS
    <3>4. a = IF v.age + 1 <= Oldest THEN v.age + 1 ELSE Oldest
      BY <3>2, <3>3, LesserOf, MarketTypes
    <3>5. a \in Nat /\ a <= n + 1 /\ n + 1 \in 0..MaxDelay
      BY <2>4, <3>1, <3>2, <3>4, MarketTypes
    <3>6. Waiting(calls[c]) = [calls[c] EXCEPT !.waited = @ + 1, !.value = Older(@)]
      BY <2>4, CallShapes DEF Waiting
    <3>7. PICK older : older = Older(v)
      OBVIOUS
    <3>8. older = [v EXCEPT !.age = a]
      BY <3>3, <3>7 DEF Older
    <3>9. /\ older \in [symbol : Quoted, age : Nat, verdict : Verdicts \cup {"reject"}]
          /\ older.symbol = v.symbol /\ older.age = a /\ older.verdict = v.verdict
      BY <3>2, <3>5, <3>8
    <3>10. PICK m, call : m = n + 1 /\ call = calls[c]
      OBVIOUS
    <3>11. Waiting(calls[c]) = [call EXCEPT !.waited = m, !.value = older]
      BY <3>1, <3>6, <3>7, <3>10
    <3>12. call = [at |-> "answered", wanted |-> w, waited |-> n, value |-> v]
      BY <3>2, <3>10
    <3>13. Waiting(calls[c]) = [at |-> "answered", wanted |-> w, waited |-> m, value |-> older]
      BY ONLY <3>11, <3>12
    <3> QED
      BY <2>4, <3>1, <3>2, <3>5, <3>9, <3>10, <3>13 DEF CallFits, AnsweredCalls
  <2> QED
    BY <2>1, <2>2, <2>3, <2>4, CallShapes DEF CallFits
<1>5. calls' = [c \in Callers |-> Waiting(calls[c])] /\ given' = NoAnswer
  BY DEF CacheTick
<1> QED
  BY <1>3, <1>4, <1>5, NothingGiven DEF CacheInv

LEMMA CacheStep == CacheInv /\ [CacheNext]_cacheVars => CacheInv'
<1> SUFFICES ASSUME CacheInv, [CacheNext]_cacheVars PROVE CacheInv'
  OBVIOUS
<1>1. CASE \E c \in Callers, w \in Wanted : GetOhlcv(c, w)
  BY <1>1, GetStep
<1>2. CASE \E c \in Callers : ExchangeAnswers(c) \/ RequestFails(c) \/ FetchAndValidate(c) \/ Leave(c)
  BY <1>2, AnswerStep, EndStep, FetchStep
<1>3. CASE \E c \in Callers, s \in Setups : Calculate(c, s)
  BY <1>3, CalculateStep
<1>4. CASE \E s \in Setups, w \in Wanted : InvalidateCache(s, w.symbol)
  <2>1. PICK key : entries' = Only(entries, DOMAIN entries \ {key}) /\ given' = NoAnswer /\ UNCHANGED calls
    BY <1>4 DEF InvalidateCache, Removed
  <2>2. DOMAIN entries \ {key} \subseteq DOMAIN entries
    OBVIOUS
  <2> QED
    BY <2>1, <2>2, TakeStep
<1>5. CASE CleanupExpired
  <2>1. Alive(entries) \subseteq DOMAIN entries
    BY DEF Alive
  <2> QED
    BY <1>5, <2>1, TakeStep DEF CleanupExpired
<1>6. CASE ClearCache
  BY <1>6, ClearStep
<1>7. CASE CacheTick
  BY <1>7, TimeStep
<1>8. CASE UNCHANGED cacheVars
  BY <1>8 DEF cacheVars, CacheInv, AnswersFitTheQuestion
<1> QED
  BY <1>1, <1>2, <1>3, <1>4, <1>5, <1>6, <1>7, <1>8 DEF CacheNext

(***************************************************************************)
(* The history: what has been fetched is what can be parsed of the candles *)
(* up to the cursor.                                                       *)
(***************************************************************************)
Wants == {k \in listed \ malformed : k <= end}

HistInv ==
    /\ listed \subseteq 1..MaxCandle /\ end \in Nat /\ last \in Nat /\ pages \in Nat
    /\ fetch = "running" => history = {k \in Wants : k <= last}
    /\ HistoryIsComplete

LEMMA AskedTypes ==
    ASSUME listed \subseteq 1..MaxCandle, NEW S, S \subseteq listed
    PROVE  S \subseteq Nat /\ IsFiniteSet(S) /\ Cardinality(S) \in Nat
<1>1. 1 \in Int /\ MaxCandle \in Nat
  BY MarketAssumption
<1>2. IsFiniteSet(1..MaxCandle) /\ 1..MaxCandle \subseteq Nat
  BY <1>1, FS_Interval
<1>3. IsFiniteSet(S)
  BY <1>2, FS_Subset
<1> QED
  BY <1>2, <1>3, FS_CardinalityType

\* A page is a beginning of what is asked for ...
LEMMA PageBegins ==
    ASSUME listed \subseteq 1..MaxCandle, NEW k \in Klines, NEW j \in Asked, j <= k
    PROVE  j \in Klines
<1> DEFINE Before(i) == {x \in Asked : x < i}
<1>1. PICK A, B : A = Before(j) /\ B = Before(k)
  OBVIOUS
<1>2. Asked \subseteq listed
  BY DEF Asked
<1>3. A \subseteq listed /\ B \subseteq listed
  BY <1>1, <1>2
<1>4. Asked \subseteq Nat /\ j \in Nat /\ k \in Nat
  BY <1>2, AskedTypes DEF Klines
<1>5. A \subseteq B
  <2> SUFFICES ASSUME NEW x \in A PROVE x \in B
    OBVIOUS
  <2>1. x \in Asked /\ x < j /\ x \in Nat
    BY <1>1, <1>4
  <2>2. x < k
    BY <1>4, <2>1
  <2> QED
    BY <1>1, <2>1, <2>2
<1>6. IsFiniteSet(B) /\ Cardinality(A) \in Nat /\ Cardinality(B) \in Nat
  BY <1>3, AskedTypes
<1>7. Cardinality(A) <= Cardinality(B)
  BY <1>5, <1>6, FS_Subset
<1>8. Cardinality(B) < PageSize /\ PageSize \in Nat
  BY <1>1, MarketAssumption DEF Klines
<1>9. Cardinality(A) < PageSize
  BY <1>6, <1>7, <1>8
<1> QED
  BY <1>1, <1>9 DEF Klines

\* ... and all of it when it is not full.
LEMMA ShortPageIsAll ==
    ASSUME listed \subseteq 1..MaxCandle, ShortPage(Klines)
    PROVE  Klines = Asked
<1> DEFINE Missing == Asked \ Klines
           Before(i) == {x \in Asked : x < i}
<1>1. Klines \subseteq Asked /\ Asked \subseteq listed
  BY DEF Klines, Asked
<1>2. Asked \subseteq Nat
  BY <1>1, AskedTypes
<1>3. ASSUME Missing # {} PROVE FALSE
  <2>1. Missing \subseteq Nat
    BY <1>2
  <2>2. PICK m \in Missing : \A n \in Missing : m <= n
    <3> HIDE DEF Missing
    <3> QED
      BY <1>3, <2>1, LeastNatural
  <2>3. PICK B : B = Before(m)
    OBVIOUS
  <2>4. B \subseteq Klines
    BY <1>2, <2>1, <2>2, <2>3
  <2>5. B \subseteq listed /\ Klines \subseteq listed
    BY <1>1, <2>4
  <2>6. IsFiniteSet(Klines) /\ Cardinality(B) \in Nat /\ Cardinality(Klines) \in Nat
    BY <2>5, AskedTypes
  <2>7. Cardinality(B) <= Cardinality(Klines)
    BY <2>4, <2>6, FS_Subset
  <2>8. Cardinality(Klines) < PageSize /\ PageSize \in Nat
    BY MarketAssumption DEF ShortPage
  <2>9. Cardinality(B) < PageSize
    BY <2>6, <2>7, <2>8
  <2> QED
    BY <2>2, <2>3, <2>9 DEF Klines
<1> QED
  BY <1>1, <1>3

LEMMA HistInitial == HistInit => HistInv
<1> SUFFICES ASSUME HistInit PROVE HistInv
  OBVIOUS
<1>1. listed \subseteq 1..MaxCandle /\ end \in Nat
  BY MarketAssumption DEF HistInit
<1>2. \A k \in Wants : k \in Nat /\ k > 0
  BY <1>1, MarketAssumption DEF Wants
<1> QED
  BY <1>1, <1>2 DEF HistInit, HistInv, HistoryIsComplete

LEMMA CompleteIs ==
    HistoryIsComplete <=>
        (fetch = "done" => /\ history \subseteq Wants
                           /\ \A k \in Wants \ history : pages >= MaxPages /\ \A h \in history : h < k)
  BY DEF HistoryIsComplete, Wants

\* Reading a page takes the history up to its last candle.
LEMMA PageStep ==
    ASSUME HistInv, FetchPage, NextPage, NEW batch, batch = ParseKlines(Klines), batch # {}
    PROVE  /\ last' \in batch /\ last' \in Nat
           /\ history' = {k \in Wants : k <= last'}
           /\ fetch' = "done" => history' = Wants
<1>1. /\ listed \subseteq 1..MaxCandle /\ end \in Nat /\ last \in Nat
      /\ history = {k \in Wants : k <= last}
  BY DEF HistInv, FetchPage
<1>2. /\ history' = history \cup batch /\ last' = Max(batch)
      /\ fetch' = IF ShortPage(Klines) THEN "done" ELSE "running"
  BY DEF NextPage, ParseKlines
<1>3. Asked \subseteq listed /\ Klines \subseteq Asked
  BY DEF Asked, Klines
<1>4. Asked \subseteq Nat /\ listed \subseteq Nat
  BY <1>1, <1>3, AskedTypes
<1>5. batch = Klines \ malformed
  BY DEF ParseKlines
<1>6. batch \subseteq Nat /\ IsFiniteSet(batch)
  BY <1>1, <1>3, <1>5, AskedTypes
<1>7. PICK n \in batch : \A m \in batch : m <= n
  BY <1>6, FiniteGreatest
<1>8. last' = n /\ n \in Nat
  BY <1>2, <1>6, <1>7, GreatestIs
<1>9. \A k \in Wants : k > last => k \in Asked
  BY <1>4 DEF Wants, Asked
<1>10. batch \subseteq Wants /\ \A k \in batch : k > last
  BY <1>3, <1>5 DEF Wants, Asked
<1>11. \A k \in Wants : k \in Nat
  BY <1>4 DEF Wants
<1>12. history' = {k \in Wants : k <= n}
  <2>1. ASSUME NEW k \in Wants, k <= n, k \notin history PROVE k \in batch
    <3>1. k \in Asked /\ k \notin malformed
      BY <1>1, <1>9, <1>11, <2>1 DEF Wants
    <3>2. k \in Klines
      BY <1>1, <1>5, <1>7, <2>1, <3>1, PageBegins
    <3> QED
      BY <1>5, <3>1, <3>2
  <2>2. \A k \in history : k \in Wants /\ k <= n
    BY <1>1, <1>7, <1>8, <1>10, <1>11
  <2>3. \A k \in batch : k \in Wants /\ k <= n
    BY <1>7, <1>10
  <2> QED
    BY <1>2, <2>1, <2>2, <2>3
<1>13. ASSUME fetch' = "done" PROVE history' = Wants
  <2>1. ShortPage(Klines)
    BY <1>2, <1>13
  <2>2. Klines = Asked
    BY <1>1, <2>1, ShortPageIsAll
  <2>3. ASSUME NEW k \in Wants, k > last PROVE k \in batch
    BY <1>5, <1>9, <2>2, <2>3 DEF Wants
  <2> QED
    BY <1>1, <1>2, <1>10, <1>11, <2>3
<1> QED
  BY <1>7, <1>8, <1>12, <1>13

LEMMA HistStep == HistInv /\ [HistNext]_histVars => HistInv'
<1> SUFFICES ASSUME HistInv, [HistNext]_histVars PROVE HistInv'
  OBVIOUS
<1>types. /\ listed \subseteq 1..MaxCandle /\ end \in Nat /\ last \in Nat
          /\ pages \in Nat /\ MaxPages \in Nat
  BY MarketAssumption DEF HistInv
<1>wants. \A k \in Wants : k \in Nat /\ k <= end /\ k \in listed /\ k \notin malformed
  BY <1>types, AskedTypes DEF Wants
<1>1. CASE UNCHANGED histVars
  BY <1>1 DEF histVars, HistInv, HistoryIsComplete, Wants
<1>2. CASE PageFails
  BY <1>2 DEF PageFails, HistInv, HistoryIsComplete
<1>3. CASE FetchPage
  <2>1. Wants' = Wants /\ listed' = listed /\ end' = end
    BY <1>3 DEF FetchPage, Wants
  <2>2. history = {k \in Wants : k <= last}
    BY <1>3 DEF FetchPage, HistInv
  <2>pages. pages' \in Nat
    BY <1>types, <1>3 DEF FetchPage, WhileEnds, NextPage
  <2>3. CASE WhileEnds
    <3>1. history' = history /\ pages' = pages /\ last' = last /\ fetch' = "done"
      BY <2>3 DEF WhileEnds
    <3>2. \A k \in Wants \ history : pages >= MaxPages /\ \A h \in history : h < k
      <4> SUFFICES ASSUME NEW k \in Wants \ history PROVE pages >= MaxPages /\ \A h \in history : h < k
        OBVIOUS
      <4>1. k > last
        BY <1>types, <1>wants, <2>2
      <4>2. last < end
        BY <1>types, <1>wants, <4>1
      <4>3. ~(pages < MaxPages)
        BY <2>3, <4>2 DEF WhileEnds
      <4> QED
        BY <1>types, <1>wants, <2>2, <4>1, <4>3
    <3>3. HistoryIsComplete'
      BY <2>1, <2>2, <3>1, <3>2 DEF HistoryIsComplete, Wants
    <3> QED
      BY <1>types, <2>1, <2>pages, <3>1, <3>3 DEF HistInv
  <2>4. CASE NextPage /\ Klines = {}
    <3>1. ParseKlines(Klines) = {}
      BY <2>4 DEF ParseKlines
    <3>2. history' = history /\ last' = last /\ fetch' = "done"
      BY <2>4, <3>1 DEF NextPage
    <3>3. Cardinality({}) = 0
      BY FS_EmptySet
    <3>4. ShortPage(Klines)
      BY <2>4, <3>3, MarketAssumption DEF ShortPage
    <3>5. Asked = {}
      BY <1>types, <2>4, <3>4, ShortPageIsAll
    <3>6. Wants = history
      BY <1>types, <1>wants, <2>2, <3>5 DEF Asked
    <3>7. HistoryIsComplete'
      BY <2>1, <3>2, <3>6 DEF HistoryIsComplete, Wants
    <3> QED
      BY <1>types, <2>1, <2>pages, <3>2, <3>7 DEF HistInv
  <2>5. CASE NextPage /\ Klines # {} /\ ParseKlines(Klines) = {}
    <3>1. history' = history /\ last' = last /\ fetch' = "failed"
      BY <2>5 DEF NextPage
    <3> QED
      BY <1>types, <2>1, <2>pages, <3>1 DEF HistInv, HistoryIsComplete
  <2>6. CASE NextPage /\ ParseKlines(Klines) # {}
    <3>1. PICK batch : batch = ParseKlines(Klines)
      OBVIOUS
    <3>2. /\ last' \in Nat
          /\ history' = {k \in Wants : k <= last'}
          /\ fetch' = "done" => history' = Wants
      BY <1>3, <2>6, <3>1, PageStep
    <3>3. HistoryIsComplete'
      BY <2>1, <3>2 DEF HistoryIsComplete, Wants
    <3> QED
      BY <1>types, <2>1, <2>pages, <3>2, <3>3 DEF HistInv
  <2> QED
    BY <1>3, <2>3, <2>4, <2>5, <2>6 DEF FetchPage
<1> QED
  BY <1>1, <1>2, <1>3 DEF HistNext

\* What a caller is given, and what a fetch that does not warn ends with, is
\* what was asked for, for any callers, series, indicators, expiries and
\* sizes of the cache, and any number and length of the exchange's pages.
THEOREM DataIsAsked ==
    CacheInit /\ [][CacheNext]_cacheVars /\ HistInit /\ [][HistNext]_histVars => []DataIsWhatWasAsked
<1>1. CacheInv /\ HistInv => DataIsWhatWasAsked
  BY DEF CacheInv, HistInv, DataIsWhatWasAsked
<1> QED
  BY <1>1, CacheInitial, CacheStep, HistInitial, HistStep, PTL
=============================================================================
