----------------------------- MODULE MarketData -----------------------------
(***************************************************************************)
(* Candles on their way to those who decide on them (src/src/data): the      *)
(* cache with its expiry and its limit, the service that fetches and       *)
(* validates a series through it, the indicators that are computed through *)
(* the same cache, and the history that is put together page by page.      *)
(* Time passes in ticks; what the code stores as a time is kept here as    *)
(* the ticks since then, or until then.                                    *)
(***************************************************************************)
EXTENDS Integers, FiniteSets, FiniteSetsExt

CONSTANTS Callers,
          Wanted,        \* the series asked for: symbol and checks, a set of records
                         \* ("gaps" without check_freshness, "none" without validate)
          Setups,        \* indicators: class, listed parameters and the rest
          SeriesTtl, IndicatorTtl,
          MaxSize,       \* max_size of the cache
          MaxDelay,      \* the longest a request lasts
          MaxCandle, PageSize, MaxPages

ASSUME MarketAssumption ==
    /\ Wanted \subseteq [symbol : {w.symbol : w \in Wanted}, checks : {"all", "gaps", "none"}]
    /\ {SeriesTtl, IndicatorTtl, PageSize} \subseteq Nat \ {0}
    /\ {MaxDelay, MaxCandle, MaxPages} \subseteq Nat

VARIABLES
    entries,      \* InMemoryCache._cache: by key, with its place in the order
                  \* of insertion
    calls,        \* calls[c]: what a caller waits for, or holds
    given           \* the answer this step has given, if it has
cacheVars == <<entries, calls, given>>

Idle == [at |-> "idle"]
NoAnswer == [question |-> Idle, value |-> Idle]

CacheInit ==
    /\ entries = [k \in {} |-> Idle]
    /\ calls = [c \in Callers |-> Idle]
    /\ given = NoAnswer

(***************************************************************************)
(* InMemoryCache.                                                          *)
(***************************************************************************)
(* A bug of Expired: entries are never too old to be read.                 *)
ExpiredNever(e) == FALSE
Expired(e) == e.left < 0

Alive(es) == {k \in DOMAIN es : ~Expired(es[k])}
Cached(key) == key \in Alive(entries)

(* The dict without some of its keys: the others keep their order.         *)
Only(es, keys) ==
    [k \in keys |-> [es[k] EXCEPT !.place = Cardinality({j \in keys : es[j].place <= es[k].place})]]
Removed(es, key) == Only(es, DOMAIN es \ {key})
(* A get removes the entry it finds expired.                               *)
AfterGet(key) == IF Cached(key) THEN entries ELSE Removed(entries, key)

(* What has expired makes room; the oldest entry does when that is not     *)
(* enough.                                                                 *)
Evicted(es) ==
    IF MaxSize = 0 \/ Cardinality(DOMAIN es) < MaxSize THEN es
    ELSE IF Cardinality(Alive(es)) < MaxSize THEN Only(es, Alive(es))
    ELSE Only(es, {k \in Alive(es) : \E j \in Alive(es) : es[j].place < es[k].place})

(* An entry that exists is replaced where it is, a new one goes last.      *)
AfterSet(es, key, value, ttl) ==
    LET kept == IF key \in DOMAIN es THEN es ELSE Evicted(es)
        place == IF key \in DOMAIN es THEN es[key].place ELSE Cardinality(DOMAIN kept) + 1
    IN [k \in DOMAIN kept \cup {key} |->
          IF k = key THEN [value |-> value, left |-> ttl, place |-> place] ELSE kept[k]]

CleanupExpired == entries' = Only(entries, Alive(entries)) /\ given' = NoAnswer /\ UNCHANGED calls

ClearCache == entries' = [k \in {} |-> Idle] /\ given' = NoAnswer /\ UNCHANGED calls

(***************************************************************************)
(* MarketDataService.get_ohlcv.                                            *)
(***************************************************************************)
SeriesKey(w) == <<"ohlcv", w.symbol>>

(* validate_ohlcv_series: a gap is answered before the other issues are.   *)
Verdict(q, checks) ==
    IF checks = "none" THEN "none"
    ELSE IF q.gap >= 3 THEN "pause"
    ELSE IF q.gap > 0 THEN "interpolate"
    ELSE IF q.stale /\ checks = "all" THEN "reject"
    ELSE "use"

Qualities == [gap : {0, 1, 3}, stale : BOOLEAN]

Holding(w, value) == [at |-> "holding", wanted |-> w, value |-> value]
Answered(question, value) == given' = [question |-> question, value |-> value]

GetOhlcv(c, w) ==
    /\ calls[c] = Idle
    /\ entries' = AfterGet(SeriesKey(w))
    /\ IF Cached(SeriesKey(w))
       THEN /\ calls' = [calls EXCEPT ![c] = Holding(w, entries[SeriesKey(w)].value)]
            /\ Answered(w, entries[SeriesKey(w)].value)
       ELSE /\ calls' = [calls EXCEPT ![c] = [at |-> "asked", wanted |-> w, waited |-> 0]]
            /\ given' = NoAnswer

ExchangeAnswers(c) ==
    /\ calls[c].at = "asked"
    /\ \E q \in Qualities :
          calls' = [calls EXCEPT ![c] =
              [at |-> "answered", wanted |-> @.wanted, waited |-> @.waited,
               value |-> [symbol |-> @.wanted.symbol, age |-> 0, verdict |-> Verdict(q, @.wanted.checks)]]]
    /\ given' = NoAnswer /\ UNCHANGED entries

RequestFails(c) ==
    /\ calls[c].at \in {"asked", "answered"}
    /\ calls' = [calls EXCEPT ![c] = Idle]
    /\ given' = NoAnswer /\ UNCHANGED entries

(* The validated series is stored over whatever is stored meanwhile.       *)
FetchAndValidate(c) ==
    /\ calls[c].at = "answered"
    /\ LET w == calls[c].wanted
           value == calls[c].value
       IN IF value.verdict = "reject"
          THEN calls' = [calls EXCEPT ![c] = Idle] /\ given' = NoAnswer /\ UNCHANGED entries
          ELSE /\ entries' = AfterSet(entries, SeriesKey(w), value, SeriesTtl)
               /\ calls' = [calls EXCEPT ![c] = Holding(w, value)]
               /\ Answered(w, value)

(***************************************************************************)
(* CachedIndicatorCalculator: the series is not part of the key, nor are   *)
(* the parameters that are not on its list.                                *)
(***************************************************************************)
IndicatorKey(setup, symbol) == <<"indicator", setup.class, symbol, setup.listed>>

Calculate(c, setup) ==
    /\ calls[c].at = "holding"
    /\ LET series == calls[c].value
           key == IndicatorKey(setup, series.symbol)
           computed == [symbol |-> series.symbol, age |-> series.age, setup |-> setup]
           question == [symbol |-> series.symbol, setup |-> setup]
       IN IF Cached(key)
          THEN Answered(question, entries[key].value) /\ UNCHANGED entries
          ELSE /\ entries' = AfterSet(AfterGet(key), key, computed, IndicatorTtl)
               /\ Answered(question, computed)
    /\ calls' = [calls EXCEPT ![c] = Idle]

InvalidateCache(setup, symbol) ==
    /\ entries' = Removed(entries, IndicatorKey(setup, symbol))
    /\ given' = NoAnswer /\ UNCHANGED calls

(* The caller was after the series alone.                                  *)
Leave(c) ==
    /\ calls[c].at = "holding"
    /\ calls' = [calls EXCEPT ![c] = Idle]
    /\ given' = NoAnswer /\ UNCHANGED entries

(* Ages are counted as far as the properties tell them apart.              *)
Oldest == SeriesTtl + MaxDelay + IndicatorTtl + 1
Older(value) == [value EXCEPT !.age = Min({@ + 1, Oldest})]
Waiting(call) ==
    CASE call.at = "asked" -> [call EXCEPT !.waited = @ + 1]
      [] call.at = "answered" -> [call EXCEPT !.waited = @ + 1, !.value = Older(@)]
      [] OTHER -> call

(* A series is passed on at once; a request ends in time.                  *)
CacheTick ==
    /\ \A c \in Callers :
          calls[c].at # "holding" /\ (calls[c] # Idle => calls[c].waited < MaxDelay)
    /\ entries' = [k \in DOMAIN entries |->
           [entries[k] EXCEPT !.left = Max({@ - 1, -1}), !.value = Older(@)]]
    /\ calls' = [c \in Callers |-> Waiting(calls[c])]
    /\ given' = NoAnswer

CacheNext ==
    \/ \E c \in Callers, w \in Wanted : GetOhlcv(c, w)
    \/ \E c \in Callers : ExchangeAnswers(c) \/ RequestFails(c) \/ FetchAndValidate(c) \/ Leave(c)
    \/ \E c \in Callers, s \in Setups : Calculate(c, s)
    \/ \E s \in Setups, w \in Wanted : InvalidateCache(s, w.symbol)
    \/ CleanupExpired \/ ClearCache \/ CacheTick

(***************************************************************************)
(* MarketDataFetcher.fetch_historical_ohlcv: candles are numbered by their *)
(* time, some the exchange does not have, some cannot be parsed.  What has *)
(* been fetched is sorted and freed of duplicates in the end: it is a set. *)
(***************************************************************************)
VARIABLES
    listed, malformed,    \* what the exchange has, and what of it is no candle
    end,                  \* end_date
    last,                 \* the cursor: one millisecond after this candle
    history,              \* all_candles
    pages,                \* iteration
    fetch                 \* "running", "done" or "failed"
histVars == <<listed, malformed, end, last, history, pages, fetch>>

HistInit ==
    /\ listed \in SUBSET (1..MaxCandle) /\ malformed \in SUBSET listed
    /\ end \in 1..MaxCandle
    /\ last = 0 /\ history = {} /\ pages = 0 /\ fetch = "running"

(* get_klines: the first PageSize from the cursor to the end.              *)
Asked == {k \in listed : last < k /\ k <= end}
Klines == {k \in Asked : Cardinality({j \in Asked : j < k}) < PageSize}

ParseKlines(klines) == klines \ malformed

(* A bug of ShortPage: candles are counted after parsing, not before.      *)
ShortPageParsed(klines) == Cardinality(ParseKlines(klines)) < PageSize
ShortPage(klines) == Cardinality(klines) < PageSize

WhileEnds ==
    /\ ~(last < end /\ pages < MaxPages)
    /\ fetch' = "done" /\ UNCHANGED <<history, last, pages>>

(* A page without any candle that can be parsed fails the fetch: there is  *)
(* no last one.                                                            *)
NextPage ==
    /\ last < end /\ pages < MaxPages
    /\ pages' = pages + 1
    /\ \/ /\ Klines = {}
          /\ fetch' = "done" /\ UNCHANGED <<history, last>>
       \/ /\ Klines # {} /\ ParseKlines(Klines) = {}
          /\ fetch' = "failed" /\ UNCHANGED <<history, last>>
       \/ /\ ParseKlines(Klines) # {}
          /\ history' = history \cup ParseKlines(Klines)
          /\ last' = Max(ParseKlines(Klines))
          /\ fetch' = IF ShortPage(Klines) THEN "done" ELSE "running"

FetchPage ==
    /\ fetch = "running"
    /\ WhileEnds \/ NextPage
    /\ UNCHANGED <<listed, malformed, end>>

PageFails ==
    /\ fetch = "running"
    /\ fetch' = "failed"
    /\ UNCHANGED <<listed, malformed, end, last, history, pages>>

HistNext == FetchPage \/ PageFails

(***************************************************************************)
(* Properties.                                                             *)
(***************************************************************************)
(* Who is answered from the same entry of the cache.                       *)
Shared(w) == {o.checks : o \in {x \in Wanted : x.symbol = w.symbol}}
Alike(setup) == {s \in Setups : s.class = setup.class /\ s.listed = setup.listed}

\* What a caller is given is what it asked for, a series or an indicator of its
\* symbol, and the prices are no older than the expiry of all caches they went
\* through and the longest request, although slow answers overwrite newer ones
\* and nothing is removed when it expires. "Correct cache isolation across
\* different configurations" (cached.py:72) is not given: only the parameters
\* of _extract_indicator_params enter the key (305-317) and no validation does,
\* so that an indicator may be that of another setup with the same class and
\* listed parameters, and a series may lack the validation that was asked for
\* when somebody else asks for the same series without it.
AnswersFitTheQuestion ==
    given # NoAnswer =>
        LET question == given.question
            value == given.value
        IN /\ value.symbol = question.symbol
           /\ IF "checks" \in DOMAIN question
              THEN /\ value.age <= SeriesTtl + MaxDelay
                   /\ value.verdict # "reject"
                   /\ value.verdict = "none" => "none" \in Shared(question)
              ELSE /\ value.age <= SeriesTtl + MaxDelay + IndicatorTtl
                   /\ value.setup \in Alike(question.setup)

\* A history that was fetched without failure holds every candle between
\* the dates that can be parsed, whichever of them are missing or malformed
\* at the end of a page, unless the fetch warns that its pages ran out: then
\* it lacks the latest ones only.
HistoryIsComplete ==
    LET wanted == {k \in listed \ malformed : k <= end}
    IN fetch = "done" =>
          /\ history \subseteq wanted
          /\ \A k \in wanted \ history : pages >= MaxPages /\ \A h \in history : h < k

\* Both ways to the data, through the caches and over the exchange's pages,
\* end with the data that was asked for.
DataIsWhatWasAsked == AnswersFitTheQuestion /\ HistoryIsComplete
=============================================================================
