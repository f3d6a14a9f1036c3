---------------------------- MODULE PointInTime ----------------------------
(***************************************************************************)
(* What the research code may know, and when (research/features and         *)
(* research/data).  Observations carry the instant they begin; a run        *)
(* fetches each channel into a cache on disk, or keeps the cache when it    *)
(* covers the window, and the generators then read the channel's accessor   *)
(* at every bar of the replay.  The feature store answers the same question *)
(* from a declared interval and publication lag.                            *)
(***************************************************************************)
EXTENDS Integers, FiniteSets, FiniteSetsExt

CONSTANTS
    Hour, Day,      \* in ticks of the clock
    Settlement,     \* the ticks between two fundings
    Lookback,       \* the length of a run's window
    PageBars,       \* _MAX_CANDLES: the bars of a page of Coinbase's
    LastTick,       \* bound: how far the clock goes
    Nothing         \* no observation, no cache, no run

VARIABLES
    clock,
    channel,    \* the channel, one of them: they share nothing
    cached,     \* its file: the observations, and the window they were fetched for
    window,     \* the run: from when to when it replays
    answer      \* what a generator was last told

timeVars == <<clock, channel, cached, window, answer>>

ASSUME TimeAssumption ==
    /\ Hour \in Nat \ {0} /\ Day \in Nat \ {0} /\ Settlement \in Nat \ {0} /\ Lookback \in Nat
    /\ PageBars \in Nat \ {0}
    /\ Nothing \notin [at : Nat, taken : Nat]

Channels == {"funding", "etf", "coinbase", "btc", "rank"}

(* The specifications the channels declare (FeatureSpec). *)

Interval(c) == CASE c = "funding" -> 0 [] c = "etf" -> Day [] OTHER -> Hour
PublicationLag(c) == IF c = "etf" THEN Day ELSE 0
KnowableAt(c, at) == at + Interval(c) + PublicationLag(c)

\* The latest observation that begins at or before an instant.
AtOrBefore(observations, instant) ==
    LET past == {o \in observations : o.at <= instant}
    IN IF past = {} THEN Nothing ELSE CHOOSE o \in past : \A q \in past : q.at <= o.at

Stamps(file) == {o.at : o \in file.observations}

\* BTC's thrust spans a lookback, of one bar here: the first bar has none.
Defined(c, file, o) == c = "btc" => o.at >= Min(Stamps(file)) + Hour

(* The accessors of the channels: each holds back what is not yet known. *)

RateAt(file, ts) == AtOrBefore(file.observations, ts)
NetFlowAt(file, ts) == AtOrBefore(file.observations, ts - Day)
CloseAtOpen(file, ts) == AtOrBefore(file.observations, ts)
CloseAt(file, ts) == AtOrBefore(file.observations, ts - Hour)
ThrustAt(file, ts) ==
    LET o == AtOrBefore(file.observations, ts - Hour)
    IN IF o # Nothing /\ ~Defined("btc", file, o) THEN Nothing ELSE o
InTopKAt(file, ts) == AtOrBefore(file.observations, ts)

Accessor(c, file, ts) ==
    CASE c = "funding" -> RateAt(file, ts)
      [] c = "etf" -> NetFlowAt(file, ts)
      [] c = "coinbase" -> CloseAt(file, ts)
      [] c = "btc" -> ThrustAt(file, ts)
      [] c = "rank" -> InTopKAt(file, ts)

(* The feature store: the resolver's latest stamp, refused when not yet known. *)

Resolved(c, file, ts) ==
    LET o == AtOrBefore(file.observations, ts)
    IN IF o # Nothing /\ ~Defined(c, file, o) THEN Nothing ELSE o

AsOf(c, file, ts) ==
    LET o == Resolved(c, file, ts)
    IN IF o = Nothing \/ KnowableAt(c, o.at) > ts THEN Nothing ELSE o

(* The caches. *)

Spacing(c) == CASE c = "funding" -> Settlement [] c = "etf" -> Day [] OTHER -> Hour

\* Coinbase is asked page by page: a page spans PageBars hours, both ends
\* included, and the next one begins an hour after it ends.
PageSpan == PageBars * Hour
IntoPage(from, t) == (t - from) % (PageSpan + Hour)

\* A whole page that begins on a bar spans a bar more than the source gives for
\* one request.
Overfull(from, to, t) == from % Hour = 0 /\ (t - IntoPage(from, t)) + PageSpan <= to

\* The source leaves out the bar at one end of such a page, and a bar between
\* the end of a page and the beginning of the next is in no request.
Ends == {"oldest", "newest"}
Paged(from, to, t, dropped) ==
    /\ IntoPage(from, t) <= PageSpan
    /\ Overfull(from, to, t) => IntoPage(from, t) # (IF dropped = "oldest" THEN 0 ELSE PageSpan)

\* What the source has at this moment: a bar that still forms is among it, and
\* its value is that of the moment it was taken; a day's flow is listed once
\* the day is over.
Offered(c, from, to, dropped) ==
    {[at |-> t, taken |-> clock] : t \in
        {t \in from..to : /\ t % Spacing(c) = 0 /\ t <= clock
                          /\ c = "etf" => t + Day <= clock
                          /\ c = "coinbase" => Paged(from, to, t, dropped)}}

\* load_or_fetch keeps a file that covers the window; the bars' caches look at
\* the bars they hold, and BTC's and the ranks are computed anew for every run.
Covers(c, file, from, to) ==
    /\ file # Nothing
    /\ CASE c = "funding" -> file.from <= from /\ file.to >= to
         [] c = "etf" -> file.observations # {} /\ Max(Stamps(file)) >= to - Day
         [] c = "coinbase" -> /\ file.observations # {} /\ Min(Stamps(file)) <= from
                              /\ Max(Stamps(file)) >= to - Hour
         [] OTHER -> FALSE

\* The whole history comes with every request for the ETFs.
LoadOrFetch(c, from, to, dropped) ==
    IF Covers(c, cached, from, to) THEN cached
    ELSE [observations |-> Offered(c, IF c = "etf" THEN 0 ELSE from, to, dropped),
          from |-> from, to |-> to]

TimeInit ==
    /\ clock = 0 /\ channel \in Channels /\ cached = Nothing
    /\ window = Nothing /\ answer = Nothing

\* A run prefetches its channel before its workers read it; its window may end
\* in the past (--end-date).
StartReplay ==
    /\ \E to \in 0..clock, dropped \in Ends :
           LET from == IF to < Lookback THEN 0 ELSE to - Lookback
           IN /\ window' = [from |-> from, to |-> to]
              /\ cached' = LoadOrFetch(channel, from, to, dropped)
    /\ answer' = Nothing /\ UNCHANGED <<clock, channel>>

\* A generator looks its channel up at an instant of the replay.
Ask ==
    /\ window # Nothing
    /\ \E ts \in window.from..window.to :
           answer' = [ts |-> ts, used |-> Accessor(channel, cached, ts),
                      stored |-> AsOf(channel, cached, ts)]
    /\ UNCHANGED <<clock, channel, cached, window>>

Tick == clock < LastTick /\ clock' = clock + 1 /\ UNCHANGED <<channel, cached, window, answer>>

TimeNext == StartReplay \/ Ask \/ Tick

TimeSpec == TimeInit /\ [][TimeNext]_timeVars

(* Properties. *)

\* A bar where two pages meet, or at an end of a page that asks for too much.
AtSeam(file, t) ==
    \/ IntoPage(file.from, t) > PageSpan
    \/ Overfull(file.from, file.to, t) /\ IntoPage(file.from, t) \in {0, PageSpan}

\* Whatever windows were fetched and kept, a generator that replays an instant
\* is told the latest observation of the cache that was over by then, and none
\* that was not; where the feature store answers, it answers the same; and the
\* value is the observation's final one, except for the last bar of a cache,
\* which may have been taken while it formed.  No observation of the window that
\* was due by then is missing from the cache, but for Coinbase, although its
\* series claims to cover the window (coinbase_prices.py:227-228): the hour that
\* is added after each page (166) leaves out a bar per page when the window does
\* not begin on the hour, as it does without --end-date (regime_dsr.py:1027),
\* and when it does the pages ask for more than the cap (19, 141); the bar before
\* is told in place of it.  Two accessors answer before their declarations allow
\* and are left out: that of the ranks, at the bar's opening, and that of the ETF
\* flows, a day after the day began.
NothingBeforeItsTime ==
    answer # Nothing /\ channel \in {"funding", "coinbase", "btc"} =>
        LET ts == answer.ts
            known == {o \in cached.observations :
                         KnowableAt(channel, o.at) <= ts /\ Defined(channel, cached, o)}
            due == {t \in window.from..ts : t % Spacing(channel) = 0 /\ KnowableAt(channel, t) <= ts}
        IN /\ answer.used = AtOrBefore(known, ts)
           /\ \A t \in due : t \in Stamps(cached) \/ (channel = "coinbase" /\ AtSeam(cached, t))
           /\ answer.stored # Nothing => answer.stored = answer.used
           /\ answer.used # Nothing =>
                  \/ answer.used.taken >= KnowableAt(channel, answer.used.at)
                  \/ answer.used.at = Max(Stamps(cached))
=============================================================================
