---------------------------- MODULE RegimeRouting ---------------------------
(***************************************************************************)
(* The regime router of paper trading (src/src/core/strategy/regime): the  *)
(* coarse detector and the sub-regime detector, which classify the latest  *)
(* daily bars of BTC and want two bars to agree, and the router that stops *)
(* and starts the engines.  A daily bar is abstracted to what the          *)
(* classification compares: the side of the two averages, and what the     *)
(* realized volatility and the ADX make of it.  The last bar is forming.   *)
(***************************************************************************)
EXTENDS Integers, FiniteSets

CONSTANTS Templates,
          Side,          \* Side[t]: "regime" of the configuration: "bull", "bear" or "all"
          Tags,          \* Tags[t]: "regime_tags", {} without them
          ObserveOnly,   \* templates that are never activated
          Kinds          \* of bars

ASSUME KindsAssumption == Kinds \subseteq {"high_vol", "ranging", "trending", "choppy"}

VARIABLES
    sides,      \* the side of the latest four daily bars
    kinds,      \* the kind of the latest two
    phase,      \* of the router: "boot", "bootsub", "sub", "stopping", "waiting"
    applied,    \* the regimes in force: [coarse, sub]
    found,      \* the regimes detected last: new_regime, new_sub_regime
    engines,    \* the state of each template's engine
    moved       \* history: the bars have changed between the two detections
routeVars == <<sides, kinds, phase, applied, found, engines, moved>>

UNKNOWN == "unknown"
Sides == {"bull", "bear"}

RouteInit ==
    /\ sides = <<"bull", "bull", "bull", "bull">>
    /\ \E k \in Kinds : kinds = <<k, k>>
    /\ phase = "boot"
    /\ applied = [coarse |-> UNKNOWN, sub |-> UNKNOWN] /\ found = applied
    /\ engines = [t \in Templates |-> "off"]
    /\ moved = FALSE

(***************************************************************************)
(* RegimeDetector: the side of the latest bar, and the side two bars share.*)
(***************************************************************************)
RawState == sides[4]

ConfirmedState == IF sides[3] = sides[4] THEN sides[4] ELSE UNKNOWN

(***************************************************************************)
(* HistoricalRegimeClassifier and SubRegimeDetector.                       *)
(***************************************************************************)
Trending == [bull |-> "trending_bull", bear |-> "trending_bear"]
Choppy == [bull |-> "choppy_bull", bear |-> "choppy_bear"]

SubRegime(side, kind) ==
    CASE kind = "trending" -> Trending[side]
      [] kind = "choppy" -> Choppy[side]
      [] OTHER -> kind

Classified(i, kind) ==
    IF Cardinality({sides[j] : j \in (i - 2)..i}) > 1 THEN "transitional" ELSE SubRegime(sides[i], kind)

Labels == <<Classified(3, kinds[1]), Classified(4, kinds[2])>>

(* A bug of ConfirmedSubRegime: the second bar is not compared.            *)
ConfirmedSubRegimeAnchor == IF Labels[1] = "transitional" THEN UNKNOWN ELSE Labels[1]

ConfirmedSubRegime ==
    IF Labels[1] = "transitional" \/ Labels[2] # Labels[1] THEN UNKNOWN ELSE Labels[1]

(***************************************************************************)
(* The router.                                                             *)
(***************************************************************************)
(* A bug of Matching: a tagged template falls back to its coarse regime    *)
(* when the sub-regime is not confirmed.                                   *)
MatchingCoarsely(r) ==
    {t \in Templates : IF Tags[t] # {} /\ r.sub # UNKNOWN
                       THEN t \notin ObserveOnly /\ r.sub \in Tags[t]
                       ELSE Side[t] \in {"all", r.coarse}}

Matching(r) ==
    {t \in Templates : IF Tags[t] # {}
                       THEN t \notin ObserveOnly /\ r.sub \in Tags[t]
                       ELSE Side[t] \in {"all", r.coarse}}

(* At boot the raw state stands in for one that is not confirmed; a fetch  *)
(* that fails counts as unknown.                                           *)
DetectCoarse ==
    /\ phase \in {"boot", "waiting"}
    /\ \E state \in {UNKNOWN, ConfirmedState} \cup (IF phase = "boot" THEN {RawState} ELSE {}) :
         /\ found' = [coarse |-> state, sub |-> UNKNOWN]
         /\ phase' = IF phase = "boot" THEN "bootsub" ELSE "sub"
    /\ moved' = FALSE
    /\ UNCHANGED <<sides, kinds, applied, engines>>

Changed(sub) == found.coarse # applied.coarse \/ sub # applied.sub

(* An unknown coarse regime ends the check whatever the sub-regime is.     *)
(* The engines that run are asked to stop; those that have been created    *)
(* and not run yet are not.                                                *)
DetectSub ==
    /\ phase \in {"bootsub", "sub"}
    /\ \E sub \in {UNKNOWN, ConfirmedSubRegime} :
         /\ found' = [found EXCEPT !.sub = sub]
         /\ IF phase = "sub" /\ (found.coarse = UNKNOWN \/ ~Changed(sub))
            THEN phase' = "waiting" /\ UNCHANGED engines
            ELSE /\ phase' = "stopping"
                 /\ engines' = [t \in Templates |-> IF engines[t] = "running" THEN "stopping" ELSE engines[t]]
    /\ UNCHANGED <<sides, kinds, applied, moved>>

(* All engines have ended or have been cancelled after 30 seconds.         *)
ApplyRegime ==
    /\ phase = "stopping" /\ \A t \in Templates : engines[t] = "off"
    /\ engines' = [t \in Templates |-> IF t \in Matching(found) THEN "created" ELSE "off"]
    /\ applied' = found
    /\ phase' = "waiting"
    /\ UNCHANGED <<sides, kinds, found, moved>>

EngineRuns(t) ==
    /\ engines[t] = "created"
    /\ engines' = [engines EXCEPT ![t] = "running"]
    /\ UNCHANGED <<sides, kinds, phase, applied, found, moved>>

EngineEnds(t) ==
    /\ phase = "stopping" /\ engines[t] # "off"
    /\ engines' = [engines EXCEPT ![t] = "off"]
    /\ UNCHANGED <<sides, kinds, phase, applied, found, moved>>

(* The process ends; its supervisor starts it again.                       *)
RouterRestarts ==
    /\ phase' = "boot"
    /\ applied' = [coarse |-> UNKNOWN, sub |-> UNKNOWN] /\ found' = applied'
    /\ engines' = [t \in Templates |-> "off"]
    /\ moved' = FALSE
    /\ UNCHANGED <<sides, kinds>>

(* The forming bar moves, or a new one begins.                             *)
DayMoves ==
    /\ \E side \in Sides, k \in Kinds :
         \/ sides' = [sides EXCEPT ![4] = side] /\ kinds' = [kinds EXCEPT ![2] = k]
         \/ sides' = <<sides[2], sides[3], sides[4], side>> /\ kinds' = <<kinds[2], k>>
    /\ moved' = (moved \/ phase \in {"bootsub", "sub"})
    /\ UNCHANGED <<phase, applied, found, engines>>

RouteNext ==
    \/ DetectCoarse \/ DetectSub \/ ApplyRegime
    \/ \E t \in Templates : EngineRuns(t) \/ EngineEnds(t)
    \/ RouterRestarts \/ DayMoves

(***************************************************************************)
(* Properties.                                                             *)
(***************************************************************************)
\* A template with tags only has an engine, through every switch, failed
\* fetch and restart, when the sub-regime applied last is one of its tags, and
\* once a check is over the sub-regime it found, too. The exception is a check
\* whose coarse regime is not confirmed or could not be fetched: it ends there
\* (164-166) and drops the sub-regime it has found, so that the engines go on
\* under the one applied before. And the two detectors, which fetch their bars
\* one after the other, never put a sub-regime of one side beside a coarse
\* regime of the other unless the bars moved in between.
FailsClosed ==
    /\ \A t \in Templates :
          engines[t] # "off" /\ Tags[t] # {} =>
              /\ applied.sub \in Tags[t]
              /\ phase = "waiting" => found.sub \in Tags[t] \/ found.coarse = UNKNOWN
    /\ ~moved /\ phase = "stopping" =>
         \A side \in Sides :
            found.sub \in {Trending[side], Choppy[side]} => found.coarse \in {side, UNKNOWN}
=============================================================================
