---------------------------- MODULE Biographies ----------------------------
(***************************************************************************)
(* The biographies of the research strategies (research/biographies): one   *)
(* YAML file per strategy, under active/ or retired/, to which three        *)
(* scripts run by hand add.  The retrospective (scripts/retrospective_dsr)   *)
(* files a verdict, the regime screen (scripts/regime_dsr) its coverage, the *)
(* post-mortem (scripts/generate_post_mortem) the retirement.  A script may  *)
(* die between two writes or inside one, and be run again the same day.      *)
(*                                                                          *)
(* Fractions are in hundredths, drawdowns in tenths of a percent.           *)
(***************************************************************************)
EXTENDS Integers, Sequences, SequencesExt

CONSTANTS
    Strategies,     \* the strategies' names
    Universe,       \* STRATEGY_UNIVERSE: the strategies, in the order they are analysed
    ListedRetired,  \* those STRATEGY_UNIVERSE lists as retired
    Verdicts,       \* what a strategy's trades may measure: [base, conservative]
    Screens,        \* what a screen may find: the verdict pooled, and per regime
    LastDay,        \* bound: the days that pass
    NoFile,         \* no biography yet
    Torn            \* an empty file: the process died inside write_text

VARIABLES
    active, retired,    \* the two directories: strategy -> what its file holds
    job,                \* the script that runs, and what it has left to do
    day

bioVars == <<active, retired, job, day>>

Measures == [n : Nat, p : Int, dd : Int, pf : Int, sharpe : Int]
Tiers == {"insufficient", "A", "B", "C", "D"}

\* What a file holds that is neither missing nor cut off.
Biography ==
    [status : {"active", "retired"}, class : Tiers \cup {"none"},
     validation : Seq([run : Nat, floors : BOOLEAN, tier : Tiers]),
     changes : Seq([run : Nat, to : Tiers]),
     log : Seq([run : Nat, to : Tiers \cup {"retired"}]),
     coverage : Seq([run : Nat, pooled : Tiers,
                     gating : SUBSET UNION {DOMAIN s.regimes : s \in Screens}])]

ASSUME UniverseAssumption ==
    /\ Universe \in Seq(Strategies) /\ ToSet(Universe) = Strategies /\ IsInjective(Universe)
    /\ ListedRetired \subseteq Strategies
    /\ Verdicts \subseteq [base : Measures, conservative : Measures]
    /\ NoFile # Torn /\ NoFile \notin Biography /\ Torn \notin Biography

NoJob == [kind |-> "none"]

(* The classifier. *)

\* A measure: trades, Deflated Sharpe p-value, drawdown, profit factor, Sharpe.
ClassifyTier(m) ==
    IF m.n < 10 THEN "insufficient"
    ELSE IF m.p >= 50 \/ m.dd >= 100 THEN "D"
    ELSE IF m.p < 20 /\ m.dd < 50 /\ m.pf >= 135 /\ m.sharpe >= 100 /\ m.n >= 30 THEN "A"
    ELSE IF m.p < 30 /\ m.dd < 50 /\ m.pf >= 125 /\ m.sharpe >= 80 /\ m.n >= 20 THEN "B"
    ELSE "C"

Deployable == {"A", "B"}

\* The conservative point decides, but an edge that only the worst case breaks
\* is held for more data.
ResolveFinalTierBase(base, conservative) == base
ResolveFinalTier(base, conservative) ==
    IF base \in Deployable /\ conservative = "D" THEN "C" ELSE conservative

HardFloors(m) == m.p < 30 /\ m.dd < 50

AnalyzeStrategy(v, run) ==
    [run |-> run, floors |-> HardFloors(v.conservative),
     tier |-> ResolveFinalTier(ClassifyTier(v.base), ClassifyTier(v.conservative))]

\* A regime's cell gates nothing when its verdict rests on too few trades.
ComputeRegimeCoverage(screen, run) ==
    [run |-> run, pooled |-> AnalyzeStrategy(screen.pooled, run).tier,
     gating |-> {r \in DOMAIN screen.regimes :
                    /\ screen.regimes[r].conservative.n >= 10
                    /\ AnalyzeStrategy(screen.regimes[r], run).tier # "insufficient"}]

(* The files. *)

NewBiography(s) ==
    [status |-> IF s \in ListedRetired THEN "retired" ELSE "active", class |-> "none",
     validation |-> <<>>, changes |-> <<>>, log |-> <<>>, coverage |-> <<>>]

\* The copy every reader and writer uses: active/ hides retired/.
Canonical(s) == IF active[s] # NoFile THEN active[s] ELSE retired[s]

LoadOrCreate(s) == IF Canonical(s) = NoFile THEN NewBiography(s) ELSE Canonical(s)

InActive(s) == active[s] # NoFile \/ (retired[s] = NoFile /\ s \notin ListedRetired)

Save(s, bio) ==
    IF InActive(s)
    THEN active' = [active EXCEPT ![s] = bio] /\ UNCHANGED retired
    ELSE retired' = [retired EXCEPT ![s] = bio] /\ UNCHANGED active

HasRun(history, run) == \E i \in DOMAIN history : history[i].run = run

\* write_biography's update: one entry a run; a new class is logged for review.
Recorded(bio, entry) ==
    LET changed == bio.class # entry.tier
        change == [run |-> entry.run, to |-> entry.tier]
        filed == [bio EXCEPT !.validation = Append(@, entry), !.class = entry.tier]
    IN IF changed /\ ~HasRun(bio.changes, entry.run)
       THEN [filed EXCEPT !.changes = Append(@, change), !.log = Append(@, change)]
       ELSE filed

BioInit ==
    /\ active = [s \in Strategies |-> NoFile] /\ retired = [s \in Strategies |-> NoFile]
    /\ job = NoJob /\ day = 1

(* The retrospective: all strategies, or the one --strategy names. *)

StartRetrospective ==
    /\ job = NoJob
    /\ \E specs \in {Universe} \cup {<<s>> : s \in Strategies} :
           job' = [kind |-> "retrospective", todo |-> specs, run |-> day]
    /\ UNCHANGED <<active, retired, day>>

WriteBiography(s, entry) ==
    IF HasRun(LoadOrCreate(s).validation, entry.run) THEN UNCHANGED <<active, retired>>
    ELSE Save(s, Recorded(LoadOrCreate(s), entry))

AnalyzeNext ==
    /\ job.kind = "retrospective" /\ job.todo # <<>> /\ Canonical(Head(job.todo)) # Torn
    /\ \E v \in Verdicts :
           LET s == Head(job.todo)
               entry == AnalyzeStrategy(v, job.run)
           IN /\ WriteBiography(s, entry)
              /\ job' = [job EXCEPT !.todo = Tail(@)]
    /\ UNCHANGED day

\* The reports are derived: markdown and JSON that no script reads.
WriteReports ==
    /\ job.kind = "retrospective" /\ job.todo = <<>> /\ job' = NoJob
    /\ UNCHANGED <<active, retired, day>>

(* The regime screen: nothing is written unless every labelling is causal. *)

StartRegimeScreen ==
    /\ job = NoJob
    /\ \E labels \in {Universe} \cup {<<s>> : s \in Strategies}, causal \in BOOLEAN :
           job' = IF causal THEN [kind |-> "screen", todo |-> labels, run |-> day] ELSE NoJob
    /\ UNCHANGED <<active, retired, day>>

WriteRegimeCoverage(s, entry) ==
    IF HasRun(LoadOrCreate(s).coverage, entry.run) THEN UNCHANGED <<active, retired>>
    ELSE Save(s, [LoadOrCreate(s) EXCEPT !.coverage = Append(@, entry)])

ScreenNext ==
    /\ job.kind = "screen" /\ job.todo # <<>> /\ Canonical(Head(job.todo)) # Torn
    /\ \E screen \in Screens :
           WriteRegimeCoverage(Head(job.todo), ComputeRegimeCoverage(screen, job.run))
    /\ job' = IF Len(job.todo) = 1 THEN NoJob ELSE [job EXCEPT !.todo = Tail(@)]
    /\ UNCHANGED day

(* The post-mortem: the retired copy is written, then the active one removed. *)

SourceRetiredFirst(s) == IF retired[s] \notin {NoFile, Torn} THEN retired[s] ELSE active[s]
Source(s) == Canonical(s)

Retirement(bio) ==
    LET entry == [run |-> 0, to |-> "retired"]
    IN [bio EXCEPT !.status = "retired",
                   !.log = IF Contains(@, entry) THEN @ ELSE Append(@, entry)]

ApplyPostMortem(s) ==
    /\ job = NoJob /\ Canonical(s) \notin {NoFile, Torn}
    /\ retired' = [retired EXCEPT ![s] = Retirement(Source(s))]
    /\ job' = IF active[s] # NoFile THEN [kind |-> "unlink", todo |-> <<s>>] ELSE NoJob
    /\ UNCHANGED <<active, day>>

Unlink ==
    /\ job.kind = "unlink"
    /\ active' = [active EXCEPT ![Head(job.todo)] = NoFile] /\ job' = NoJob
    /\ UNCHANGED <<retired, day>>

(* Failures, and the days. *)

\* The process dies between two writes, or reads a file it cannot parse.
Die == job # NoJob /\ job' = NoJob /\ UNCHANGED <<active, retired, day>>

\* It dies while it writes a biography: the file it had opened is truncated.
CrashInWrite ==
    /\ job.kind \in {"retrospective", "screen"} /\ job.todo # <<>>
    /\ LET s == Head(job.todo)
           written == IF job.kind = "screen" THEN LoadOrCreate(s).coverage
                      ELSE LoadOrCreate(s).validation
       IN Canonical(s) # Torn /\ ~HasRun(written, job.run) /\ Save(s, Torn)
    /\ job' = NoJob /\ UNCHANGED day

CrashInPostMortem(s) ==
    /\ job = NoJob /\ Canonical(s) \notin {NoFile, Torn}
    /\ retired' = [retired EXCEPT ![s] = Torn] /\ UNCHANGED <<active, job, day>>

NextDay == job = NoJob /\ day < LastDay /\ day' = day + 1 /\ UNCHANGED <<active, retired, job>>

BioNext ==
    \/ StartRetrospective \/ AnalyzeNext \/ WriteReports
    \/ StartRegimeScreen \/ ScreenNext
    \/ \E s \in Strategies : ApplyPostMortem(s) \/ CrashInPostMortem(s)
    \/ Unlink \/ Die \/ CrashInWrite \/ NextDay

BioSpec == BioInit /\ [][BioNext]_bioVars

(* Properties. *)

\* The changes are the entries at which the class changed, as the history
\* alone tells it, each once and in their order.
Reclassified(history) == {i \in DOMAIN history : i = 1 \/ history[i].tier # history[i - 1].tier}
TellTheChanges(changes, history) ==
    \E at \in [DOMAIN changes -> DOMAIN history] :
        /\ {at[k] : k \in DOMAIN changes} = Reclassified(history)
        /\ \A k, l \in DOMAIN changes : k < l => at[k] < at[l]
        /\ \A k \in DOMAIN changes : changes[k] = [run |-> history[at[k]].run, to |-> history[at[k]].tier]

\* A biography explains itself (write_biography): its class is the verdict of
\* its last run and nothing else sets it; each run is counted once, however
\* often it was repeated after a crash; the changes of class are those its
\* history shows, each left for review in the decision log; and a class that
\* admits to deployment rests on a run that passed both floors.
HistoryTellsTheVerdict ==
    \A s \in Strategies : \A bio \in {active[s], retired[s]} \ {NoFile, Torn} :
        LET h == bio.validation
        IN /\ bio.class = IF h = <<>> THEN "none" ELSE Last(h).tier
           /\ \A i, j \in DOMAIN h : h[i].run = h[j].run => i = j
           /\ TellTheChanges(bio.changes, h)
           /\ ToSet(bio.changes) \subseteq ToSet(bio.log)
           /\ bio.class \in Deployable => Last(h).floors

\* What a biography says is never lost by a script run again, in another order
\* or after a crash between its writes: the copy that counts keeps its
\* verdicts, its coverage and its retirement, unless a write itself was cut.
VerdictsAreNeverLost ==
    [][\A s \in Strategies :
           Canonical(s) \notin {NoFile, Torn} =>
               \/ Canonical(s)' = Torn
               \/ /\ Canonical(s)' # NoFile
                  /\ IsPrefix(Canonical(s).validation, Canonical(s)'.validation)
                  /\ IsPrefix(Canonical(s).coverage, Canonical(s)'.coverage)
                  /\ Contains(Canonical(s).log, [run |-> 0, to |-> "retired"]) =>
                         Canonical(s)'.status = "retired"]_bioVars
=============================================================================
