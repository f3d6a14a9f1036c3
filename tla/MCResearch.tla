----------------------------- MODULE MCResearch -----------------------------
(***************************************************************************)
(* The way of a strategy from research through paper to the live gate: the  *)
(* biographies, the point-in-time channels and the liquidation collector of *)
(* the research code, the paper sessions of the API, the paper runner's     *)
(* monitor and the gate in front of live trading.  They share nothing: one  *)
(* of them runs, the others stay as they begin.                             *)
(***************************************************************************)
EXTENDS Biographies, PointInTime, Liquidations, PaperSessions, PaperMonitor, Promotion

VARIABLE running

\* Biographies
CONSTANTS s1, s2

Measure(n, p, dd, pf, ratio) == [n |-> n, p |-> p, dd |-> dd, pf |-> pf, sharpe |-> ratio]
Strong == Measure(30, 10, 30, 150, 120)
Fair == Measure(20, 25, 49, 125, 80)
Noise == Measure(20, 60, 49, 90, 20)
Thin == Measure(9, 100, 0, 0, 0)

Specs == <<s1, s2>>
SomeVerdicts ==
    {[base |-> Strong, conservative |-> Noise], [base |-> Strong, conservative |-> Fair]}
SomeScreens ==
    {[pooled |-> [base |-> Fair, conservative |-> Noise],
      regimes |-> [bull |-> [base |-> Strong, conservative |-> Fair],
                   bear |-> [base |-> Thin, conservative |-> Thin]]]}

\* Liquidations
CONSTANTS e1, e2, e3

Times == [e \in Events |-> IF e = e1 THEN 1 ELSE IF e = e2 THEN 3 ELSE 7]

\* Promotion: a dear coin, one of two dollars, a corrupt row
Outcome(entry, exit, pnl) == [entry |-> entry, exit |-> exit, pnl |-> pnl]
SomeOutcomes == {Outcome(600, 630, 6), Outcome(600, 590, -1), Outcome(20, 21, 4), Outcome(600, 12, -30)}

otherVars == <<deskVars, monVars, gateVars>>
researchVars == <<bioVars, timeVars, liqVars, otherVars, running>>

ResearchInit ==
    /\ running \in {"biographies", "channels", "liquidations", "desk", "monitor", "gate"}
    /\ BioInit /\ LiqInit /\ DeskInit /\ MonInit
    /\ TimeInit /\ (running # "channels" => channel = "funding")
    /\ PromInit /\ (running # "gate" => ~primary)

BioStep == running = "biographies" /\ BioNext /\ UNCHANGED <<timeVars, liqVars, otherVars>>
TimeStep == running = "channels" /\ TimeNext /\ UNCHANGED <<bioVars, liqVars, otherVars>>
LiqStep == running = "liquidations" /\ LiqNext /\ UNCHANGED <<bioVars, timeVars, otherVars>>
Research == UNCHANGED <<bioVars, timeVars, liqVars>>
DeskStep == running = "desk" /\ DeskNext /\ Research /\ UNCHANGED <<monVars, gateVars>>
MonStep == running = "monitor" /\ MonNext /\ Research /\ UNCHANGED <<deskVars, gateVars>>
GateStep == running = "gate" /\ PromNext /\ Research /\ UNCHANGED <<deskVars, monVars>>

ResearchNext ==
    /\ BioStep \/ TimeStep \/ LiqStep \/ DeskStep \/ MonStep \/ GateStep
    /\ UNCHANGED running

(* The runner's loop polls as long as it is up.                            *)
GatePolls == GateStep /\ Poll /\ UNCHANGED running

ResearchSpec == ResearchInit /\ [][ResearchNext]_researchVars /\ WF_researchVars(GatePolls)
=============================================================================
