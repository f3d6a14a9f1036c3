--------------------------- MODULE MCOrchestrator ---------------------------
EXTENDS Orchestrator
CONSTANTS e1, e2, e3, s1, s2
TwoSymbols == [e \in {e1, e2, e3} |-> IF e = e3 THEN s2 ELSE s1]
Ratios == [e \in {e1, e2, e3} |-> IF e = e1 THEN 1 ELSE IF e = e2 THEN 2 ELSE 0]
OneSymbol == [e \in {e1} |-> s1]
OneRatio == [e \in {e1} |-> 1]
=============================================================================
