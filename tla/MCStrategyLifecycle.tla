------------------------ MODULE MCStrategyLifecycle ------------------------
EXTENDS StrategyLifecycle
CONSTANTS winrate, sharpe
Days == [c \in {winrate, sharpe} |-> IF c = winrate THEN 1 ELSE 2]
=============================================================================
