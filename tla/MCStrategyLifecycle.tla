------------------------ MODULE MCStrategyLifecycle -------------------------
\* Instances of StrategyLifecycle for TLC; the .cfg files give the constants.
EXTENDS StrategyLifecycle
=============================================================================
