------------------------- MODULE MCRouterEvaluation -------------------------
EXTENDS RouterEvaluation
=============================================================================
