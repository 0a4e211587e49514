------------------------------ MODULE MCNodeRun ------------------------------
EXTENDS NodeRun
=============================================================================
