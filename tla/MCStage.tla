------------------------------ MODULE MCStage ------------------------------
EXTENDS StageProps, TLC
CONSTANTS r1, r2, c1, c2, d1, d2
=============================================================================
