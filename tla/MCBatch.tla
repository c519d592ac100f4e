------------------------------ MODULE MCBatch -------------------------------
EXTENDS BatchProps

=============================================================================
