------------------------------- MODULE MCBatch -------------------------------
EXTENDS Batch
=============================================================================
