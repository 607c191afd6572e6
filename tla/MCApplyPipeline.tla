-------------------------- MODULE MCApplyPipeline --------------------------
EXTENDS ApplyPipeline
=============================================================================
