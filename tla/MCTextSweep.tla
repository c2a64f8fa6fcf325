---------------------------- MODULE MCTextSweep -----------------------------
EXTENDS TextSweep
=============================================================================
