----------------------------- MODULE MCExamples ------------------------------
EXTENDS Examples
MCI64Min == -1
=============================================================================
