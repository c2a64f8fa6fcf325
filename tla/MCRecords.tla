------------------------------ MODULE MCRecords -----------------------------
EXTENDS Records
MCI64Min == -1
=============================================================================
