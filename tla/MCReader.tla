------------------------------ MODULE MCReader ------------------------------
EXTENDS Reader
MCOffsets == {-2, 1}
MCI64Min == -2
=============================================================================
