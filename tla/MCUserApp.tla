------------------------------ MODULE MCUserApp ------------------------------
EXTENDS UserApp
CONSTANTS c1, c2, b1, b2, s1, p1, p2
=============================================================================
