---------------------------- MODULE MCAdminPanel ----------------------------
EXTENDS AdminPanel
CONSTANTS c1, c2, s1, u1, u2, n1, n2, z1, z2, b1, b2, p1, p2
=============================================================================
