------------------------------ MODULE MCWebAuth ------------------------------
EXTENDS WebAuth
CONSTANTS t1, t2, ann, root
=============================================================================
