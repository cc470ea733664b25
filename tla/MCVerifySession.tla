-------------------------- MODULE MCVerifySession --------------------------
EXTENDS VerifySession

CONSTANTS w1, w2
=============================================================================
