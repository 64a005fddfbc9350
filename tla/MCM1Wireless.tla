---------------------------- MODULE MCM1Wireless ----------------------------
EXTENDS M1Wireless
=============================================================================
