------------------------------- MODULE MCBdb -------------------------------
EXTENDS Bdb
=============================================================================
