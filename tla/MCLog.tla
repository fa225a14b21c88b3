------------------------------- MODULE MCLog -------------------------------
EXTENDS Log
=============================================================================
