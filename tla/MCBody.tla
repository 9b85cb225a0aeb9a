------------------------------- MODULE MCBody -------------------------------
EXTENDS Body
=============================================================================
