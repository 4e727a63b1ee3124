----------------------------- MODULE MCMenuCards -----------------------------
EXTENDS MenuCards
=============================================================================
