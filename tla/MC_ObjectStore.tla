--------------------------- MODULE MC_ObjectStore ---------------------------
EXTENDS ObjectStore, TLC

CONSTANTS s1, none
=============================================================================
