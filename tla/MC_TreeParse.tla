---------------------------- MODULE MC_TreeParse ----------------------------
EXTENDS TreeParse, TLC

CONSTANTS sp, nul, a, ff
=============================================================================
