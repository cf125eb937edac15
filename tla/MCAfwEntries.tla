---------------------------- MODULE MCAfwEntries ----------------------------
EXTENDS AfwEntries

CONSTANTS r1, r2

MCEntries1 == {r1}
MCEntries2 == {r1, r2}
==============================================================================
