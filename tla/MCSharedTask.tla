---------------------------- MODULE MCSharedTask ----------------------------
\* Instances of SharedTask for TLC.
EXTENDS SharedTask
CONSTANTS w1, w2
=============================================================================
