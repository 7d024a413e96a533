----------------------------- MODULE MCSemTools -----------------------------
\* Instances of SemTools for TLC.
EXTENDS SemTools
CONSTANTS p1, p2, p3

C(o, s, n) == [op |-> o, i |-> s, v |-> n]
\* With SEMVMX = 3 a short has three bits: 7 is -1, and semaphore 8 is 0.
MCMenu == {C("sem1", 0, 0), C("create", All, 0), C("create", All, 2),
           C("set", 0, 1), C("set", 1, 2), C("set", 2, 1), C("set", 0, 4),
           C("get", All, 0), C("listp", 0, 0), C("rm", All, 0),
           C("inc", 0, 3), C("inc", 0, 7), C("inc", 1, 3),
           C("dcr", 8, 1), C("dcr", 1, 2), C("dcr", 1, 0)}
=============================================================================
