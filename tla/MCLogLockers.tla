---------------------------- MODULE MCLogLockers ----------------------------
EXTENDS LogLockers

CONSTANTS p1, p2, p3, lA, lB, lC

MCProcs == {p1, p2, p3}
MCLogs == {lA, lB, lC}

====
