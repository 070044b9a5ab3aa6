\* Build on every expression of up to three conditions on the target "t",
\* another known parameter "x", an unknown parameter "bad", and a
\* comparison with a non-constant, without NOT.
CONSTANTS
    MaxV = 4
    Vals = {1, 2, 3}
    Param = "t"
    Known = {"t", "x"}
    Names = {"t", "x", "bad"}
    Ops <- OpsAll
    Nots = {FALSE}
    NonConst = NonConst
    NonConsts = {NonConst}

SPECIFICATION Spec
CHECK_DEADLOCK FALSE
INVARIANT TypeOK
INVARIANT BuildMinimal
INVARIANT BuildExact
