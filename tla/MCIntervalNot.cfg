\* Build on expressions of up to three conditions on "t", negated or not.
CONSTANTS
    MaxV = 3
    Vals = {1, 2}
    Param = "t"
    Known = {"t"}
    Names = {"t"}
    Ops <- OpsAll
    Nots = {FALSE, TRUE}
    NonConst = NonConst
    NonConsts = {}

SPECIFICATION Spec
CHECK_DEADLOCK FALSE
INVARIANT BuildExact
