--------------------------- MODULE IntervalBuilder ---------------------------
(***************************************************************************)
(* ParamIntervalBuilder (src/pkg/ql/intervalbuilder.go): compiles a filter *)
(* expression (OR of AND of possibly negated conditions or sub-            *)
(* expressions) into intervals of one parameter's values.                  *)
(*                                                                         *)
(* The ordered domain is 0..MaxV, with the basis Min 0 and Max MaxV.  An   *)
(* interval is [l, r, lc, rc]: its bounds and whether each is closed.  Its *)
(* points are taken in a dense copy of the domain, 0..2*MaxV, where the    *)
(* even point 2v stands for the value v and an odd point for the values    *)
(* strictly between two neighbours, so that open and closed bounds differ  *)
(* as they do on strings.                                                  *)
(*                                                                         *)
(* A condition is [p, op, v]: the first parameter's name, the operator and *)
(* the second parameter's constant (NonConst when it is not a constant).   *)
(***************************************************************************)
EXTENDS Integers, Sequences, SequencesExt, FiniteSets, FiniteSetsExt, TLC

CONSTANTS
    MaxV,       \* basis Max; Min is 0
    Vals,       \* constants the conditions compare with
    Param,      \* ib.param, the parameter the builder looks for
    Known,      \* parameters the dialect knows (usable on the left)
    Names,      \* parameter names conditions use (may include unknown ones)
    Ops,        \* ib.ops, the operators the builder accepts
    Nots,       \* whether conditions may be negated: {FALSE} or BOOLEAN
    NonConst,   \* model value: the second parameter is not a constant
    NonConsts   \* {NonConst} when conditions may compare with a parameter

ASSUME /\ MaxV \in Nat /\ Vals \subseteq 1..(MaxV - 1)
       /\ Param \in Known

\* The operator sets callers build with.
OpsAll  == {"<", ">", "<=", ">=", "=", "!="}
OpsGtLt == {"<", ">"}

D == 0..(2 * MaxV)

Interval == [l : 0..MaxV, r : 0..MaxV, lc : BOOLEAN, rc : BOOLEAN]

-----------------------------------------------------------------------------
(* The basis (intervals.Basis, not in this repository): Min, Max, interval *)
(* construction, StartsBefore, Union, Intersect and Negate.                *)

Pts(i) == {x \in D : /\ IF i.lc THEN x >= 2 * i.l ELSE x > 2 * i.l
                     /\ IF i.rc THEN x <= 2 * i.r ELSE x < 2 * i.r}

PtsOf(s) == UNION {Pts(s[k]) : k \in DOMAIN s}

\* The interval whose points are S, a non-empty run of D.
Hull(S) == [l |-> Min(S) \div 2, lc |-> Min(S) % 2 = 0,
            r |-> (Max(S) + 1) \div 2, rc |-> Max(S) % 2 = 0]

IsRun(S) == S # {} /\ \A x \in Min(S)..Max(S) : x \in S

Closed(a, b) == [l |-> a, r |-> b, lc |-> TRUE, rc |-> TRUE]
OpenR(a, b)  == [l |-> a, r |-> b, lc |-> TRUE, rc |-> FALSE]
OpenL(a, b)  == [l |-> a, r |-> b, lc |-> FALSE, rc |-> TRUE]

StartsBefore(a, b) == \/ a.l < b.l
                      \/ a.l = b.l /\ a.lc /\ ~b.lc

\* Union(a, b): their hull when they overlap or touch, else not ok.
BUnion(a, b) == [ok |-> IsRun(Pts(a) \cup Pts(b)),
                 t  |-> IF IsRun(Pts(a) \cup Pts(b)) THEN Hull(Pts(a) \cup Pts(b))
                                                     ELSE a]

\* Intersect(a, b): their common part when it is not empty.
BIntersect(a, b) == [ok |-> Pts(a) \cap Pts(b) # {},
                     t  |-> IF Pts(a) \cap Pts(b) # {} THEN Hull(Pts(a) \cap Pts(b))
                                                       ELSE a]

\* Negate(t): the non-empty parts of the domain left and right of t.
Negate(t) ==
    LET parts == <<{x \in D : x < Min(Pts(t))}, {x \in D : x > Max(Pts(t))}>>
    IN  [k \in 1..Len(SelectSeq(parts, LAMBDA S : S # {})) |->
            Hull(SelectSeq(parts, LAMBDA S : S # {})[k])]

-----------------------------------------------------------------------------
(* The builder *)

\* A result: the intervals, or the validation error that aborts Build.
Ok(ivs) == [err |-> FALSE, ivs |-> ivs]
Failed  == [err |-> TRUE, ivs |-> <<>>]

\* Bug variant: the right-unbounded intervals end one past the basis Max.
getIntervalsPastMax(op, v) ==
    CASE op = "<"  -> <<OpenR(0, v)>>
      [] op = ">"  -> <<OpenL(v, MaxV + 1)>>
      [] op = "<=" -> <<Closed(0, v)>>
      [] op = ">=" -> <<Closed(v, MaxV + 1)>>
      [] op = "="  -> <<Closed(v, v)>>
      [] op = "!=" -> Negate(Closed(v, v))

\* getIntervals: the intervals of the values v' with v' op v.
getIntervals(op, v) ==
    CASE op = "<"  -> <<OpenR(0, v)>>
      [] op = ">"  -> <<OpenL(v, MaxV)>>
      [] op = "<=" -> <<Closed(0, v)>>
      [] op = ">=" -> <<Closed(v, MaxV)>>
      [] op = "="  -> <<Closed(v, v)>>
      [] op = "!=" -> Negate(Closed(v, v))

\* NewParamIntervalBuilder: the builder for param, ops turned into a set.
NewParamIntervalBuilder(param, ops) == [param |-> param, ops |-> ops]

\* The builder every Build below runs on.
ib == NewParamIntervalBuilder(Param, Ops)

\* buildCond: an unknown first parameter fails validation; a condition on
\* another parameter, with a second parameter that is not a constant, or
\* with an operator the builder does not accept contributes nothing.
buildCond(c) ==
    IF c.p \notin Known THEN Failed
    ELSE IF c.p # ib.param \/ c.v = NonConst \/ c.op \notin ib.ops THEN Ok(<<>>)
    ELSE Ok(getIntervals(c.op, c.v))

\* The loop of union after the sort: fold each interval into prev while
\* Union is ok, else emit prev.
RECURSIVE Merge(_, _, _)
Merge(prev, rest, res) ==
    IF rest = <<>> THEN Append(res, prev)
    ELSE LET u == BUnion(prev, Head(rest)) IN
         IF u.ok THEN Merge(u.t, Tail(rest), res)
         ELSE Merge(Head(rest), Tail(rest), Append(res, prev))

\* Bug variant: sorted, but neighbours never merged.
unionNoMerge(ivs) == SortSeq(ivs, StartsBefore)

\* union: sort by StartsBefore, then merge neighbours.
union(ivs) ==
    IF ivs = <<>> THEN ivs
    ELSE LET sorted == SortSeq(ivs, StartsBefore)
         IN  Merge(Head(sorted), Tail(sorted), <<>>)

\* One round of intersect: the non-empty Intersect of every pair, prev's
\* interval in the outer loop.
Cross(prev, curr) ==
    FlattenSeq([j \in 1..Len(prev) |->
        LET hits == SelectSeq([k \in 1..Len(curr) |-> BIntersect(prev[j], curr[k])],
                              LAMBDA h : h.ok)
        IN  [k \in 1..Len(hits) |-> hits[k].t]])

\* Bug variant: the loop never assigns prev = group.
intersectNoFold(groups) == IF groups = <<>> THEN <<>> ELSE Head(groups)

\* intersect: no groups give no intervals; otherwise fold Cross over them.
intersect(groups) ==
    IF groups = <<>> THEN <<>>
    ELSE FoldLeft(Cross, Head(groups), Tail(groups))

AnyErr(rs) == \E k \in DOMAIN rs : rs[k].err

RECURSIVE Build(_), buildOR(_), buildXCond(_)

\* Build: the union of what every OR branch builds.
Build(e) ==
    LET rs == [k \in 1..Len(e.or) |-> buildOR(e.or[k])] IN
    IF AnyErr(rs) THEN Failed
    ELSE Ok(union(FlattenSeq([k \in 1..Len(rs) |-> rs[k].ivs])))

\* buildOR: the intersection of the non-empty groups its AND terms build.
buildOR(o) ==
    LET rs == [k \in 1..Len(o.and) |-> buildXCond(o.and[k])] IN
    IF AnyErr(rs) THEN Failed
    ELSE LET groups == SelectSeq([k \in 1..Len(rs) |-> rs[k].ivs],
                                 LAMBDA g : g # <<>>)
         IN  Ok(intersect(groups))

\* buildXCond: a sub-expression or a condition, then, under NOT, the
\* concatenation of Negate of each interval built.
buildXCond(x) ==
    LET res == IF "expr" \in DOMAIN x THEN Build(x.expr) ELSE buildCond(x.cond) IN
    IF res.err \/ ~x.not THEN res
    ELSE Ok(FlattenSeq([k \in 1..Len(res.ivs) |-> Negate(res.ivs[k])]))

-----------------------------------------------------------------------------
(* Reference semantics *)

\* Whether the condition is compiled (not skipped, not failing).
Used(c) == c.p = Param /\ c.v # NonConst /\ c.op \in Ops

\* The truth of a compiled condition at the point x of D.
Holds(c, x) ==
    CASE c.op = "<"  -> x < 2 * c.v
      [] c.op = ">"  -> x > 2 * c.v
      [] c.op = "<=" -> x <= 2 * c.v
      [] c.op = ">=" -> x >= 2 * c.v
      [] c.op = "="  -> x = 2 * c.v
      [] c.op = "!=" -> x # 2 * c.v

\* The value of an expression at x in three-valued logic: 0 false, 2 true,
\* 1 unknown (it depends on a condition the builder skips).
RECURSIVE Val(_, _), ValX(_, _)
ValX(t, x) ==
    LET v == IF "expr" \in DOMAIN t THEN Val(t.expr, x)
             ELSE IF Used(t.cond) THEN (IF Holds(t.cond, x) THEN 2 ELSE 0)
             ELSE 1
    IN  IF t.not THEN 2 - v ELSE v
Val(e, x) ==
    Max({Min({ValX(e.or[i].and[j], x) : j \in DOMAIN e.or[i].and}) : i \in DOMAIN e.or})

RECURSIVE Conds(_)
Conds(e) == UNION {UNION {IF "expr" \in DOMAIN t THEN Conds(t.expr) ELSE {t.cond} :
                              t \in ToSet(e.or[i].and)} : i \in DOMAIN e.or}

-----------------------------------------------------------------------------
(* Bounded inputs: every expression of at most three conditions, in the    *)
(* shapes c, c AND c, c OR c, (c AND c) OR c and c AND NOT? (c OR c).      *)

\* Every operator and constant on the target; one condition on each other
\* name, which the builder treats alike whatever its operator and value.
Conditions == [p : {Param}, op : OpsAll, v : Vals]
               \cup [p : Names \ {Param}, op : {"="}, v : {Min(Vals)}]
               \cup [p : {Param}, op : {"="}, v : NonConsts]

Terms == [not : Nots, cond : Conditions]

Or(bs) == [or |-> bs]
And(ts) == [and |-> ts]

Exprs ==
    {Or(<<And(<<a>>)>>) : a \in Terms}
    \cup {Or(<<And(<<a, b>>)>>) : a, b \in Terms}
    \cup {Or(<<And(<<a>>), And(<<b>>)>>) : a, b \in Terms}
    \cup {Or(<<And(<<a, b>>), And(<<c>>)>>) : a, b, c \in Terms}
    \cup {Or(<<And(<<a, [not |-> n, expr |-> Or(<<And(<<b>>), And(<<c>>)>>)]>>)>>) :
             a, b, c \in Terms, n \in Nots}

-----------------------------------------------------------------------------
(* One call of Build on an expression a client sent *)

VARIABLES expr, out

vars == <<expr, out>>

NotBuilt == [err |-> FALSE, ivs |-> <<>>, built |-> FALSE]

Init == expr \in Exprs /\ out = NotBuilt

Compile == /\ out = NotBuilt
           /\ out' = Build(expr) @@ [built |-> TRUE]
           /\ UNCHANGED expr

Spec == Init /\ [][Compile]_vars

Done == out.built /\ ~out.err

-----------------------------------------------------------------------------
(* Properties *)

TypeOK == /\ Conds(expr) \subseteq Conditions
          /\ out \in [err : BOOLEAN, ivs : Seq(Interval), built : BOOLEAN]

(* Build returns the minimal sorted list of disjoint intervals (spec 4.4):  *)
(* every interval is non-empty and ends before the next one starts, with a  *)
(* gap between them, whatever the AND, OR and NOT terms concatenated.       *)
BuildMinimal ==
    Done => \A k \in DOMAIN out.ivs :
              /\ Pts(out.ivs[k]) # {}
              /\ k < Len(out.ivs) => Max(Pts(out.ivs[k])) + 1 < Min(Pts(out.ivs[k + 1]))

(* When every condition of the expression is compiled, the intervals Build *)
(* returns hold exactly the values that satisfy the expression.           *)
BuildExact ==
    Done /\ (\A c \in Conds(expr) : Used(c)) =>
        PtsOf(out.ivs) = {x \in D : Val(expr, x) = 2}

(* The intervals prune chunk scans (spec 4.4), so a value that may satisfy *)
(* the expression, whatever the skipped conditions say, lies in one of    *)
(* them once Build returns any interval at all.                           *)
PruningSound ==
    Done /\ out.ivs # <<>> => {x \in D : Val(expr, x) > 0} \subseteq PtsOf(out.ivs)

====
