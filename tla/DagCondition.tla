---------------------------- MODULE DagCondition ----------------------------
(***************************************************************************)
(* platform/dag_engine.py: the condition of a step, evaluated by a walk    *)
(* over its syntax tree that fails open.  A value is a tuple tagged with   *)
(* its Python type (a bool is the int 0 or 1); a node is a record tagged   *)
(* with its class.  TLC compares the walk with Python's own evaluation.    *)
(***************************************************************************)
EXTENDS Integers, SequencesExt

CONSTANTS Ids,              \* the names an expression may mention
          Attrs,            \* the attributes it may take
          Values            \* the values a name may have in the context

VARIABLES expr, env, decided    \* the condition, its variables, the verdict

vars == <<expr, env, decided>>

IntV(i) == <<"int", i>>
None == <<"none">>
Err  == <<"error">>             \* an exception
Bool(b) == IF b THEN IntV(1) ELSE IntV(0)

Truth(v) == CASE v[1] = "int" -> v[2] # 0
              [] v[1] = "none" -> FALSE
              [] v[1] = "list" -> v[2] # <<>>
              [] v[1] = "dict" -> DOMAIN v[2] # {}

\* One comparison; an ordering of other than two numbers raises, a membership
\* in something that is no list is false.
Holds(op, l, r) ==
    CASE op = "==" -> Bool(l = r)
      [] op = "<"  -> IF l[1] = "int" /\ r[1] = "int" THEN Bool(l[2] < r[2])
                      ELSE Err
      [] op = "in" -> Bool(r[1] = "list" /\ l \in Range(r[2]))
      [] OTHER     -> Err                                \* unsupported operator

Operators == {"==", "<", "in"}  \* standing for all of _ALLOWED_COMPARE_OPS

Some(s, P(_)) == \E i \in DOMAIN s : P(s[i])

\* _eval_node.  Every operand is evaluated, of and/or as of a comparison;
\* only the comparison itself is left out once the result is false.
RECURSIVE EvalNode(_, _)
EvalNode(n, e) ==
    CASE n.k = "const" -> n.v
      [] n.k = "name"  -> e[n.id]
      [] n.k = "attr"  -> LET o == EvalNode(n.of, e)
                          IN IF o[1] # "dict" THEN Err
                             ELSE IF n.attr \in DOMAIN o[2] THEN o[2][n.attr]
                             ELSE None
      [] n.k = "not"   -> LET o == EvalNode(n.of, e)
                          IN IF o = Err THEN Err ELSE Bool(~Truth(o))
      [] n.k = "neg"   -> LET o == EvalNode(n.of, e)
                          IN IF o[1] = "int" THEN IntV(0 - o[2]) ELSE Err
      [] n.k = "bool"  -> LET vs == [i \in DOMAIN n.vs |-> EvalNode(n.vs[i], e)]
                          IN IF Some(vs, LAMBDA v : v = Err) THEN Err
                             ELSE IF n.op = "and"
                                  THEN Bool(~Some(vs, LAMBDA v : ~Truth(v)))
                                  ELSE Bool(Some(vs, LAMBDA v : Truth(v)))
      [] n.k = "cmp"   -> LET vs == [i \in DOMAIN n.vs |-> EvalNode(n.vs[i], e)]
                              Step(acc, i) ==
                                  IF acc = Err \/ vs[i] = Err \/ vs[i + 1] = Err
                                       \/ n.ops[i] \notin Operators
                                  THEN Err
                                  ELSE IF ~Truth(acc) THEN acc
                                  ELSE Holds(n.ops[i], vs[i], vs[i + 1])
                          IN FoldLeft(Step, Bool(TRUE),
                                      [i \in DOMAIN n.ops |-> i])
      [] OTHER         -> Err                            \* unsupported node

\* Mutant: an exception skips the step.
SafeEvalClosed(n, e) ==
    LET v == EvalNode(n, e) IN IF v = Err THEN FALSE ELSE Truth(v)

\* _safe_eval_condition: any exception lets the step run.
SafeEval(n, e) == LET v == EvalNode(n, e) IN IF v = Err THEN TRUE ELSE Truth(v)

-----------------------------------------------------------------------------
(* Conditions: an atom, a comparison (chained or not), not, and/or.        *)

Atoms == {[k |-> "const", v |-> IntV(1)], [k |-> "call"]}
         \cup {[k |-> "name", id |-> i] : i \in Ids}
         \cup {[k |-> "attr", of |-> [k |-> "name", id |-> i], attr |-> a] :
                   i \in Ids, a \in Attrs}
Compares == {[k |-> "cmp", ops |-> <<op>>, vs |-> <<l, r>>] :
                 op \in Operators, l \in Atoms, r \in Atoms}
Chains == {[k |-> "cmp", ops |-> ops, vs |-> <<l, r, l>>] :
                 ops \in {<<"<", "<">>, <<"==", "is">>}, l \in Atoms, r \in Atoms}
Units == {[k |-> u, of |-> a] : u \in {"not", "neg"}, a \in Atoms}
Conditions == Atoms \cup Compares \cup Chains \cup Units \cup
    {[k |-> "bool", op |-> op, vs |-> <<l, r>>] :
         op \in {"and", "or"}, l \in Atoms,
         r \in Atoms \cup {c \in Compares : c.ops = <<"<">>}}

Init ==
    /\ expr \in Conditions
    /\ env \in [Ids -> Values]      \* {**ctx.context, **ctx.input_data}
    /\ decided = "no"

EvalCondition ==
    /\ decided = "no"
    /\ decided' = IF SafeEval(expr, env) THEN "run" ELSE "skip"
    /\ UNCHANGED <<expr, env>>

Next == EvalCondition

-----------------------------------------------------------------------------
(* Python's evaluation, with its short circuits, as the reference.         *)

RECURSIVE PyEval(_, _)
PyEval(n, e) ==
    IF n.k = "bool"
    THEN LET l == PyEval(n.vs[1], e)
         IN IF l = Err \/ Truth(l) = (n.op = "or") THEN l
            ELSE PyEval(n.vs[2], e)
    ELSE IF n.k = "cmp" /\ Len(n.ops) = 2
    THEN LET one == PyEval([k |-> "cmp", ops |-> <<n.ops[1]>>,
                            vs |-> <<n.vs[1], n.vs[2]>>], e)
         IN IF one = Err \/ ~Truth(one) THEN one
            ELSE PyEval([k |-> "cmp", ops |-> <<n.ops[2]>>,
                         vs |-> <<n.vs[2], n.vs[3]>>], e)
    ELSE EvalNode(n, e)

\* A step is skipped only when Python, too, finds the condition false; it runs
\* against Python's verdict only when an operand Python would not have looked
\* at raises (the walk does not short-circuit), never for another reason.
SkipAgreesWithPython ==
    LET py == PyEval(expr, env)
        runs == py = Err \/ Truth(py)
    IN /\ decided = "skip" => ~runs
       /\ decided = "run" => runs \/ EvalNode(expr, env) = Err

TypeOK == decided \in {"no", "run", "skip"}

=============================================================================
