------------------------------- MODULE Checker -------------------------------
(***************************************************************************)
(* The checker (src/src/checker.rs) on the bodies of Syntax: the type of   *)
(* every expression, what a condition proves about the names it looks at,  *)
(* where those facts hold, whether every way through gives a value, and    *)
(* whether a parameter the caller still owns is changed.                   *)
(*                                                                         *)
(* A state k of the checker: env, the scopes, each from a name to its type *)
(* and how it was bound; ok, whether nothing was refused yet -- nothing is *)
(* checked after that; guard, what the statement just checked proves for   *)
(* the ones after it; loops, how many are open; ret, the type to return;   *)
(* ty, the type just found.                                                *)
(***************************************************************************)
EXTENDS Syntax, Types, TLC
LOCAL INSTANCE SequencesExt

Typed(k, t) == [k EXCEPT !.ty = t]
Refused(k) == [k EXCEPT !.ok = FALSE, !.ty = TNever]
Needs(k, holds) == IF k.ok /\ ~holds THEN Refused(k) ELSE k
\* What is looked at only while nothing was refused.
IfOk(k, After(_)) == IF k.ok THEN After(k) ELSE k

(* Scopes. *)
PushScope(k) == [k EXCEPT !.env = Append(@, <<>>)]
PopScope(k) == [k EXCEPT !.env = Front(@)]
Declare(k, x, t, kind) == [k EXCEPT !.env[Len(k.env)] = (x :> [ty |-> t, kind |-> kind]) @@ @]
Lookup(k, x) ==
    LET i == CHOOSE i \in DOMAIN k.env : x \in DOMAIN k.env[i] /\ \A j \in DOMAIN k.env : j > i => x \notin DOMAIN k.env[j]
    IN  k.env[i][x]
Mutable(b) == b.kind = "var"
DeclareNew(k, x, t, kind) == Declare(Needs(k, x \notin DOMAIN Last(k.env)), x, t, kind)

(* What a condition proves when it comes out as positive, about names that *)
(* cannot be assigned; and those facts as bindings of the innermost scope. *)
IsTarget(t) == IF t = "List" THEN TList(TAny) ELSE <<t>>
RECURSIVE Narrowings(_, _, _)
Narrowings(c, positive, k) ==
    CASE c.e = "not" -> Narrowings(c.v, ~positive, k)
      [] c.e = "logic" ->
            IF Implied(c.op, positive) = {positive}
            THEN Narrowings(c.a, positive, k) \o Narrowings(c.b, positive, k) ELSE <<>>
      [] c.e \in {"isNull", "is"} ->
            IF c.v.e # "name" \/ Mutable(Lookup(k, c.v.x)) THEN <<>>
            ELSE LET b == Lookup(k, c.v.x)
                 IN  CASE c.e = "is" -> IF positive THEN <<<<c.v.x, IsTarget(c.t)>>>> ELSE <<>>
                       [] c.ne = positive /\ IsNullable(b.ty) -> <<<<c.v.x, WithoutNull(b.ty)>>>>
                       [] OTHER -> <<>>
      [] OTHER -> <<>>
Apply1(k, fact) == Declare(k, fact[1], fact[2], Lookup(k, fact[1]).kind)
Applied(facts, k) == FoldLeft(Apply1, k, facts)

(* A parameter written without `var`: its contents are the caller's. *)
RECURSIVE MutationRoot(_)
MutationRoot(e) ==
    CASE e.e = "name" -> {e.x}
      [] e.e = "field" -> MutationRoot(e.o)
      [] e.e \in {"at", "first", "removeAt"} -> MutationRoot(e.l)
      [] e.e = "notnull" -> MutationRoot(e.v)
      [] OTHER -> {}
OnlyNames(e, k) == e.e = "name" /\ Lookup(k, e.x).kind = "param"  \* mutant
Borrowed(e, k) == \E x \in MutationRoot(e) : Lookup(k, x).kind = "param"
MutatingMethods == {"push", "insert", "removeAt", "clear", "setAt"}

\* The functions of the program: the types of their parameters, which of
\* those they may change, and the type of the answer.
Signature(f) ==
    CASE f = "ask" -> [params |-> <<>>, var |-> {}, ret |-> TBool]
      [] f = "maybe" -> [params |-> <<>>, var |-> {}, ret |-> Nullable(TStr)]
      [] f = "boom" -> [params |-> <<TStr>>, var |-> {}, ret |-> TStr]
      [] f = "fill" -> [params |-> <<TList(TStr)>>, var |-> {1}, ret |-> TUnit]
      [] f = "look" -> [params |-> <<TList(TStr)>>, var |-> {}, ret |-> TUnit]
\* The methods of a list of t.
ListSig(name, t) ==
    CASE name = "push" -> [params |-> <<t>>, ret |-> TUnit]
      [] name = "insert" -> [params |-> <<TInt, t>>, ret |-> TUnit]
      [] name = "removeAt" -> [params |-> <<TInt>>, ret |-> t]
      [] name = "clear" -> [params |-> <<>>, ret |-> TUnit]
      [] name = "first" -> [params |-> <<>>, ret |-> Nullable(t)]

\* The values of a closed set, `null` among them when the type admits it, and
\* the one an arm accounts for when it can be seen.
RECURSIVE ClosedSet(_)
ClosedSet(t) ==
    CASE t = TBool -> {"true", "false"}
      [] t = TSuit -> {"H", "S"}
      [] t[1] = "opt" -> IF ClosedSet(t[2]) = {} THEN {} ELSE {"null"} \cup ClosedSet(t[2])
      [] OTHER -> {}
Covers(v) ==
    CASE v.e = "suit" -> {v.n} [] v.e = "truth" -> {IF v.b THEN "true" ELSE "false"} [] v.e = "null" -> {"null"}
      [] OTHER -> {}

\* An expression, of the type wanted when there is one, or a statement.
RECURSIVE Check(_, _, _)

\* A value used where want is asked for; one that is no value never is.
Expect(k, want) == Needs(k, IF k.ty = TUnit THEN want = TUnit ELSE AssignableTo(k.ty, want))
Value(e, want, k) == Expect(Check(e, <<want>>, k), want)
\* Arguments against parameters, in order.
RECURSIVE CheckAll(_, _, _, _)
CheckAll(es, wants, i, k) == IF i > Len(es) THEN k ELSE CheckAll(es, wants, i + 1, Value(es[i], wants[i], k))

\* The type of a block is that of its last statement, unless one always
\* leaves; t is the type so far.
RECURSIVE CheckStmts(_, _, _, _)
CheckStmts(body, i, t, k) ==
    IF i > Len(body) \/ ~k.ok THEN Typed(k, t)
    ELSE With(Check(body[i], <<>>, k), LAMBDA c :
            CheckStmts(body, i + 1, IF TNever \in {t, c.ty} THEN TNever ELSE IF i = Len(body) THEN c.ty ELSE TUnit,
                       [Applied(c.guard, c) EXCEPT !.guard = <<>>]))

CheckBlock(body, k) == PopScope(CheckStmts(body, 1, TUnit, PushScope(k)))

(* Expressions. *)
CheckCall(e, k) ==
    LET f == Signature(e.f)
        c == CheckAll(e.args, f.params, 1, k)
    IN  Typed(Needs(c, \A i \in f.var : ~Borrowed(e.args[i], k)), f.ret)

\* What a method call may reach through: nothing that may be null, unless it
\* is written `?.`, which makes the answer nullable.
CheckField(e, k) == IfOk(Check(e.o, <<>>, k), LAMBDA o :
    LET base == IF e.safe THEN WithoutNull(o.ty) ELSE o.ty
    IN  Typed(Needs(o, base = TBox /\ (e.safe => IsNullable(o.ty))), IF e.safe THEN Nullable(TStr) ELSE TStr))
MethodArgs(e) == CASE e.e = "push" -> <<e.v>> [] e.e = "insert" -> <<e.i, e.v>> [] e.e = "removeAt" -> <<e.i>> [] OTHER -> <<>>
CheckMethod(e, k) == IfOk(Check(e.l, <<>>, k), LAMBDA o :
    IF o.ty[1] # "List" \/ (e.e \in MutatingMethods /\ Borrowed(e.l, k)) THEN Refused(o)
    ELSE LET f == ListSig(e.e, o.ty[2]) IN Typed(CheckAll(MethodArgs(e), f.params, 1, o), f.ret))
CheckIndex(e, k) == IfOk(Check(e.l, <<>>, k), LAMBDA o :
    IF o.ty[1] # "List" THEN Refused(o) ELSE Typed(Value(e.i, TInt, o), o.ty[2]))

RECURSIVE Elements(_, _, _, _)
Elements(items, hint, t, k) ==
    IF items = <<>> THEN Typed(k, TList(t))
    ELSE IfOk(IF hint = <<>> THEN Check(items[1], <<>>, k) ELSE Typed(Value(items[1], hint[1], k), hint[1]),
              LAMBDA v : Elements(Tail(items), hint, Joined(t, v.ty), v))
CheckList(e, want, k) ==
    LET hint == IF want # <<>> /\ want[1][1] = "List" THEN <<want[1][2]>> ELSE <<>>
    IN  Elements(e.items, hint, IF hint = <<>> THEN TNever ELSE hint[1], k)

CheckAdd(e, k) == IfOk(Check(e.a, <<>>, k), LAMBDA a : IfOk(Check(e.b, <<>>, a), LAMBDA b :
    Typed(Needs(b, \/ a.ty = TStr /\ b.ty # TUnit
                   \/ a.ty = TInt /\ b.ty = TInt), a.ty)))

\* The right side may rely on what the left one proves where it is reached.
CheckLogical(e, k) ==
    LET a == Value(e.a, TBool, k)
        facts == IF Reaches(e.op) = {} THEN <<>> ELSE Narrowings(e.a, TRUE \in Reaches(e.op), k)
    IN  IfOk(a, LAMBDA l : Typed(PopScope(Value(e.b, TBool, Applied(facts, PushScope(l)))), TBool))

CheckElvis(e, want, k) == IfOk(Check(e.a, want, k), LAMBDA a :
    LET left == WithoutNull(a.ty)
    IN  IfOk(Check(e.b, <<left>>, Needs(a, IsNullable(a.ty) \/ a.ty = TNever)),
             LAMBDA b : Typed(b, Joined(left, b.ty))))

CheckTernary(e, want, k) == IfOk(Value(e.c, TBool, k), LAMBDA c :
    IfOk(Check(e.a, want, c), LAMBDA a : IfOk(Check(e.b, want, a), LAMBDA b : Typed(b, Joined(a.ty, b.ty)))))

\* Each branch under what the condition proves there.  A branch that always
\* leaves proves the opposite for what comes after: kept as the guard.
WhenRight(k, facts, body) == PopScope(CheckBlock(body, Applied(facts, PushScope(k))))
OnlyBranch(e, want, t, k) ==
    LET facts == Narrowings(e.c, FALSE, k)
    IN  IF want # <<>> /\ want[1] # TUnit THEN Refused(t)
        ELSE [Typed(t, TUnit) EXCEPT !.guard = IF t.ty = TNever /\ facts # <<>> THEN facts ELSE @]
CheckIf(e, want, k) == IfOk(Value(e.c, TBool, k), LAMBDA c :
    IfOk(WhenRight(c, Narrowings(e.c, TRUE, k), e.then), LAMBDA t :
        IF e.els = <<>> THEN OnlyBranch(e, want, t, k)
        ELSE LET facts == Narrowings(e.c, FALSE, k)
                 elseIf == Len(e.els) = 1 /\ e.els[1].s = "expr" /\ e.els[1].v.e = "if"
             IN  IfOk(IF elseIf THEN PopScope(Check(e.els[1].v, want, Applied(facts, PushScope(t))))
                      ELSE WhenRight(t, facts, e.els),
                      LAMBDA f : Typed(f, Joined(t.ty, f.ty)))))

(* `when`.  What an arm without a guard rules out holds for the arms below *)
(* it, and a closed subject is covered by the values its arms name.        *)
\* The tests of an arm against the subject, or each a condition of its own.
RECURSIVE CheckTests(_, _, _, _)
CheckTests(tests, st, k, i) ==
    IF i > Len(tests) THEN k
    ELSE CheckTests(tests, st,
            IF st = <<>> THEN Value(tests[i], TBool, k)
            ELSE IfOk(Check(tests[i], st, k), LAMBDA v : Needs(v, AssignableTo(v.ty, st[1]) \/ AssignableTo(st[1], v.ty))),
            i + 1)
\* What holds in the arm, and in the ones below.
InArm(a, subject, st, k) ==
    CASE a.is # "" -> IF subject.e = "name" /\ ~Mutable(Lookup(k, subject.x)) THEN <<<<subject.x, IsTarget(a.is)>>>> ELSE <<>>
      [] st = <<>> /\ Len(a.tests) = 1 -> Narrowings(a.tests[1], TRUE, k)
      [] OTHER -> <<>>
BelowArm(a, subject, st, k) ==
    IF st = <<>> THEN FlattenSeq([i \in DOMAIN a.tests |-> Narrowings(a.tests[i], FALSE, k)])
    ELSE IF /\ \E i \in DOMAIN a.tests : a.tests[i].e = "null"
            /\ subject.e = "name" /\ ~Mutable(Lookup(k, subject.x)) /\ IsNullable(Lookup(k, subject.x).ty)
         THEN <<<<subject.x, WithoutNull(Lookup(k, subject.x).ty)>>>> ELSE <<>>

\* An arm: its tests, its guard, its body.  It may name no value twice.
Seen(a) == UNION {Covers(a.tests[j]) : j \in DOMAIN a.tests}
Counts(a, q) == q.closed # {} /\ a.guard = <<>>
Once(a, q) == Counts(a, q) => /\ Seen(a) \cap q.covered = {}
                              /\ \A j, l \in DOMAIN a.tests : j # l => Covers(a.tests[j]) \cap Covers(a.tests[l]) = {}
InGuard(a, k) == IF a.guard = <<>> THEN k ELSE Value(a.guard[1], TBool, k)
CheckArm(a, subject, q, o) ==
    IfOk(IfOk(Needs(CheckTests(a.tests, q.st, o, 1), Once(a, q)),
              LAMBDA x : InGuard(a, Applied(InArm(a, subject, q.st, o), x))),
         LAMBDA x : PopScope(CheckBlock(a.body, x)))

\* q gathers, over the arms: the type, what is ruled out and what is covered.
RECURSIVE CheckArms(_, _, _, _)
CheckArms(e, q, i, k) ==
    IF i > Len(e.arms) \/ ~k.ok THEN [q EXCEPT !.k = k]
    ELSE LET a == e.arms[i]
             o == Applied(q.below, PushScope(k))
         IN  With(CheckArm(a, e.subject, q, o), LAMBDA b :
                CheckArms(e, [q EXCEPT !.ty = Joined(@, b.ty),
                                       !.below = @ \o (IF a.guard = <<>> THEN BelowArm(a, e.subject, q.st, o) ELSE <<>>),
                                       !.covered = @ \cup (IF Counts(a, q) THEN Seen(a) ELSE {}),
                                       !.else = IF a.tests = <<>> /\ a.is = "" THEN a.guard = <<>> ELSE @], i + 1, b))

\* A `when` gives a value when an arm always runs; one that need not does not.
EndsWhen(q, want) ==
    IF q.else \/ (q.closed # {} /\ q.closed \subseteq q.covered) THEN Typed(q.k, q.ty)
    ELSE IF q.closed # {} \/ q.ty \notin {TUnit, TNever} \/ want # <<>> THEN Refused(q.k) ELSE Typed(q.k, TUnit)
CheckWhen(e, want, k) ==
    LET Arms(s, st) == CheckArms(e, [k |-> s, st |-> st, closed |-> IF st = <<>> THEN {} ELSE ClosedSet(st[1]),
                                     ty |-> TNever, below |-> <<>>, covered |-> {}, else |-> FALSE], 1, s)
    IN  With(IF e.subject.e = "none" THEN Arms(k, <<>>) ELSE With(Check(e.subject, <<>>, k), LAMBDA s : Arms(s, <<s.ty>>)),
             LAMBDA q : IF q.k.ok THEN EndsWhen(q, want) ELSE q.k)

(* Assignments: what they reach through may be a parameter. *)
CheckAssign(e, k) ==
    CASE e.e \in {"assign", "addTo"} ->
            LET b == Lookup(k, e.x)
                v == Value(e.v, b.ty, Needs(k, Mutable(b)))
            IN  Typed(Needs(v, e.e = "addTo" => b.ty \in {TStr, TInt}), TUnit)
      [] e.e = "setField" -> IfOk(Check(e.o, <<>>, Needs(k, ~Borrowed(e.o, k))), LAMBDA o :
            Typed(Value(e.v, TStr, Needs(o, o.ty = TBox)), TUnit))
      [] e.e = "setAt" -> IfOk(Check(e.l, <<>>, Needs(k, ~Borrowed(e.l, k))), LAMBDA o :
            IF o.ty[1] # "List" THEN Refused(o) ELSE Typed(Value(e.v, o.ty[2], Value(e.i, TInt, o)), TUnit))

CheckExpr(e, want, k) ==
    IF ~k.ok THEN k ELSE
    CASE e.e = "str" -> Typed(k, TStr)
      [] e.e \in {"num", "idx"} -> Typed(k, TInt)
      [] e.e = "null" -> Typed(k, TNull)
      [] e.e = "truth" -> Typed(k, TBool)
      [] e.e = "suit" -> Typed(k, TSuit)
      [] e.e = "name" -> Typed(k, Lookup(k, e.x).ty)
      [] e.e = "this" -> Typed(k, TBox)
      [] e.e \in {"call", "maybe"} -> CheckCall(e, k)
      [] e.e = "print" -> Typed(Value(e.v, TAny, k), TUnit)
      [] e.e = "add" -> CheckAdd(e, k)
      [] e.e = "box" -> Typed(Value(e.v, TStr, k), TBox)
      [] e.e = "field" -> CheckField(e, k)
      [] e.e = "list" -> CheckList(e, want, k)
      [] e.e = "at" -> CheckIndex(e, k)
      [] e.e \in {"push", "insert", "removeAt", "clear", "first"} -> CheckMethod(e, k)
      [] e.e = "if" -> CheckIf(e, want, k)
      [] e.e = "ternary" -> CheckTernary(e, want, k)
      [] e.e = "when" -> CheckWhen(e, want, k)
      [] e.e = "elvis" -> CheckElvis(e, want, k)
      [] e.e = "notnull" -> IfOk(Check(e.v, <<>>, k), LAMBDA v : Typed(Needs(v, IsNullable(v.ty)), WithoutNull(v.ty)))
      [] e.e = "logic" -> CheckLogical(e, k)
      [] e.e = "not" -> Value(e.v, TBool, k)
      [] e.e = "isNull" -> IfOk(Check(e.v, <<>>, k), LAMBDA v : Typed(Needs(v, IsNullable(v.ty) \/ v.ty = TNever), TBool))
      [] e.e = "is" -> IfOk(Check(e.v, <<>>, k), LAMBDA v : Typed(Needs(v, v.ty # IsTarget(e.t)), TBool))
      [] OTHER -> CheckAssign(e, k)

(* Statements. *)
CheckLet(s, k) ==
    With(IF s.as = <<>> THEN Check(s.v, <<>>, k) ELSE Typed(Value(s.v, s.as[1], k), s.as[1]), LAMBDA v :
        Typed(DeclareNew(Needs(v, s.as = <<>> => v.ty \notin {TUnit, TNull}), s.x, v.ty, IF s.var THEN "var" ELSE "val"), TUnit))
CheckWhile(s, k) == IfOk(Value(s.c, TBool, k), LAMBDA c :
    LET b == PopScope(CheckBlock(s.body, Applied(Narrowings(s.c, TRUE, k), PushScope([c EXCEPT !.loops = @ + 1]))))
    IN  Typed([b EXCEPT !.loops = @ - 1], TUnit))
CheckFor(s, k) == IfOk(Check(s.l, <<>>, k), LAMBDA l :
    IF l.ty[1] # "List" THEN Refused(l)
    ELSE LET o == Declare(PushScope([l EXCEPT !.loops = @ + 1]), s.x, l.ty[2], "loop")
         IN  Typed([PopScope(CheckBlock(s.body, o)) EXCEPT !.loops = @ - 1], TUnit))
CheckTry(s, k) == IfOk(CheckBlock(s.body, k), LAMBDA b :
    With(PopScope(CheckStmts(s.handler, 1, TUnit, Declare(PushScope(b), s.x, TStr, "val"))), LAMBDA h :
        Typed(h, IF b.ty = TNever /\ h.ty = TNever THEN TNever ELSE TUnit)))
CheckDestructure(s, k) == IfOk(Check(s.v, <<TBox>>, k), LAMBDA v :
    Typed(DeclareNew(Needs(v, v.ty = TBox), s.x, TStr, "val"), TUnit))

\* A guard narrows what follows only when it is itself a statement.
CheckStmt(s, k0) ==
    LET k == [k0 EXCEPT !.guard = <<>>]
    IN  CASE ~k.ok -> k
          [] s.s = "expr" -> Check(s.v, <<>>, k)
          [] s.s = "let" -> CheckLet(s, k)
          [] s.s = "destructure" -> CheckDestructure(s, k)
          [] s.s = "block" -> Typed(CheckBlock(s.body, k), TUnit)
          [] s.s = "return" -> Typed(Value(s.v, k.ret, Needs(k, k.ret # TUnit)), TNever)
          [] s.s = "throw" -> Typed(Check(s.v, <<>>, k), TNever)
          [] s.s = "try" -> CheckTry(s, k)
          [] s.s = "while" -> CheckWhile(s, k)
          [] s.s = "forIn" -> CheckFor(s, k)
          [] OTHER -> Typed(Needs(k, k.loops > 0), TNever)

Check(n, want, k) == IF "e" \in DOMAIN n THEN CheckExpr(n, want, k) ELSE CheckStmt(n, k)

\* A function: its parameters, its body, and no way to fall off the end of one
\* that gives a value.
CheckFunBody(params, ret, body) ==
    LET start == [env |-> <<<<>>>>, ok |-> TRUE, guard |-> <<>>, loops |-> 0, ret |-> ret, ty |-> TUnit]
        k == FoldLeft(LAMBDA c, p : Declare(c, p.x, p.ty, IF p.var THEN "mutParam" ELSE "param"), start, params)
    IN  With(CheckBlock(body, k), LAMBDA b :
            Needs(b, ret = TUnit \/ b.ty = TNever \/ (b.ty # TUnit /\ AssignableTo(b.ty, ret))).ok)
=============================================================================
