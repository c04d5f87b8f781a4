------------------------------ MODULE ConstFold ------------------------------
(***************************************************************************)
(* The compile-time evaluator behind `constexpr` (src/src/constfold.rs) on *)
(* the trees of Syntax, and the checker's use of it: what a                *)
(* `constexpr val` is worth, written back into the tree as a literal.      *)
(*                                                                         *)
(* The folder is a second evaluator beside the three engines.  Its lists   *)
(* are values, <<"list", items>>, where those of the engines are places in *)
(* a heap; what it does not know it refuses.                               *)
(*                                                                         *)
(* A state f of it: scopes, each what is bound in it; floor, the scope a   *)
(* function's body can see down to; budget, the steps left; depth, the     *)
(* calls open; flow and v, as in Natives.                                  *)
(***************************************************************************)
EXTENDS Natives, TLC
LOCAL INSTANCE SequencesExt
LOCAL INSTANCE FiniteSetsExt

CONSTANTS Budget,    \* the steps of one `constexpr`: 2 000 000 in the code
          MaxDepth,  \* the calls open in one: 256 in the code
          Funs       \* the `constexpr func`s of the program, by name

Refused(f) == Fails(f, <<"refused">>)
Unknown(f) == Fails(f, <<"not a constexpr">>)
Unfinished(f) == Fails(f, <<"did not finish">>)
ListValue(items) == <<"list", items>>
IsListValue(v) == v[1] = "list"

\* One step: before each expression, each statement and each turn of a loop.
Step(f) == IF f.budget = 0 THEN Unfinished(f) ELSE [f EXCEPT !.budget = @ - 1]

(* Names, from the innermost scope down to the floor. *)
Holding(f, x) == {i \in f.floor..Len(f.scopes) : x \in DOMAIN f.scopes[i]}
Lookup(f, x) == IF Holding(f, x) = {} THEN Unknown(f) ELSE Goes(f, f.scopes[Max(Holding(f, x))][x])
Rebind(f, x, v) ==
    IF Holding(f, x) = {} THEN Unknown(f) ELSE Goes([f EXCEPT !.scopes[Max(Holding(f, x))][x] = v], Unit)
Bind(f, x, v) == Goes([f EXCEPT !.scopes[Len(f.scopes)] = (x :> v) @@ @], Unit)
Enter(f, scope) == [f EXCEPT !.scopes = Append(@, scope)]
StaysIn(f) == f  \* mutant
Leave(f) == [f EXCEPT !.scopes = Front(@)]

\* `xs.add(v)` and `xs[i] = v`, on a list a name holds.  No index is
\* negative here.
Within(i, items) == i[2] \in 0..(Len(items) - 1)
Mutate(f, x, Edit(_, _)) ==
    Then(Lookup(f, x), LAMBDA r : IF ~IsListValue(r.v) THEN Refused(r)
                                  ELSE Then(Edit(r, r.v[2]), LAMBDA q : Rebind(q, x, ListValue(q.v))))
AddHeld(f, x, v) == Mutate(f, x, LAMBDA r, items : Goes(r, Append(items, v)))
PutAt(f, x, i, v) == Mutate(f, x, LAMBDA r, items :
    IF Within(i, items) THEN Goes(r, [items EXCEPT ![i[2] + 1] = v]) ELSE Fails(r, <<"range">>))

Sum(f, a, b) == IF IsListValue(a) \/ IsListValue(b) THEN Refused(f) ELSE Goes(f, Plus(a, b))
FoldIndex(f, l, i) ==
    IF ~IsListValue(l) THEN Refused(f)
    ELSE IF Within(i, l[2]) THEN Goes(f, l[2][i[2] + 1]) ELSE Fails(f, <<"range">>)

\* Of the connectives only `and` and `or` leave their right side alone.
FoldSettles(op, left) == IF op \in {"and", "or"} THEN Settles(op, left) ELSE {}

\* An expression or a statement.
RECURSIVE Folded(_, _)

RECURSIVE FoldAll(_, _, _, _)
FoldAll(es, f, i, acc) ==
    IF i > Len(es) THEN Goes(f, acc)
    ELSE Then(Folded(es[i], f), LAMBDA r : FoldAll(es, r, i + 1, Append(acc, r.v)))

\* A value that has to be a Bool.
FoldTruth(e, f) == Then(Folded(e, f), LAMBDA r : IF r.v \in {True, False} THEN r ELSE Refused(r))

\* The tests of an arm; the number of the arm that is taken, 0 for none.
RECURSIVE Matched(_, _, _, _)
Matched(tests, subject, f, i) ==
    IF i > Len(tests) THEN Goes(f, False)
    ELSE Then(IF subject = Unit THEN FoldTruth(tests[i], f) ELSE Folded(tests[i], f), LAMBDA r :
            IF r.v = (IF subject = Unit THEN True ELSE subject) THEN Goes(r, True)
            ELSE Matched(tests, subject, r, i + 1))
RECURSIVE Chosen(_, _, _, _)
Chosen(arms, subject, f, i) ==
    IF i > Len(arms) THEN Goes(f, 0)
    ELSE IF arms[i].is # "" THEN Refused(f)
    ELSE Then(IF arms[i].tests = <<>> THEN Goes(f, True) ELSE Matched(arms[i].tests, subject, f, 1), LAMBDA m :
            Then(IF m.v = True /\ arms[i].guard # <<>> THEN FoldTruth(arms[i].guard[1], m) ELSE m, LAMBDA r :
                IF r.v = True THEN Goes(r, i) ELSE Chosen(arms, subject, r, i + 1)))
FoldWhen(e, f, Taken(_, _), None(_)) ==
    Then(IF e.subject.e = "none" THEN Goes(f, Unit) ELSE Folded(e.subject, f), LAMBDA r :
        Then(Chosen(e.arms, r.v, r, 1), LAMBDA c : IF c.v = 0 THEN None(c) ELSE Taken(e.arms[c.v].body, c)))

\* A block for its value, which a jump cannot leave; for its effect, which one
\* can.
RECURSIVE BlockValue(_, _, _)
BlockValue(body, f, i) ==
    IF i > Len(body) THEN Goes(f, Unit)
    ELSE IF i = Len(body) /\ body[i].s = "expr" THEN Folded(body[i].v, f)
    ELSE With(Folded(body[i], f), LAMBDA r :
            IF r.flow \in {"return", "break", "continue"} THEN Refused(r)
            ELSE Then(r, LAMBDA q : BlockValue(body, q, i + 1)))
ForValue(body, f) == Leave(BlockValue(body, Enter(f, <<>>), 1))
RECURSIVE FoldStmts(_, _, _)
FoldStmts(body, f, i) ==
    IF i > Len(body) THEN f ELSE Then(Folded(body[i], f), LAMBDA r : FoldStmts(body, r, i + 1))
ForEffect(body, f) == Leave(FoldStmts(body, Enter(f, <<>>), 1))

\* A call of a `constexpr func`: its body sees its parameters and nothing else.
FoldCall(name, args, f) ==
    IF name \notin DOMAIN Funs THEN Refused(f)
    ELSE IF f.depth = MaxDepth THEN Unfinished(f)
    ELSE LET params == Funs[name].params
             frame == [x \in {params[i] : i \in DOMAIN params} |-> args[CHOOSE i \in DOMAIN params : params[i] = x]]
             called == [Enter(f, frame) EXCEPT !.floor = Len(f.scopes) + 1, !.depth = @ + 1]
         IN  With(FoldStmts(Funs[name].body, called, 1), LAMBDA r :
                LET back == [Leave(r) EXCEPT !.floor = f.floor, !.depth = f.depth]
                IN  CASE r.flow = "ok" -> Goes(back, Unit)
                      [] r.flow = "return" -> Ends(back, "ok", r.v)
                      [] r.flow = "err" -> back
                      [] OTHER -> Refused(back))

\* The expression itself has been checked; the functions are as they were
\* before that, so what the checker writes into a body is not there yet.
FoldExpr(e, f) ==
    CASE e.e = "str" -> Goes(f, <<e.s>>)
      [] e.e = "idx" -> Goes(f, <<"at", e.k>>)
      [] e.e = "widened" -> Goes(f, <<IF f.depth = 0 THEN "float" ELSE "at", e.k>>)
      [] e.e = "truth" -> Goes(f, Bool(e.b))
      [] e.e = "name" -> Lookup(f, e.x)
      [] e.e = "add" -> Then(FoldAll(<<e.a, e.b>>, f, 1, <<>>), LAMBDA r : Sum(r, r.v[1], r.v[2]))
      [] e.e = "less" -> Then(FoldAll(<<e.a, e.b>>, f, 1, <<>>), LAMBDA r : Goes(r, Bool(r.v[1][2] < r.v[2][2])))
      [] e.e = "same" -> Then(FoldAll(<<e.a, e.b>>, f, 1, <<>>), LAMBDA r : Goes(r, Bool(r.v[1] = r.v[2])))
      [] e.e = "not" -> Then(FoldTruth(e.v, f), LAMBDA r : Goes(r, Bool(r.v # True)))
      [] e.e = "logic" -> Then(FoldTruth(e.a, f), LAMBDA r :
            LET left == r.v = True
            IN  IF FoldSettles(e.op, left) # {} THEN Goes(r, Bool(TRUE \in FoldSettles(e.op, left)))
                ELSE Then(FoldTruth(e.b, r), LAMBDA q : Goes(q, Bool(Applies(e.op, left, q.v = True)))))
      [] e.e = "list" -> Then(FoldAll(e.items, f, 1, <<>>), LAMBDA r : Goes(r, ListValue(r.v)))
      [] e.e = "at" -> Then(FoldAll(<<e.l, e.i>>, f, 1, <<>>), LAMBDA r : FoldIndex(r, r.v[1], r.v[2]))
      [] e.e = "size" -> Then(Folded(e.l, f), LAMBDA r :
            IF IsListValue(r.v) THEN Goes(r, <<"at", Len(r.v[2])>>) ELSE Refused(r))
      [] e.e = "push" /\ e.l.e = "name" -> Then(Folded(e.v, f), LAMBDA r : AddHeld(r, e.l.x, r.v))
      [] e.e = "if" -> Then(FoldTruth(e.c, f), LAMBDA r : ForValue(IF r.v = True THEN e.then ELSE e.els, r))
      [] e.e = "ternary" -> Then(FoldTruth(e.c, f), LAMBDA r : Folded(IF r.v = True THEN e.a ELSE e.b, r))
      [] e.e = "when" -> FoldWhen(e, f, ForValue, LAMBDA r : Fails(r, <<"no arm">>))
      [] e.e = "run" -> Then(FoldAll(e.args, f, 1, <<>>), LAMBDA r : FoldCall(e.f, r.v, r))
      [] OTHER -> Refused(f)
------------------------------------------------------------------------------
(* Statements. *)

\* An assignment to a name, with an operator, or to an element of a list a
\* name holds.
FoldAssign(e, f) ==
    CASE e.e = "assign" -> Then(Folded(e.v, f), LAMBDA r : Rebind(r, e.x, r.v))
      [] e.e = "addTo" -> Then(Lookup(f, e.x), LAMBDA old : Then(Folded(e.v, old), LAMBDA r :
            Then(Sum(r, old.v, r.v), LAMBDA q : Rebind(q, e.x, q.v))))
      [] e.e = "setAt" /\ e.l.e = "name" -> Then(FoldAll(<<e.i, e.v>>, f, 1, <<>>), LAMBDA r : PutAt(r, e.l.x, r.v[1], r.v[2]))
      [] OTHER -> Refused(f)

RECURSIVE FoldWhile(_, _)
FoldWhile(s, f) == Then(FoldTruth(s.c, f), LAMBDA r :
    IF r.v # True THEN Goes(r, Unit)
    ELSE Then(Step(r), LAMBDA q : With(Turned(ForEffect(s.body, q)), LAMBDA t :
            IF t.flow = "ok" THEN FoldWhile(s, t) ELSE Left(t))))
RECURSIVE FoldTurns(_, _, _, _)
FoldTurns(s, items, f, i) ==
    IF i > Len(items) THEN Goes(f, Unit)
    ELSE Then(Step(f), LAMBDA r : With(Turned(Leave(FoldStmts(s.body, Enter(r, s.x :> items[i]), 1))), LAMBDA t :
            IF t.flow = "ok" THEN FoldTurns(s, items, t, i + 1) ELSE Left(t)))
\* A for goes over a list or the characters of a text; a range is walked
\* directly, and one longer than the steps left is not begun.
FoldFor(s, f) == Then(Folded(s.l, f), LAMBDA r :
    IF ~(IsListValue(r.v) \/ IsStr(r.v)) THEN Refused(r)
    ELSE FoldTurns(s, IF IsListValue(r.v) THEN r.v[2] ELSE [i \in DOMAIN r.v |-> <<r.v[i]>>], r, 1))
FoldForRange(s, f) == Then(FoldAll(<<s.from, s.to>>, f, 1, <<>>), LAMBDA r :
    LET from == r.v[1][2]  to == r.v[2][2]
    IN  IF to - from > r.budget THEN Unfinished(r)
        ELSE FoldTurns(s, [i \in 1..(to - from) |-> <<"at", from + i - 1>>], r, 1))

FoldExprStmt(e, f) ==
    CASE e.e = "if" -> Then(FoldTruth(e.c, f), LAMBDA r : ForEffect(IF r.v = True THEN e.then ELSE e.els, r))
      [] e.e = "when" -> FoldWhen(e, f, ForEffect, LAMBDA r : Goes(r, Unit))
      [] e.e \in {"assign", "addTo", "setAt", "setField"} -> FoldAssign(e, f)
      [] OTHER -> Folded(e, f)
FoldStmt(s, r) ==
    CASE s.s = "let" -> Then(Folded(s.v, r), LAMBDA q : Bind(q, s.x, q.v))
      [] s.s = "expr" -> FoldExprStmt(s.v, r)
      [] s.s = "return" -> Then(Folded(s.v, r), LAMBDA q : Ends(q, "return", q.v))
      [] s.s = "while" -> FoldWhile(s, r)
      [] s.s = "forIn" -> FoldFor(s, r)
      [] s.s = "forRange" -> FoldForRange(s, r)
      [] s.s \in {"break", "continue"} -> Ends(r, s.s, Unit)
      [] OTHER -> Refused(r)

Folded(n, f) == Then(Step(f), LAMBDA r : IF "e" \in DOMAIN n THEN FoldExpr(n, r) ELSE FoldStmt(n, r))
------------------------------------------------------------------------------
\* An expression folded, given what the `constexpr val`s before it came to.
FoldWith(e, vals) == Folded(e, [scopes |-> <<vals>>, floor |-> 1, budget |-> Budget, depth |-> 0, flow |-> "ok", v |-> Unit])

\* The literal a value is written back as; a Unit has none.
RECURSIVE Literal(_)
Literal(v) ==
    CASE IsListValue(v) -> ListOf([i \in DOMAIN v[2] |-> Literal(v[2][i])])
      [] v[1] = "at" -> Idx(v[2])
      [] v[1] = "float" -> Widened(v[2])
      [] v \in {True, False} -> Truth(v = True)
      [] OTHER -> TextOf(v)

\* The checker goes over the statements in order, and folds each `constexpr`
\* where it stands; c holds what they came to, by name, the tree so far, and
\* the failures.
RECURSIVE Elaborated(_, _, _)
Nested(body, c) == Elaborated(body, [c EXCEPT !.body = <<>>], 1)
CheckConstexpr(s, c) ==
    With(FoldWith(s.v, c.vals), LAMBDA r :
        IF r.flow = "ok" /\ r.v # Unit
        THEN [c EXCEPT !.vals = (s.x :> r.v) @@ @, !.body = Append(@, Val(s.x, Literal(r.v)))]
        ELSE [c EXCEPT !.failed = Append(@, r.v), !.body = Append(@, s)])
Elaborate(s, c) ==
    CASE s.s = "constexpr" -> CheckConstexpr(s, c)
      [] s.s = "block" -> With(Nested(s.body, c), LAMBDA r : [r EXCEPT !.body = Append(c.body, Block(r.body))])
      [] s.s = "forIn" -> With(Nested(s.body, c), LAMBDA r : [r EXCEPT !.body = Append(c.body, ForIn(s.x, s.l, r.body))])
      [] OTHER -> [c EXCEPT !.body = Append(@, s)]
Elaborated(body, c, i) == IF i > Len(body) THEN c ELSE Elaborated(body, Elaborate(body[i], c), i + 1)
==============================================================================
