-------------------------------- MODULE Walk --------------------------------
(***************************************************************************)
(* The tree-walking interpreter (src/src/interp.rs) on the bodies of       *)
(* Syntax: what a body shows and how it ends, as a function of the choices *)
(* its calls and conditions make.  The interpreter is recursive over the   *)
(* tree, and so is this.                                                   *)
(*                                                                         *)
(* A state w of the walk is that of Natives with env, the scopes open,     *)
(* innermost last, the first one global; and funs, the functions of the    *)
(* program, by name.                                                       *)
(***************************************************************************)
EXTENDS Natives, TLC
LOCAL INSTANCE SequencesExt

(* Scopes: a name is looked up from the innermost one outwards. *)
Define(w, x, v) == [w EXCEPT !.env[Len(w.env)] = (x :> v) @@ @]
Holder(env, x) == CHOOSE i \in DOMAIN env : /\ x \in DOMAIN env[i]
                                            /\ \A j \in DOMAIN env : j > i => x \notin DOMAIN env[j]
Get(w, x) == w.env[Holder(w.env, x)][x]
Set(w, x, v) == [w EXCEPT !.env[Holder(w.env, x)][x] = v]
Child(w) == [w EXCEPT !.env = Append(@, <<>>)]
Parent(w) == [w EXCEPT !.env = Front(@)]

\* An expression or a statement.
RECURSIVE Walked(_, _)

\* The values of several expressions, left to right; the rest does not run
\* after one that fails or jumps.
RECURSIVE EvalAll(_, _, _, _)
EvalAll(es, w, i, acc) ==
    IF i > Len(es) THEN Goes(w, acc)
    ELSE Then(Walked(es[i], w), LAMBDA r : EvalAll(es, r, i + 1, Append(acc, r.v)))

\* A method call: the receiver, the arguments, then the native method.
Operands(e) ==
    CASE e.e \in {"removeAt", "at"} -> <<e.l, e.i>>
      [] e.e = "insert" -> <<e.l, e.i, e.v>>
      [] e.e = "push" -> <<e.l, e.v>>
      [] e.e = "fold" -> <<e.l, e.v, e.f>>
      [] e.e \in HigherOrder -> <<e.l, e.f>>
      [] OTHER -> <<e.l>>
EvalMethod(e, w) == Then(EvalAll(Operands(e), w, 1, <<>>), LAMBDA r :
    IF ~IsRef(r.v[1]) THEN Misused(r)
    ELSE IF e.e = "at" THEN IndexGet(r, r.v[1], r.v[2]) ELSE ListMethod(e.e, r.v, r))

\* An assignment: the value first, then what it is stored into.
EvalAssign(e, w) ==
    Then(Walked(e.v, w), LAMBDA r :
        CASE e.e = "assign" -> Goes(Set(r, e.x, r.v), Unit)
          [] e.e = "addTo" -> Goes(Set(r, e.x, Plus(Get(r, e.x), r.v)), Unit)
          [] e.e = "setField" -> Then(Walked(e.o, r), LAMBDA o :
                IF ~IsRef(o.v) THEN Misused(o) ELSE Goes(Becomes(o, o.v, <<r.v>>), Unit))
          [] e.e = "setAt" -> Then(EvalAll(<<e.l, e.i>>, r, 1, <<>>), LAMBDA o :
                IF ~IsRef(o.v[1]) THEN Misused(o) ELSE IndexSet(o, o.v[1], o.v[2], r.v)))

\* The tests of an arm, until one matches.
RECURSIVE Tests(_, _, _, _)
Tests(tests, subject, w, i) ==
    IF i > Len(tests) THEN Goes(w, False)
    ELSE Then(Walked(tests[i], w), LAMBDA r :
            IF r.v = (IF subject = Unit THEN True ELSE subject) THEN Goes(r, True)
            ELSE Tests(tests, subject, r, i + 1))

\* The arms in order, and the body of the first that matches, and whose
\* guard holds, in a scope.
RECURSIVE Arms(_, _, _, _)
Arms(arms, subject, w, i) ==
    IF i > Len(arms) THEN Goes(w, Unit)
    ELSE LET a == arms[i]
         IN  Then(CASE a.is # "" -> Goes(w, Bool(TypeMatches(subject, a.is)))
                    [] a.tests # <<>> -> Tests(a.tests, subject, w, 1)
                    [] OTHER -> Goes(w, True),
              LAMBDA m : IF m.v # True THEN Arms(arms, subject, m, i + 1)
                         ELSE Then(IF a.guard = <<>> THEN m ELSE Walked(a.guard[1], m),
                                   LAMBDA r : IF r.v = True THEN Walked(Block(a.body), r)
                                              ELSE Arms(arms, subject, r, i + 1)))

\* The statements of a block from the i-th; the value is the last one's.
RECURSIVE ExecFrom(_, _, _)
ExecFrom(body, w, i) ==
    IF i > Len(body) THEN w
    ELSE Then(Walked(body[i], Goes(w, Unit)), LAMBDA r : ExecFrom(body, r, i + 1))

\* A call of a function of the program: its parameters in a scope above the
\* global one, and a return taken for the value of the call.
CallNamed(f, args, w) ==
    LET params == w.funs[f].params
        frame == [x \in {params[i] : i \in DOMAIN params} |-> args[CHOOSE i \in DOMAIN params : params[i] = x]]
        r == ExecFrom(w.funs[f].body, [Goes(w, Unit) EXCEPT !.env = <<Head(@), frame>>], 1)
        back == [r EXCEPT !.env = <<Head(@)>> \o Tail(w.env)]
    IN  IF r.flow = "return" THEN Ends(back, "ok", r.v) ELSE back

Eval(e, w) ==
    CASE e.e = "str" -> Goes(w, <<e.s>>)
      [] e.e = "text" -> Goes(w, e.parts)
      [] e.e = "widened" -> Goes(w, <<"float", e.k>>)
      [] e.e = "num" -> Goes(w, <<"int", e.s>>)
      [] e.e = "idx" -> Goes(w, <<"at", e.k>>)
      [] e.e = "name" -> Goes(w, Get(w, e.x))
      [] e.e = "this" -> Goes(w, Get(w, "this"))
      [] e.e = "null" -> Goes(w, Null)
      [] e.e = "truth" -> Goes(w, Bool(e.b))
      [] e.e = "suit" -> Goes(w, <<"suit", e.n>>)
      [] e.e \in {"call", "maybe"} -> Then(EvalAll(e.args, w, 1, <<>>), LAMBDA r :
            IF \E i \in DOMAIN Takes(e.f) : ~TypeMatches(r.v[i], Takes(e.f)[i]) THEN Misused(r)
            ELSE IF e.f = "fill" THEN ListMethod("push", <<r.v[1], <<"filled">>>>, r) ELSE Answer(r, e.f, e.ty))
      [] e.e = "print" -> Then(Walked(e.v, w), LAMBDA r : Goes(Shows(r, r.v), Unit))
      [] e.e = "add" -> Then(EvalAll(<<e.a, e.b>>, w, 1, <<>>), LAMBDA r :
            IF IsStr(r.v[1]) \/ (TypeMatches(r.v[1], "Int") /\ TypeMatches(r.v[2], "Int"))
            THEN Goes(r, Plus(r.v[1], r.v[2]))
            ELSE Misused(r))
      [] e.e = "box" -> Then(Walked(e.v, w), LAMBDA r : New(r, <<r.v>>))
      [] e.e = "field" -> Then(Walked(e.o, w), LAMBDA r :
            IF e.safe /\ r.v = Null THEN r
            ELSE IF ~IsRef(r.v) THEN Misused(r) ELSE Goes(r, Items(r, r.v)[1]))
      [] e.e = "list" -> Then(EvalAll(e.items, w, 1, <<>>), LAMBDA r : New(r, r.v))
      [] e.e \in {"at", "push", "clear", "first", "removeAt", "insert"} \cup HigherOrder -> EvalMethod(e, w)
      [] e.e = "lambda" -> Goes(w, <<"fun", FlattenSeq([i \in DOMAIN e.caps |-> Get(w, e.caps[i])])>>)
      [] e.e = "apply" -> Then(EvalAll(<<e.f>> \o e.args, w, 1, <<>>), LAMBDA r :
            CallFunction(r, Head(r.v), Tail(r.v), IF e.ty = "Unit" THEN "each" ELSE "boom"))
      [] e.e = "if" -> Then(Walked(e.c, w), LAMBDA r :
            Walked(Block(IF r.v = True THEN e.then ELSE e.els), r))
      [] e.e = "ternary" -> Then(Walked(e.c, w), LAMBDA r : Walked(IF r.v = True THEN e.a ELSE e.b, r))
      [] e.e = "when" -> Then(IF e.subject.e = "none" THEN Goes(w, Unit) ELSE Walked(e.subject, w), LAMBDA r :
            Arms(e.arms, r.v, r, 1))
      [] e.e = "elvis" -> Then(Walked(e.a, w), LAMBDA r : IF r.v = Null THEN Walked(e.b, r) ELSE r)
      [] e.e = "logic" -> Then(Walked(e.a, w), LAMBDA r :
            LET left == r.v = True
            IN  IF Settles(e.op, left) # {} THEN Goes(r, Bool(TRUE \in Settles(e.op, left)))
                ELSE Then(Walked(e.b, r), LAMBDA q : Goes(q, Bool(Applies(e.op, left, q.v = True)))))
      [] e.e = "not" -> Then(Walked(e.v, w), LAMBDA r : Goes(r, Bool(r.v # True)))
      [] e.e = "isNull" -> Then(Walked(e.v, w), LAMBDA r : Goes(r, Bool((r.v = Null) # e.ne)))
      [] e.e = "is" -> Then(Walked(e.v, w), LAMBDA r : Goes(r, Bool(TypeMatches(r.v, e.t))))
      [] e.e = "notnull" -> Then(Walked(e.v, w), LAMBDA r : IF r.v = Null THEN Fails(r, <<"isnull">>) ELSE r)
      [] e.e = "less" -> Then(EvalAll(<<e.a, e.b>>, w, 1, <<>>), LAMBDA r : Goes(r, Bool(r.v[1][2] < r.v[2][2])))
      [] e.e = "same" -> Then(EvalAll(<<e.a, e.b>>, w, 1, <<>>), LAMBDA r : Goes(r, Bool(r.v[1] = r.v[2])))
      [] e.e = "size" -> Then(Walked(e.l, w), LAMBDA r : Goes(r, <<"at", Len(Items(r, r.v))>>))
      [] e.e = "run" -> Then(EvalAll(e.args, w, 1, <<>>), LAMBDA r : CallNamed(e.f, r.v, r))
      [] OTHER -> EvalAssign(e, w)

\* A block in a scope of its own, which is gone however it ends.
InScope(body, w) == Parent(ExecFrom(body, Goes(Child(w), Unit), 1))

RECURSIVE Loop(_, _)
Loop(s, w) == Then(Walked(s.c, w), LAMBDA r :
    IF r.v # True THEN Goes(r, Unit)
    ELSE LET t == Turned(InScope(s.body, r)) IN IF t.flow = "ok" THEN Loop(s, t) ELSE Left(t))

\* A for over the elements the list had when the loop began.
RECURSIVE Turns(_, _, _, _)
Turns(s, items, w, i) ==
    IF i > Len(items) THEN Goes(w, Unit)
    ELSE LET t == Turned(Parent(ExecFrom(s.body, Define(Child(w), s.x, items[i]), 1)))
         IN  IF t.flow = "ok" THEN Turns(s, items, t, i + 1) ELSE Left(t)

Exec(s, w) ==
    CASE s.s = "expr" -> Walked(s.v, w)
      [] s.s \in {"let", "constexpr"} -> Then(Walked(s.v, w), LAMBDA r : Goes(Define(r, s.x, r.v), Unit))
      [] s.s = "destructure" -> Then(Walked(s.v, w), LAMBDA r : Goes(Define(r, s.x, Items(r, r.v)[1]), Unit))
      [] s.s = "block" -> InScope(s.body, w)
      [] s.s = "return" -> Then(Walked(s.v, w), LAMBDA r : Ends(r, "return", r.v))
      [] s.s = "break" -> Ends(w, "break", Unit)
      [] s.s = "continue" -> Ends(w, "continue", Unit)
      [] s.s = "throw" -> Then(Walked(s.v, w), LAMBDA r : Fails(r, r.v))
      [] s.s = "while" -> Loop(s, w)
      [] s.s = "forIn" -> Then(Walked(s.l, w), LAMBDA r : Turns(s, Iterable(r, r.v), r, 1))
      [] s.s = "forRange" -> Then(EvalAll(<<s.from, s.to>>, w, 1, <<>>), LAMBDA r :
            Turns(s, [i \in 1..(r.v[2][2] - r.v[1][2]) |-> <<"at", r.v[1][2] + i - 1>>], r, 1))
      [] s.s = "try" -> LET r == InScope(s.body, w)
                        IN  IF r.flow # "err" THEN (IF r.flow = "ok" THEN Goes(r, Unit) ELSE r)
                            ELSE Parent(ExecFrom(s.handler, Define(Child(Ends(r, "ok", Unit)), s.x, r.v), 1))

Walked(n, w) == IF "e" \in DOMAIN n THEN Eval(n, w) ELSE Exec(n, w)

\* A call of the function under study: its parameters bound in a scope, its
\* body, and a return taken for the value of the call.
InvokeAmong(funs, body, args, heap, choices) ==
    LET w == [env |-> <<args>>, funs |-> funs, heap |-> heap, out |-> <<>>, in |-> choices, asks |-> <<>>,
              flow |-> "ok", v |-> Unit]
    IN  With(ExecFrom(body, w, 1), LAMBDA r : IF r.flow = "return" THEN Ends(r, "ok", r.v) ELSE r)

Invoke(body, args, heap, choices) == InvokeAmong(<<>>, body, args, heap, choices)

\* What a caller sees of a call: what was shown, whether it failed, the value
\* or the message, and that the choices made were the ones used.
Meaning(r, ty) == [out |-> r.out, flow |-> r.flow, in |-> r.in,
                   v |-> IF r.flow = "err" \/ ty = "Str" THEN r.v ELSE Unit]
\* The function of Bodies: a string and an instance, whose field holds one.
Walks(p, choices) ==
    Meaning(Invoke(p.body, ("p" :> <<"arg">>) @@ ("this" :> <<"ref", 1>>), <<<< <<"mine">> >> >>, choices), p.ret)
=============================================================================
