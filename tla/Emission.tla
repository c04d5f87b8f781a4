------------------------------ MODULE Emission ------------------------------
(***************************************************************************)
(* The C backend on the bodies of Syntax (src/src/cbackend.rs): the C a    *)
(* function body becomes, as a sequence of instructions, each one line of  *)
(* the emitted text that moves a reference, jumps, calls or can fail.      *)
(*                                                                         *)
(* The emitter's discipline is what is modelled.  A counted value is only  *)
(* ever held in a C variable that one block owns; the block releases what  *)
(* it owns where it ends, and a jump releases what every block it leaves   *)
(* owns.  In a program with a `try` every block has a label of its own,    *)
(* where a failure releases all the block ever owned; so every variable is *)
(* declared NULL at the top of its block.                                  *)
(*                                                                         *)
(* A state g of the emitter: code, the lines so far; scopes, what each     *)
(* open block owns; targets, the labels failures go to, and whether one    *)
(* does; marks, where each block began, the declarations hoisted to there, *)
(* and what it ever owned; loops, the count of blocks at each loop; jumps, *)
(* where a C break and a C continue go; n, the last number given out; v,   *)
(* the C expression for the value just emitted; names, the variables in    *)
(* scope, for the reads that need no reference of their own.               *)
(***************************************************************************)
EXTENDS Syntax
LOCAL INSTANCE SequencesExt

VarOf(x) == <<x, 0>>
Temp(g) == <<"_t", g.n + 1>>
Label(s, g) == <<s, g.n + 1>>
\* A C expression that is a constant: 0, NULL, an integer.
Literal(v) == <<"lit", -1, v>>
None == Literal(Unit)

Ins(op, d, s) == [op |-> op, d |-> d, s |-> s]
Line(g, i) == [g EXCEPT !.code = Append(@, i)]
Lines(g, is) == [g EXCEPT !.code = @ \o is]
Fresh(g) == [g EXCEPT !.n = @ + 1]
Gives(g, v) == [g EXCEPT !.v = v]
Releases(vars) == [k \in DOMAIN vars |-> Ins("release", None, <<Reverse(vars)[k]>>)]

OpenScope(g) ==
    LET h == Fresh([g EXCEPT !.scopes = Append(@, <<>>)])
    IN  IF ~g.catch THEN h
        ELSE [h EXCEPT !.targets = Append(@, [label |-> Label("KU", g), used |-> FALSE]),
                       !.marks = Append(@, [at |-> Len(g.code), hoisted |-> <<>>, ever |-> <<>>])]

CloseScope(g) ==
    LET h == [Lines(g, Releases(Last(g.scopes))) EXCEPT !.scopes = Front(@)]
        t == Last(g.targets)  m == Last(g.marks)  k == Len(g.targets) - 1
        done == <<"KD", t.label[2]>>
        unwound == IF ~t.used THEN h
                   ELSE [Lines(h, <<Ins("goto", None, <<done>>), Ins("label", t.label, <<>>)>>
                                  \o Releases(m.ever)
                                  \o <<Ins("goto", None, <<g.targets[k].label>>), Ins("label", done, <<>>)>>)
                         EXCEPT !.targets[k].used = TRUE]
        nulls == [j \in DOMAIN m.hoisted |-> Ins("null", m.hoisted[j], <<>>)]
    IN  IF ~g.catch THEN h
        ELSE [unwound EXCEPT !.targets = Front(@), !.marks = Front(@),
                !.code = SubSeq(@, 1, m.at) \o nulls \o SubSeq(@, m.at + 1, Len(@))]

\* The label under a function's body, and the return that hands back a value
\* nobody will read.
BeginFunctionUnwind(g) ==
    IF ~g.catch THEN g
    ELSE Fresh([g EXCEPT !.targets = Append(@, [label |-> Label("KUF", g), used |-> FALSE])])
EndFunctionUnwind(g) ==
    IF ~g.catch \/ ~Last(g.targets).used THEN g
    ELSE Lines(g, <<Ins("label", Last(g.targets).label, <<>>), Ins("poison", None, <<>>)>>)

CheckUnwind(g) ==
    IF ~g.catch THEN g
    ELSE [Line(g, Ins("check", None, <<Last(g.targets).label>>))
          EXCEPT !.targets[Len(g.targets)].used = TRUE]

\* Rewrites the declaration just emitted into an assignment; a declaration
\* without a value goes altogether.
HoistDeclaration(g, d) ==
    IF ~g.catch THEN g
    ELSE [g EXCEPT !.marks[Len(g.marks)].hoisted = Append(@, d),
                   !.code = IF Last(@).op = "decl" THEN Front(@) ELSE @]

\* A block takes on the release of what was just declared.
Own(g, d) ==
    LET h == HoistDeclaration(g, d)
        k == [h EXCEPT !.scopes[Len(h.scopes)] = Append(@, d)]
    IN  IF ~g.catch THEN k ELSE [k EXCEPT !.marks[Len(k.marks)].ever = Append(@, d)]

\* A returned reference is nobody's here any more; a borrowed one never was.
Owned(g, d) == \E k \in DOMAIN g.scopes : d \in ToSet(g.scopes[k])
StillOwned(g, d) == g  \* mutant
Disown(g, d) == [g EXCEPT !.scopes = [k \in DOMAIN @ |-> SelectSeq(@[k], LAMBDA o : o # d)]]

\* The only shape a counted value takes: a variable this block owns, checked.
OwnTemp(g, op, s) == Gives(CheckUnwind(Own(Line(Fresh(g), Ins(op, Temp(g), s)), Temp(g))), Temp(g))

\* What leaving the innermost depth blocks early releases, without dropping.
ReleaseThrough(g, depth) ==
    LET first == IF depth >= Len(g.scopes) THEN 1 ELSE Len(g.scopes) - depth + 1
    IN  Lines(g, Releases(FlattenSeq(SubSeq(g.scopes, first, Len(g.scopes)))))

\* With a deinit in the program the temporaries of a statement die with it.
Leaves(s) == s.s \in {"return", "break", "continue", "throw"}
DrainAfter(g, s, mark) ==
    LET top == Last(g.scopes)
        IsTemp(o) == o[1] = "_t"
        mine == SelectSeq(SubSeq(top, mark + 1, Len(top)), IsTemp)
        kept == SubSeq(top, 1, mark) \o SelectSeq(SubSeq(top, mark + 1, Len(top)), LAMBDA o : ~IsTemp(o))
        Dropped(o) == <<Ins("release", None, <<o>>)>>
                      \o (IF g.catch THEN <<Ins("null", o, <<>>)>> ELSE <<>>)
    IN  IF ~g.drop \/ Leaves(s) THEN g
        ELSE CheckUnwind([Lines(g, FlattenSeq([k \in DOMAIN mine |-> Dropped(mine[k])]))
                          EXCEPT !.scopes[Len(g.scopes)] = kept])

\* A variable declared without a value, for the branches to fill.
Slot(g, ty) ==
    LET d == Temp(g)  h == Line(Fresh(g), Ins("decl", d, <<>>))
    IN  Gives(IF Counted(ty) THEN Own(h, d) ELSE h, d)
\* A value stored where something else owns it takes a reference of its own.
Store(g, ty, d, v) == Line(g, Ins(IF Counted(ty) THEN "retain" ELSE "set", d, <<v>>))
\* A value in a C variable of its own that owns nothing.
Const(g, op, s) == Gives(Line(Fresh(g), Ins(op, Temp(g), s)), Temp(g))
Kept(g, op) == Const(g, op, <<g.v>>)

\* Emits an expression, or a statement.
RECURSIVE Emit(_, _)

\* Arguments, in order: each a C expression for the call.
RECURSIVE Render(_, _, _, _)
Render(es, g, k, acc) ==
    IF k > Len(es) THEN Gives(g, acc)
    ELSE LET h == Emit(es[k], g) IN Render(es, h, k + 1, Append(acc, h.v))

\* The statements of a block, each with its boundary; the last expression of
\* a branch fills the slot instead.
SeqStmt(s, g) == DrainAfter(Emit(s, g), s, Len(Last(g.scopes)))
FillSlot(e, g, slot) ==
    IF slot = None THEN Emit(e, g)
    ELSE LET h == Emit(e, g) IN Store(h, e.ty, slot, h.v)
RECURSIVE Stmts(_, _, _, _, _)
Stmts(body, g, k, slot, boundaries) ==
    IF k > Len(body) \/ g.scopes = <<>> THEN g
    ELSE Stmts(body, IF k = Len(body) /\ body[k].s = "expr" /\ slot # None
                     THEN FillSlot(body[k].v, g, slot)
                     ELSE IF boundaries THEN SeqStmt(body[k], g) ELSE Emit(body[k], g),
               k + 1, slot, boundaries)
Branch(body, g, slot) == CloseScope(Stmts(body, OpenScope(g), 1, slot, TRUE))
ExprBranch(e, g, slot) == CloseScope(FillSlot(e, OpenScope(g), slot))

\* An `if` in C: the branches in their blocks, around a label each.
Choice(g, op, c, Yes(_), No(_)) ==
    LET els == Label("els", g)  end == <<"end", els[2]>>
        h == Yes(Line(Fresh(g), Ins(op, None, <<c, els>>)))
        k == No(Lines(h, <<Ins("goto", None, <<end>>), Ins("label", els, <<>>)>>))
    IN  Line(k, Ins("label", end, <<>>))

EmitIf(e, g) ==
    LET produces == e.ty \notin {"Unit", "Never"}
        s == IF produces THEN Slot(g, e.ty) ELSE Gives(g, None)
        c == Kept(Emit(e.c, s), "set")
    IN  Gives(Choice(c, "ifnot", c.v, LAMBDA h : Branch(e.then, h, s.v), LAMBDA h : Branch(e.els, h, s.v)), s.v)

EmitTernary(e, g) ==
    LET s == Slot(g, e.ty)
        c == Kept(Emit(e.c, s), "set")
    IN  Gives(Choice(c, "ifnot", c.v, LAMBDA h : ExprBranch(e.a, h, s.v), LAMBDA h : ExprBranch(e.b, h, s.v)), s.v)

\* Whether one of an arm's tests holds: each its own expression, in order,
\* and its guard, which is looked at whether or not one does.
RECURSIVE ArmTests(_, _, _, _, _)
ArmTests(tests, g, k, subject, hit) ==
    IF k > Len(tests) THEN g
    ELSE LET h == Emit(tests[k], g)
             t == Line(h, IF subject = None THEN Ins("or", hit, <<h.v>>) ELSE Ins("oreq", hit, <<subject, h.v>>))
         IN  ArmTests(tests, t, k + 1, subject, hit)
ArmTest(arm, g, subject) ==
    LET t == IF arm.tests = <<>> THEN Const(OpenScope(g), "set", <<Literal(True)>>)
             ELSE LET no == Const(OpenScope(g), "no", <<>>)
                  IN  Gives(ArmTests(arm.tests, no, 1, subject, no.v), no.v)
        q == IF arm.guard = <<>> THEN t
             ELSE LET h == Emit(arm.guard[1], t)
                  IN  Line(h, Ins("logic", t.v, <<Literal(<<"and">>), t.v, h.v>>))
    IN  Gives(CloseScope(q), t.v)

\* A chain of tests in a `do { } while (0)`, which a C break leaves.  The
\* last arm of a `when` that gives a value is emitted without its test.
RECURSIVE EmitArms(_, _, _, _, _, _)
EmitArms(arms, g, k, subject, slot, end) ==
    IF k > Len(arms) THEN g
    ELSE LET a == arms[k]
             only == slot # None /\ subject # None /\ k = Len(arms)
             default == a.guard = <<>> /\ (a.tests = <<>> \/ only)
             c == ArmTest(a, g, subject)
             next == Label("arm", c)
             Body(h) == Line(Branch(a.body, h, slot), Ins("goto", None, <<end>>))
         IN  IF default THEN Body(g)
             ELSE EmitArms(arms, Line(Body(Line(Fresh(c), Ins("ifnot", None, <<c.v, next>>))),
                                      Ins("label", next, <<>>)), k + 1, subject, slot, end)

EmitWhen(e, g) ==
    LET s == IF e.ty \notin {"Unit", "Never"} THEN Slot(g, e.ty) ELSE Gives(g, None)
        v == IF e.subject.e = "none" THEN Gives(s, None)
             ELSE Kept(Emit(e.subject, s), "set")
        end == Label("when", v)
        h == [Fresh(v) EXCEPT !.jumps = Append(@, [brk |-> end, cont |-> end])]
        r == Line(EmitArms(e.arms, h, 1, v.v, s.v, end), Ins("label", end, <<>>))
    IN  Gives([r EXCEPT !.jumps = Front(@)], s.v)

\* The fallback is emitted inside the branch that needs it.
EagerFallback(e, g) ==  \* mutant
    LET a == Emit(e.a, g)  b == Emit(e.b, a)  s == Slot(b, e.ty)
    IN  Gives(Choice(s, "ifnull", a.v, LAMBDA h : Store(h, e.ty, s.v, a.v), LAMBDA h : Store(h, e.ty, s.v, b.v)), s.v)
EmitElvis(e, g) ==
    LET a == Emit(e.a, g)  s == Slot(a, e.ty)
    IN  Gives(Choice(s, "ifnull", a.v, LAMBDA h : Store(h, e.ty, s.v, a.v), LAMBDA h : ExprBranch(e.b, h, s.v)), s.v)

\* A connective its left side can settle: the right side inside a branch.
EmitLogical(e, g) ==
    LET a == Emit(e.a, g)
        settling == {b \in BOOLEAN : Settles(e.op, b) # {}}
        Combined(h, d) == LET b == Emit(e.b, h) IN Line(b, Ins("logic", d, <<Literal(<<e.op>>), a.v, b.v>>))
        t == Const(a, "decl", <<>>)
        Settle(h) == Line(h, Ins("set", t.v, <<Literal(Bool(TRUE \in Settles(e.op, TRUE \in settling)))>>))
        Right(h) == CloseScope(Combined(OpenScope(h), t.v))
    IN  IF settling = {} THEN LET b == Emit(e.b, a) IN Const(b, "logic", <<Literal(<<e.op>>), a.v, b.v>>)
        ELSE Gives(Choice(t, IF TRUE \in settling THEN "ifnot" ELSE "if", a.v, Settle, Right), t.v)

EmitBinary(e, g) ==
    LET a == Emit(e.a, g)  b == Emit(e.b, a)
    IN  IF e.ty = "Str" THEN OwnTemp(b, "concat", <<a.v, b.v>>)
        ELSE CheckUnwind(Const(b, "sum", <<a.v, b.v>>))

\* After a call: what it answers is owned, then the failure is looked for.
CallUnchecked(g, e, op, args) ==  \* mutant
    IF e.ty = "Unit" THEN Gives(Line(g, Ins(op, None, args)), None)
    ELSE LET d == Temp(g)  h == Line(Fresh(g), Ins(op, d, args))
         IN  Gives(IF Counted(e.ty) THEN Own(h, d) ELSE h, d)
FinishCall(g, e, op, args) ==
    IF e.ty = "Unit" THEN Gives(CheckUnwind(Line(g, Ins(op, None, args))), None)
    ELSE LET d == Temp(g)  h == Line(Fresh(g), Ins(op, d, args))
         IN  Gives(CheckUnwind(IF Counted(e.ty) THEN Own(h, d) ELSE h), d)
EmitCall(e, g) ==
    LET a == Render(e.args, g, 1, <<>>)
    IN  FinishCall(a, e, "call", <<e.f>> \o a.v)
EmitApply(e, g) ==
    LET c == Emit(e.f, g)  a == Render(e.args, c, 1, <<>>)
    IN  FinishCall(a, e, "apply", <<IF e.ty = "Unit" THEN "each" ELSE "boom", c.v>> \o a.v)

\* A field read through a name needs no reference to the instance; the value
\* read takes its own.
BorrowedReceiver(o, g) == o.e = "name" /\ o.x \in g.names /\ o.ty = "Box"
EmitField(e, g) ==
    LET r == IF ~e.safe /\ BorrowedReceiver(e.o, g) THEN Gives(g, VarOf(e.o.x)) ELSE Emit(e.o, g)
    IN  OwnTemp(r, "getField", <<r.v>>)
\* `?.`: a slot that starts null, filled when the receiver is there.
EmitGuarded(e, g) ==
    LET r == Emit(e.o, g)
        s == Own(Line(Fresh(r), Ins("null", Temp(r), <<>>)), Temp(r))
        d == Temp(r)
    IN  Gives(CheckUnwind(Choice(s, "ifnull", r.v, LAMBDA h : Line(h, Ins("getField", d, <<r.v>>)),
                                 LAMBDA h : h)), d)

RECURSIVE Items(_, _, _, _)
Items(es, g, k, l) ==
    IF k > Len(es) THEN g
    ELSE LET h == Emit(es[k], g) IN Items(es, Line(h, Ins("push", None, <<l, h.v>>)), k + 1, l)
EmitList(e, g) ==
    LET l == Temp(g)  h == Own(Line(Fresh(g), Ins("list", l, <<>>)), l)
    IN  Gives(Items(e.items, h, 1, l), l)
EmitIndexGet(e, g) ==
    LET l == Emit(e.l, g)  i == Emit(e.i, l)
        w == CheckUnwind(Const(i, "get", <<l.v, i.v>>))
    IN  OwnTemp(w, "retain", <<w.v>>)

\* A value that the runtime may refuse is held by a temporary until it is
\* taken, in a program where the refusal can be caught.
Stored(g) == IF g.catch THEN OwnTemp(g, "retain", <<g.v>>) ELSE Const(g, "retain", <<g.v>>)
Taken(g, d) == IF g.catch THEN Line(g, Ins("null", d, <<>>)) ELSE g
EmitSetAt(e, g) ==
    LET l == Emit(e.l, g)  i == Emit(e.i, l)  v == Emit(e.v, i)  s == Stored(v)
        o == CheckUnwind(Const(s, "setAt", <<l.v, i.v, s.v>>))
    IN  Gives(Line(Taken(o, s.v), Ins("release", None, <<o.v>>)), None)
EmitInsert(e, g) ==
    LET l == Emit(e.l, g)  i == Emit(e.i, l)  v == Emit(e.v, i)  s == Stored(v)
        o == CheckUnwind(Line(s, Ins("insertAt", None, <<l.v, i.v, s.v>>)))
    IN  Gives(Taken(o, s.v), None)
\* The list's own reference travels out with the element.
EmitRemoveAt(e, g) ==
    LET l == Emit(e.l, g)  i == Emit(e.i, l)
        w == CheckUnwind(Const(i, "removeAt", <<l.v, i.v>>))
        d == Temp(w)
    IN  Gives(Own(Line(Fresh(w), Ins("set", d, <<w.v>>)), d), d)
EmitPush(e, g) ==
    LET l == Emit(e.l, g)  v == Emit(e.v, l)
    IN  Gives(Line(v, Ins("push", None, <<l.v, v.v>>)), None)
EmitClear(e, g) == LET l == Emit(e.l, g) IN Gives(Line(l, Ins("clear", None, <<l.v>>)), None)
EmitFirst(e, g) ==
    LET l == Emit(e.l, g)  d == Temp(l)
    IN  Gives(Line(Own(Line(Fresh(l), Ins("null", d, <<>>)), d), Ins("first", d, <<l.v>>)), d)

\* A C loop over the elements of a list held by snap; Body gets the emitter
\* and the C variable of the element.
Elements(g, snap, Body(_, _)) ==
    LET top == Label("for", g)  end == <<"forEnd", top[2]>>  next == <<"forNext", top[2]>>
        i == <<"_i", top[2]>>   item == <<"_e", top[2]>>
        h == [Lines(Fresh(g), <<Ins("zero", i, <<>>), Ins("label", top, <<>>), Ins("more", None, <<i, snap, end>>)>>)
              EXCEPT !.jumps = Append(@, [brk |-> end, cont |-> next])]
        b == Body(Line(h, Ins("elem", item, <<snap, i>>)), item)
    IN  [Lines(b, <<Ins("label", next, <<>>), Ins("inc", i, <<>>), Ins("goto", None, <<top>>), Ins("label", end, <<>>)>>)
         EXCEPT !.jumps = Front(@)]

Snapshot(l, g) ==
    LET r == Emit(l, g)  d == Temp(r)
    IN  Gives(Own(Line(Fresh(r), Ins("snapshot", d, <<r.v>>)), d), d)
\* A call of the closure whose answer is tested on the spot.
Predicate(g, f, item) == Const(g, "apply", <<"test", f, item>>)

EmitForEach(e, g) ==
    LET s == Snapshot(e.l, g)  f == Emit(e.f, s)
    IN  Gives(Elements(f, s.v, LAMBDA h, x : Line(h, Ins("apply", None, <<"each", f.v, x>>))), None)
EmitMapOver(e, g) ==
    LET s == Snapshot(e.l, g)  f == Emit(e.f, s)  out == Temp(f)
        h == Own(Line(Fresh(f), Ins("list", out, <<>>)), out)
        Body(k, x) == LET v == OwnTemp(OpenScope(k), "apply", <<"boom", f.v, x>>)
                      IN  CloseScope(Line(v, Ins("push", None, <<out, v.v>>)))
    IN  Gives(Elements(h, s.v, Body), out)
EmitFilter(e, g) ==
    LET s == Snapshot(e.l, g)  f == Emit(e.f, s)  out == Temp(f)
        h == Own(Line(Fresh(f), Ins("list", out, <<>>)), out)
        Body(k, x) == LET c == Predicate(k, f.v, x)
                      IN  Choice(c, "ifnot", c.v, LAMBDA y : Line(y, Ins("push", None, <<out, x>>)), LAMBDA y : y)
    IN  Gives(Elements(h, s.v, Body), out)
EmitFold(e, g) ==
    LET s == Snapshot(e.l, g)  v == Emit(e.v, s)  f == Emit(e.f, v)  acc == Temp(f)
        h == Own(Line(Fresh(f), Ins("retain", acc, <<v.v>>)), acc)
        Body(k, x) == LET c == Const(k, "apply", <<"boom", f.v, acc, x>>)
                      IN  Lines(c, <<Ins("release", None, <<acc>>), Ins("set", acc, <<c.v>>)>>)
    IN  Gives(Elements(h, s.v, Body), acc)
EmitFind(e, g) ==
    LET s == Snapshot(e.l, g)  f == Emit(e.f, s)  d == Temp(f)
        h == Own(Line(Fresh(f), Ins("null", d, <<>>)), d)
        Hit(y, x) == Lines(y, <<Ins("retain", d, <<x>>), Ins("goto", None, <<Last(y.jumps).brk>>)>>)
        Body(k, x) == LET c == Predicate(k, f.v, x)
                      IN  Choice(c, "ifnot", c.v, LAMBDA y : Hit(y, x), LAMBDA y : y)
    IN  Gives(Elements(h, s.v, Body), d)
EmitAny(e, g) ==
    LET s == Snapshot(e.l, g)  f == Emit(e.f, s)  t == Const(f, "no", <<>>)
        Hit(y) == Lines(y, <<Ins("set", t.v, <<Literal(True)>>), Ins("goto", None, <<Last(y.jumps).brk>>)>>)
        Body(k, x) == LET c == Predicate(k, f.v, x) IN Choice(c, "ifnot", c.v, Hit, LAMBDA y : y)
    IN  Gives(Elements(t, s.v, Body), t.v)
EmitAll(e, g) ==
    LET s == Snapshot(e.l, g)  f == Emit(e.f, s)  t == Const(f, "set", <<Literal(True)>>)
        Miss(y) == Lines(y, <<Ins("set", t.v, <<Literal(False)>>), Ins("goto", None, <<Last(y.jumps).brk>>)>>)
        Body(k, x) == LET c == Predicate(k, f.v, x) IN Choice(c, "ifnot", c.v, LAMBDA y : y, Miss)
    IN  Gives(Elements(t, s.v, Body), t.v)

\* The closure object: a reference of its own to each thing it captures.
EmitLambda(e, g) ==
    LET d == Temp(g)
    IN  Gives(Own(Line(Fresh(g), Ins("closure", d, [k \in DOMAIN e.caps |-> VarOf(e.caps[k])])), d), d)

\* The old value is released before the name holds the new one; the operand
\* of a compound assignment is read as an expression would read it.
EmitAssign(e, g) ==
    LET ty == e.v.ty
        v == IF e.e = "addTo" THEN EmitBinary(Add(Name(e.x, ty), e.v), g) ELSE Emit(e.v, g)
    IN  Gives(IF Counted(ty) THEN Lines(v, <<Ins("release", None, <<VarOf(e.x)>>), Ins("retain", VarOf(e.x), <<v.v>>)>>)
              ELSE Line(v, Ins("set", VarOf(e.x), <<v.v>>)), None)
EmitSetField(e, g) ==
    LET o == Emit(e.o, g)  v == Emit(e.v, o)
    IN  Gives(Line(v, Ins("setField", None, <<o.v, v.v>>)), None)

\* A name: a counted one is read into a reference of its own, any other is
\* the C variable itself.
EmitName(e, g) ==
    IF Counted(e.ty) THEN OwnTemp(g, "retain", <<VarOf(e.x)>>) ELSE Gives(g, VarOf(e.x))

EmitNotNull(e, g) ==
    LET v == Emit(e.v, g) IN Gives(CheckUnwind(Line(v, Ins("failNull", None, <<v.v>>))), v.v)

Expr(e, g) ==
    CASE e.e = "str" -> OwnTemp(g, "str", <<e.s>>)
      [] e.e = "num" -> Gives(g, Literal(<<"int", e.s>>))
      [] e.e = "idx" -> Gives(g, Literal(<<"at", e.k>>))
      [] e.e = "name" -> EmitName(e, g)
      [] e.e = "this" -> Gives(g, VarOf("this"))
      [] e.e \in {"call", "maybe"} -> EmitCall(e, g)
      [] e.e = "print" -> LET v == Emit(e.v, g) IN Gives(Line(v, Ins("print", None, <<v.v>>)), None)
      [] e.e = "add" -> EmitBinary(e, g)
      [] e.e = "box" -> LET a == Emit(e.v, g) IN OwnTemp(a, "box", <<a.v>>)
      [] e.e = "field" -> IF e.safe THEN EmitGuarded(e, g) ELSE EmitField(e, g)
      [] e.e = "list" -> EmitList(e, g)
      [] e.e = "at" -> EmitIndexGet(e, g)
      [] e.e = "push" -> EmitPush(e, g)
      [] e.e = "removeAt" -> EmitRemoveAt(e, g)
      [] e.e = "insert" -> EmitInsert(e, g)
      [] e.e = "first" -> EmitFirst(e, g)
      [] e.e = "if" -> EmitIf(e, g)
      [] e.e = "ternary" -> EmitTernary(e, g)
      [] e.e = "when" -> EmitWhen(e, g)
      [] e.e = "elvis" -> EmitElvis(e, g)
      [] e.e = "logic" -> EmitLogical(e, g)
      [] e.e = "null" -> Gives(g, Literal(Null))
      [] e.e = "truth" -> Gives(g, Literal(Bool(e.b)))
      [] e.e = "suit" -> Gives(g, Literal(<<"suit", e.n>>))
      [] e.e = "not" -> Kept(Emit(e.v, g), "not")
      [] e.e = "isNull" -> LET v == Emit(e.v, g) IN Const(v, IF e.ne THEN "nonNull" ELSE "isNull", <<v.v>>)
      [] e.e = "notnull" -> EmitNotNull(e, g)
      [] e.e = "lambda" -> EmitLambda(e, g)
      [] e.e = "apply" -> EmitApply(e, g)
      [] e.e = "forEach" -> EmitForEach(e, g)
      [] e.e = "map" -> EmitMapOver(e, g)
      [] e.e = "filter" -> EmitFilter(e, g)
      [] e.e = "fold" -> EmitFold(e, g)
      [] e.e = "find" -> EmitFind(e, g)
      [] e.e = "any" -> EmitAny(e, g)
      [] e.e = "all" -> EmitAll(e, g)
      [] e.e = "clear" -> EmitClear(e, g)
      [] e.e \in {"assign", "addTo"} -> EmitAssign(e, g)
      [] e.e = "setField" -> EmitSetField(e, g)
      [] e.e = "setAt" -> EmitSetAt(e, g)

EmitLet(s, g) ==
    LET v == Emit(s.v, [g EXCEPT !.names = @ \cup {s.x}])
        h == Store(v, s.v.ty, VarOf(s.x), v.v)
    IN  IF Counted(s.v.ty) THEN Own(h, VarOf(s.x)) ELSE h
EmitDestructure(s, g) ==
    LET v == Emit(s.v, [g EXCEPT !.names = @ \cup {s.x}])
    IN  Own(Line(v, Ins("getField", VarOf(s.x), <<v.v>>)), VarOf(s.x))

\* The caller becomes the owner of what is returned; a borrowed value is
\* given a reference for it.  Everything else every block holds is released.
EmitReturn(s, g) ==
    LET v == Emit(s.v, g)  ty == s.v.ty
        o == IF Counted(ty) /\ Owned(v, v.v) THEN Disown(v, v.v)
             ELSE Const(v, IF Counted(ty) THEN "retain" ELSE "set", <<v.v>>)
    IN  Line(ReleaseThrough(o, Len(o.scopes)), Ins("return", None, <<o.v>>))

EmitWhile(s, g) ==
    LET top == Label("while", g)  end == <<"whileEnd", top[2]>>  go == <<"whileGo", top[2]>>
        h == [OpenScope(Line(Fresh(g), Ins("label", top, <<>>)))
              EXCEPT !.jumps = Append(@, [brk |-> end, cont |-> top])]
        c == Kept(Emit(s.c, h), "set")
        out == Lines(ReleaseThrough(Line(c, Ins("if", None, <<c.v, go>>)), 1),
                     <<Ins("goto", None, <<end>>), Ins("label", go, <<>>)>>)
        b == Branch(s.body, [out EXCEPT !.loops = Append(@, Len(out.scopes))], None)
        k == Lines(CloseScope([b EXCEPT !.loops = Front(@)]),
                   <<Ins("goto", None, <<top>>), Ins("label", end, <<>>)>>)
    IN  [k EXCEPT !.jumps = Front(@)]

\* A for over a list: the snapshot in a block of its own, the loop variable
\* borrowed from it, and no boundary between the statements of the body.
EmitFor(s, g) ==
    LET o == Snapshot(s.l, OpenScope(g))
        Body(h, x) ==
            LET b == OpenScope([h EXCEPT !.names = @ \cup {s.x}])
                v == Line(b, Ins("set", VarOf(s.x), <<x>>))
                r == Stmts(s.body, [v EXCEPT !.loops = Append(@, Len(v.scopes))], 1, None, FALSE)
            IN  CloseScope([r EXCEPT !.loops = Front(@)])
    IN  CloseScope(Elements(o, o.v, Body))

EmitThrow(s, g) == LET m == Emit(s.v, g) IN CheckUnwind(Line(m, Ins("panic", None, <<m.v>>)))

EmitTry(s, g) ==
    LET caught == Label("KC", g)  end == <<"KE", caught[2]>>
        b == Branch(s.body, [Line(Fresh(g), Ins("tryOpen", None, <<>>))
                             EXCEPT !.targets = Append(@, [label |-> caught, used |-> FALSE])], None)
        h == Lines(b, <<Ins("tryShut", None, <<>>), Ins("goto", None, <<end>>)>>)
        c == IF Last(b.targets).used
             THEN Lines(h, <<Ins("label", caught, <<>>), Ins("tryShut", None, <<>>)>>) ELSE h
        k == OpenScope([c EXCEPT !.targets = Front(@), !.names = @ \cup {s.x}])
        t == Own(Line(k, Ins("caught", VarOf(s.x), <<>>)), VarOf(s.x))
    IN  Line(CloseScope(Stmts(s.handler, t, 1, None, TRUE)), Ins("label", end, <<>>))

\* A jump releases what every block out to the loop owns, and is a C jump.
JumpTooShallow(s, g) ==  \* mutant
    LET depth == IF g.loops = <<>> THEN 1 ELSE Len(g.scopes) - Last(g.loops)
        c == Last(g.jumps)
    IN  Line(ReleaseThrough(g, depth), Ins("goto", None, <<IF s.s = "break" THEN c.brk ELSE c.cont>>))
EmitJump(s, g) ==
    LET depth == IF g.loops = <<>> THEN 1 ELSE Len(g.scopes) - Last(g.loops) + 1
        c == Last(g.jumps)
    IN  Line(ReleaseThrough(g, depth), Ins("goto", None, <<IF s.s = "break" THEN c.brk ELSE c.cont>>))

Stmt(s, g) ==
    CASE s.s = "expr" -> Emit(s.v, g)
      [] s.s = "let" -> EmitLet(s, g)
      [] s.s = "destructure" -> EmitDestructure(s, g)
      [] s.s = "block" -> Branch(s.body, g, None)
      [] s.s = "return" -> EmitReturn(s, g)
      [] s.s = "while" -> EmitWhile(s, g)
      [] s.s = "forIn" -> EmitFor(s, g)
      [] s.s = "throw" -> EmitThrow(s, g)
      [] s.s = "try" -> EmitTry(s, g)
      [] s.s \in {"break", "continue"} -> EmitJump(s, g)

Emit(n, g) == IF "e" \in DOMAIN n THEN Expr(n, g) ELSE Stmt(n, g)

\* The last expression of a function that gives a value is its return.
Body(p) ==
    LET last == Len(p.body)
    IN  IF p.ret = "Unit" \/ last = 0 \/ p.body[last].s # "expr" THEN p.body
        ELSE [p.body EXCEPT ![last] = Return(p.body[last].v)]

\* The body of a function: the label under it, its blocks, its return.
EmitFunction(p, catch, drop) ==
    LET start == [code |-> <<>>, scopes |-> <<>>, targets |-> <<>>, marks |-> <<>>, loops |-> <<>>,
                  jumps |-> <<>>, n |-> 0, v |-> None, names |-> {"p"}, catch |-> catch, drop |-> drop]
        b == Emit(Block(Body(p)), BeginFunctionUnwind(start))
    IN  EndFunctionUnwind(Line(b, Ins("return", None, <<None>>))).code
=============================================================================
