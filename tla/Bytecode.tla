------------------------------ MODULE Bytecode ------------------------------
(***************************************************************************)
(* The bodies of Syntax on the VM: the bytecode src/src/compiler.rs makes  *)
(* of them, and the loop of src/src/vm.rs that runs it on one stack, whose *)
(* bottom is the function's slots and whose rest is its operands.          *)
(*                                                                         *)
(* A state c of the compiler: code; scopes, the names of each with their   *)
(* slots; next and max, the slots in use and the most ever; loops, for     *)
(* each its jumps still to patch and what was open where it began;         *)
(* handlers, the trys open; drop, whether the program declares a deinit.   *)
(***************************************************************************)
EXTENDS Natives, TLC
LOCAL INSTANCE SequencesExt

Emit(c, op, a) == [c EXCEPT !.code = Append(@, [op |-> op, a |-> a, to |-> 0])]
Here(c) == Len(c.code) + 1
JumpTo(c, to) == [Emit(c, "Jump", 0) EXCEPT !.code[Here(c)].to = to]
\* A jump emitted before its target is known, and the target made known.
Patch(c, at) == [c EXCEPT !.code[at].to = Here(c)]
PatchAll(c, ats) == FoldLeft(Patch, c, ats)

PushScope(c) == [c EXCEPT !.scopes = Append(@, <<>>)]
TempSlots(c, n) == [c EXCEPT !.next = @ + n, !.max = IF c.next + n > @ THEN c.next + n ELSE @]
DeclareLocal(c, x) == [TempSlots(c, 1) EXCEPT !.scopes[Len(c.scopes)] = Append(@, <<x, c.next>>)]
\* The slots of these names hold nothing any more, youngest first.
ClearSlots(c, names) ==
    IF ~c.drop THEN c
    ELSE FoldLeft(LAMBDA d, l : Emit(Emit(d, "Const", Unit), "StoreLocal", l[2]), c, Reverse(names))
PopScope(c) ==
    LET gone == Last(c.scopes)
    IN  ClearSlots([c EXCEPT !.scopes = Front(@), !.next = @ - Len(gone)], gone)
SlotOf(c, x) ==
    LET all == FlattenSeq(c.scopes)
        k == CHOOSE k \in DOMAIN all : all[k][1] = x /\ \A j \in DOMAIN all : all[j][1] = x => j <= k
    IN  all[k][2]
DeclareAndStore(c, x) == Emit(DeclareLocal(c, x), "StoreLocal", c.next)

\* Compiles an expression, or a statement.
RECURSIVE Compile(_, _)

RECURSIVE Args(_, _, _)
Args(es, c, k) == IF k > Len(es) THEN c ELSE Args(es, Compile(es[k], c), k + 1)

\* With a deinit in the program, a boundary after every statement that does
\* not leave; the value of the last stays when it is wanted.
Leaving(s) == s.s \in {"return", "break", "continue", "throw"}
Valued(s, c, keep) ==
    IF s.s = "expr" THEN IF keep THEN c ELSE Emit(c, "Pop", 0)
    ELSE IF keep THEN Emit(c, "Const", Unit) ELSE c
Boundary(s, c) == IF c.drop /\ ~Leaving(s) THEN Emit(c, "DrainDrops", 0) ELSE c
RECURSIVE CompileStmts(_, _, _, _)
CompileStmts(body, c, k, keep) ==
    IF body = <<>> THEN IF keep THEN Emit(c, "Const", Unit) ELSE c
    ELSE IF k > Len(body) \/ c.scopes = <<>> THEN c
    ELSE LET d == Valued(body[k], Compile(body[k], c), keep /\ k = Len(body))
         IN  CompileStmts(body, Boundary(body[k], d), k + 1, keep)

\* A body in a scope of its own.
Scoped(body, c, keep) == PopScope(CompileStmts(body, PushScope(c), 1, keep))

IfExpr(e, c) ==
    LET d == Compile(e.c, c)
        t == Scoped(e.then, Emit(d, "JumpIfFalse", 0), TRUE)
        f == Patch(Emit(t, "Jump", 0), Here(d))
    IN  Patch(Scoped(e.els, f, TRUE), Here(t))
TernaryExpr(e, c) ==
    LET d == Compile(e.c, c)
        t == Compile(e.a, Emit(d, "JumpIfFalse", 0))
        f == Patch(Emit(t, "Jump", 0), Here(d))
    IN  Patch(Compile(e.b, f), Here(t))
ElvisExpr(e, c) ==
    LET a == Compile(e.a, c)
    IN  Patch(Compile(e.b, Emit(Emit(a, "JumpIfNotNullKeep", 0), "Pop", 0)), Here(a))
\* A connective its left side can settle jumps over the right one then.
Logical(e, c) ==
    LET settling == {b \in BOOLEAN : Settles(e.op, b) # {}}
        Plain == Emit(Args(<<e.a, e.b>>, c, 1), "Logical", e.op)
        ShortCircuit(s) ==
            LET a == Compile(e.a, c)
                b == Emit(Compile(e.b, Emit(a, IF s THEN "JumpIfTrueKeep" ELSE "JumpIfFalseKeep", 0)), "Logical", e.op)
                settled == Patch(Emit(b, "Jump", 0), Here(a))
            IN  Patch(Emit(Emit(settled, "Pop", 0), "Const", Bool(TRUE \in Settles(e.op, s))), Here(b))
    IN  IF settling = {} THEN Plain ELSE ShortCircuit(TRUE \in settling)

\* An arm's tests: each compared with the subject's slot, until one hits.
RECURSIVE ArmTests(_, _, _, _, _)
ArmTests(tests, c, k, slot, hits) ==
    IF k > Len(tests) THEN Emit(PatchAll(Emit(c, "Const", False), hits), "JumpIfFalse", 0)
    ELSE LET v == IF slot = 0 THEN Compile(tests[k], c)
                  ELSE Emit(Compile(tests[k], Emit(c, "LoadLocal", slot)), "Eq", 0)
         IN  ArmTests(tests, Emit(Emit(v, "JumpIfTrueKeep", 0), "Pop", 0), k + 1, slot, Append(hits, Here(v)))
ArmTest(arm, c, slot) ==
    CASE arm.is # "" -> Emit(Emit(Emit(c, "LoadLocal", slot), "IsType", arm.is), "JumpIfFalse", 0)
      [] arm.tests # <<>> -> ArmTests(arm.tests, c, 1, slot, <<>>)
      [] OTHER -> c
\* The test and the guard each skip to the next arm.
RECURSIVE WhenArms(_, _, _, _, _)
WhenArms(arms, c, k, slot, ends) ==
    IF k > Len(arms) THEN PatchAll(Emit(c, "Const", Unit), ends)
    ELSE LET a == arms[k]
             t == ArmTest(a, PushScope(c), slot)
             g == IF a.guard = <<>> THEN t ELSE Emit(Compile(a.guard[1], t), "JumpIfFalse", 0)
             skips == (IF Len(t.code) = Len(c.code) THEN <<>> ELSE <<Here(t) - 1>>)
                      \o (IF a.guard = <<>> THEN <<>> ELSE <<Here(g) - 1>>)
             b == PopScope(CompileStmts(a.body, g, 1, TRUE))
         IN  WhenArms(arms, PatchAll(Emit(b, "Jump", 0), skips), k + 1, slot, Append(ends, Here(b)))
WhenExpr(e, c) ==
    IF e.subject.e = "none" THEN WhenArms(e.arms, c, 1, 0, <<>>)
    ELSE LET s == Compile(e.subject, c)
         IN  WhenArms(e.arms, Emit(TempSlots(s, 1), "StoreLocal", s.next), 1, s.next, <<>>)

\* An assignment: what it is stored into first, then the value.
CompileAssign(e, c) ==
    CASE e.e = "assign" -> Emit(Compile(e.v, c), "StoreLocal", SlotOf(c, e.x))
      [] e.e = "addTo" -> Emit(Emit(Compile(e.v, Emit(c, "LoadLocal", SlotOf(c, e.x))), "Add", 0),
                               "StoreLocal", SlotOf(c, e.x))
      [] e.e = "setField" -> Emit(Args(<<e.o, e.v>>, c, 1), "SetField", 0)
      [] e.e = "setAt" -> Emit(Args(<<e.l, e.i, e.v>>, c, 1), "IndexSet", 0)

CompileCall(e, c) == Emit(Args(e.args, c, 1), "Call", <<e.f, Len(e.args), e.ty>>)
\* Receiver, arguments, and the method by name.
CompileMethod(e, c) ==
    LET es == CASE e.e \in {"removeAt"} -> <<e.l, e.i>>
                [] e.e = "insert" -> <<e.l, e.i, e.v>>
                [] e.e = "push" -> <<e.l, e.v>>
                [] e.e = "fold" -> <<e.l, e.v, e.f>>
                [] e.e \in HigherOrder -> <<e.l, e.f>>
                [] OTHER -> <<e.l>>
    IN  Emit(Args(es, c, 1), "CallMethod", <<e.e, Len(es)>>)
CompileField(e, c) ==
    LET o == Compile(e.o, c)
    IN  IF e.safe THEN Patch(Emit(Emit(o, "JumpIfNullKeep", 0), "GetField", 0), Here(o)) ELSE Emit(o, "GetField", 0)

CompileExpr(e, c) ==
    CASE e.e = "str" -> Emit(c, "Const", <<e.s>>)
      [] e.e = "num" -> Emit(c, "Const", <<"int", e.s>>)
      [] e.e = "idx" -> Emit(c, "Const", <<"at", e.k>>)
      [] e.e = "name" -> Emit(c, "LoadLocal", SlotOf(c, e.x))
      [] e.e = "this" -> Emit(c, "LoadThis", 0)
      [] e.e \in {"call", "maybe"} -> CompileCall(e, c)
      [] e.e = "print" -> Emit(Compile(e.v, c), "CallNative", "print")
      [] e.e = "add" -> Emit(Args(<<e.a, e.b>>, c, 1), "Add", 0)
      [] e.e = "box" -> Emit(Compile(e.v, c), "Construct", 1)
      [] e.e = "field" -> CompileField(e, c)
      [] e.e = "list" -> Emit(Args(e.items, c, 1), "MakeList", Len(e.items))
      [] e.e = "at" -> Emit(Args(<<e.l, e.i>>, c, 1), "Index", 0)
      [] e.e = "lambda" -> Emit(c, "MakeClosure", [k \in DOMAIN e.caps |-> SlotOf(c, e.caps[k])])
      [] e.e = "apply" -> Emit(Args(<<e.f>> \o e.args, c, 1), "Apply", <<Len(e.args), e.ty>>)
      [] e.e = "if" -> IfExpr(e, c)
      [] e.e = "ternary" -> TernaryExpr(e, c)
      [] e.e = "when" -> WhenExpr(e, c)
      [] e.e = "elvis" -> ElvisExpr(e, c)
      [] e.e = "logic" -> Logical(e, c)
      [] e.e = "null" -> Emit(c, "Const", Null)
      [] e.e = "truth" -> Emit(c, "Const", Bool(e.b))
      [] e.e = "suit" -> Emit(c, "Const", <<"suit", e.n>>)
      [] e.e = "not" -> Emit(Compile(e.v, c), "Not", 0)
      [] e.e = "isNull" -> Emit(Emit(Compile(e.v, c), "Const", Null), IF e.ne THEN "Ne" ELSE "Eq", 0)
      [] e.e = "is" -> Emit(Compile(e.v, c), "IsType", e.t)
      [] e.e = "notnull" -> Emit(Compile(e.v, c), "CheckNotNull", 0)
      [] e.e \in {"assign", "addTo", "setField", "setAt"} -> Emit(CompileAssign(e, c), "Const", Unit)
      [] OTHER -> CompileMethod(e, c)

\* A jump out of a loop pops the handlers of the trys it leaves and clears
\* the slots of the scopes it leaves.
CompileJump(s, c) ==
    LET l == Last(c.loops)
        pops == [c EXCEPT !.code = @ \o [k \in 1..(c.handlers - l.handlers) |-> [op |-> "PopHandler", a |-> 0, to |-> 0]]]
        clear == ClearSlots(pops, FlattenSeq(SubSeq(c.scopes, l.scopes + 1, Len(c.scopes))))
        at == Here(clear)
        j == Emit(clear, "Jump", 0)
        n == Len(c.loops)
    IN  IF s.s = "break" THEN [j EXCEPT !.loops[n].breaks = Append(@, at)]
        ELSE [j EXCEPT !.loops[n].continues = Append(@, at)]

PushLoop(c, top) == [c EXCEPT !.loops = Append(@, [top |-> top, breaks |-> <<>>, continues |-> <<>>,
                                                    handlers |-> c.handlers, scopes |-> Len(c.scopes)])]
CloseLoop(c, exit) ==
    LET l == Last(c.loops)
        back == FoldLeft(LAMBDA d, at : [d EXCEPT !.code[at].to = l.top], [c EXCEPT !.loops = Front(@)], l.continues)
    IN  PatchAll(Patch(back, exit), l.breaks)

WhileLoop(s, c) ==
    LET d == Compile(s.c, c)
        l == PushLoop(Emit(d, "JumpIfFalse", 0), Here(c))
    IN  CloseLoop(JumpTo(Scoped(s.body, l, FALSE), Here(c)), Here(d))
\* A for: the items and the place in two slots, the variable in another.
ForLoop(s, c) ==
    LET i == Compile(s.l, c)
        t == Emit(TempSlots(i, 2), "IterInit", i.next)
        v == DeclareLocal(PushScope(t), s.x)
        top == Here(v)
        l == PushLoop(Emit(v, "IterNext", <<i.next, t.next>>), top)
    IN  PopScope(CloseLoop(JumpTo(CompileStmts(s.body, l, 1, FALSE), top), top))

CompileTry(s, c) ==
    LET h == [Emit(c, "PushHandler", 0) EXCEPT !.handlers = @ + 1]
        b == [Scoped(s.body, h, FALSE) EXCEPT !.handlers = @ - 1]
        done == Emit(b, "PopHandler", 0)
        j == Patch(Emit(done, "Jump", 0), Here(c))
        k == PopScope(CompileStmts(s.handler, DeclareAndStore(PushScope(Emit(j, "Interpolate", 1)), s.x), 1, FALSE))
        out == Emit(Emit(k, "Jump", 0), "Throw", 0)
    IN  Patch(Patch(out, Here(done)), Here(k))

CompileStmt(s, c) ==
    CASE s.s = "expr" -> Compile(s.v, c)
      [] s.s = "let" -> DeclareAndStore(Compile(s.v, c), s.x)
      [] s.s = "destructure" -> DeclareAndStore(Emit(Compile(s.v, c), "GetField", 0), s.x)
      [] s.s = "block" -> Scoped(s.body, c, FALSE)
      [] s.s = "return" -> Emit(Compile(s.v, c), "Return", 0)
      [] s.s = "throw" -> Emit(Compile(s.v, c), "Throw", 0)
      [] s.s = "while" -> WhileLoop(s, c)
      [] s.s = "forIn" -> ForLoop(s, c)
      [] s.s = "try" -> CompileTry(s, c)
      [] OTHER -> CompileJump(s, c)
Compile(n, c) == IF "e" \in DOMAIN n THEN CompileExpr(n, c) ELSE CompileStmt(n, c)

\* A function: its parameters in the first slots, its body, its value.
CompileFunction(p, drop) ==
    LET start == [code |-> <<>>, scopes |-> <<<<>>>>, next |-> 1, max |-> 1, loops |-> <<>>, handlers |-> 0, drop |-> drop]
    IN  With(Emit(CompileStmts(p.body, DeclareLocal(start, "p"), 1, TRUE), "Return", 0),
             LAMBDA c : [code |-> c.code, slots |-> c.max])
-----------------------------------------------------------------------------
(***************************************************************************)
(* The loop of src/src/vm.rs on that code.  A state w is that of Natives   *)
(* with stack, the slots of the frame and the operands above them; ip;     *)
(* handlers, where each live try sends a failure and how high the stack    *)
(* was.                                                                    *)
(***************************************************************************)
Top(w) == Last(w.stack)
\* The operand k below the top.
Under(w, k) == w.stack[Len(w.stack) - k]
Popped(w, n) == [w EXCEPT !.stack = SubSeq(@, 1, Len(@) - n)]
Pushed(w, v) == [w EXCEPT !.stack = Append(@, v)]
\* n operands make way for one value.
Makes(w, n, v) == Pushed(Popped(w, n), v)
Operands(w, n) == SubSeq(w.stack, Len(w.stack) - n + 1, Len(w.stack))

\* A failure goes to the innermost try: its stack is cut to the height the
\* try began at, and the value is pushed for its clauses.
Caught(w) ==
    IF w.flow # "err" \/ w.handlers = <<>> THEN w
    ELSE LET h == Last(w.handlers)
         IN  [w EXCEPT !.handlers = Front(@), !.stack = Append(SubSeq(@, 1, h.height), w.v),
                       !.ip = h.target, !.flow = "ok"]
\* The value of a native or a call, pushed, unless it failed.
PushesValue(r) == IF r.flow = "ok" THEN Pushed(r, r.v) ELSE r

\* One operation; w.ip is already past it.
Operation(w, i) ==
    CASE i.op = "Const" -> Pushed(w, i.a)
      [] i.op = "Pop" -> Popped(w, 1)
      [] i.op = "LoadLocal" -> Pushed(w, w.stack[i.a])
      [] i.op = "StoreLocal" -> Popped([w EXCEPT !.stack[i.a] = Top(w)], 1)
      [] i.op = "LoadThis" -> Pushed(w, <<"ref", 1>>)
      [] i.op = "Add" -> Makes(w, 2, Under(w, 1) \o Top(w))
      [] i.op = "Eq" -> Makes(w, 2, Bool(Under(w, 1) = Top(w)))
      [] i.op = "Ne" -> Makes(w, 2, Bool(Under(w, 1) # Top(w)))
      [] i.op = "Logical" -> Makes(w, 2, Bool(Applies(i.a, Under(w, 1) = True, Top(w) = True)))
      [] i.op = "Not" -> Makes(w, 1, Bool(Top(w) # True))
      [] i.op = "IsType" -> Makes(w, 1, Bool(TypeMatches(Top(w), i.a)))
      [] i.op = "CheckNotNull" -> IF Top(w) = Null THEN Fails(w, <<"isnull">>) ELSE w
      [] i.op = "Jump" -> [w EXCEPT !.ip = i.to]
      [] i.op = "JumpIfFalse" -> Popped([w EXCEPT !.ip = IF Top(w) = True THEN @ ELSE i.to], 1)
      [] i.op = "JumpIfFalseKeep" -> [w EXCEPT !.ip = IF Top(w) = True THEN @ ELSE i.to]
      [] i.op = "JumpIfTrueKeep" -> [w EXCEPT !.ip = IF Top(w) = True THEN i.to ELSE @]
      [] i.op = "JumpIfNullKeep" -> [w EXCEPT !.ip = IF Top(w) = Null THEN i.to ELSE @]
      [] i.op = "JumpIfNotNullKeep" -> [w EXCEPT !.ip = IF Top(w) = Null THEN @ ELSE i.to]
      [] i.op = "PushHandler" -> [w EXCEPT !.handlers = Append(@, [height |-> Len(w.stack), target |-> i.to])]
      [] i.op = "PopHandler" -> [w EXCEPT !.handlers = Front(@)]
      [] i.op = "Throw" -> Fails(Popped(w, 1), Top(w))
      [] i.op = "Return" -> Ends([Popped(w, 1) EXCEPT !.handlers = <<>>], "return", Top(w))
      [] i.op = "MakeList" -> LET r == New(w, Operands(w, i.a)) IN Makes(r, i.a, r.v)
      [] i.op = "Construct" -> LET r == New(w, Operands(w, i.a)) IN Makes(r, i.a, r.v)
      [] i.op = "MakeClosure" -> Pushed(w, <<"fun", FlattenSeq([k \in DOMAIN i.a |-> w.stack[i.a[k]]])>>)
      [] i.op = "Index" -> PushesValue(IndexGet(Popped(w, 2), Under(w, 1), Top(w)))
      [] i.op = "IndexSet" -> IndexSet(Popped(w, 3), Under(w, 2), Under(w, 1), Top(w))
      [] i.op = "GetField" -> Makes(w, 1, Items(w, Top(w))[1])
      [] i.op = "SetField" -> Becomes(Popped(w, 2), Under(w, 1), <<Top(w)>>)
      [] i.op = "CallNative" -> Makes(Shows(w, Top(w)), 1, Unit)
      [] i.op = "Call" -> PushesValue(Answer(Popped(w, i.a[2]), i.a[1], i.a[3]))
      [] i.op = "Apply" -> PushesValue(CallFunction(Popped(w, i.a[1] + 1), Under(w, i.a[1]), Operands(w, i.a[1]),
                                                    IF i.a[2] = "Unit" THEN "each" ELSE "boom"))
      [] i.op = "CallMethod" -> PushesValue(ListMethod(i.a[1], Operands(w, i.a[2]), Popped(w, i.a[2])))
      [] i.op = "IterInit" -> Popped([w EXCEPT !.stack[i.a] = <<"items", Items(w, Top(w))>>,
                                               !.stack[i.a + 1] = <<"at", 0>>], 1)
      [] i.op = "IterNext" ->
            LET items == w.stack[i.a[1]][2]  k == w.stack[i.a[1] + 1][2] + 1
            IN  IF k > Len(items) THEN [w EXCEPT !.ip = i.to]
                ELSE [w EXCEPT !.stack[i.a[1] + 1] = <<"at", k>>, !.stack[i.a[2]] = items[k]]
      [] OTHER -> w

\* Until the function returns, or fails with no try of its own open.
RECURSIVE Execute(_, _)
Execute(w, code) ==
    IF w.flow # "ok" THEN w
    ELSE Execute(Caught(Operation([w EXCEPT !.ip = @ + 1], code[w.ip])), code)

\* A call of the function on the VM.
RunsOn(f, choices) ==
    Execute([stack |-> <<<<"arg">>>> \o [k \in 1..(f.slots - 1) |-> Unit], ip |-> 1, handlers |-> <<>>,
             heap |-> << <<<<"mine">>>> >>, out |-> <<>>, in |-> choices, asks |-> <<>>, flow |-> "ok", v |-> Unit], f.code)
\* The operands left under the returned value.
LeftOver(w, f) == IF w.flow = "return" THEN Len(w.stack) - f.slots ELSE 0
VmMeaning(w, ty) == [out |-> w.out, flow |-> IF w.flow = "return" THEN "ok" ELSE w.flow, in |-> w.in,
                     v |-> IF w.flow = "err" \/ ty = "Str" THEN w.v ELSE Unit]
=============================================================================
