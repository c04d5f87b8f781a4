------------------------------- MODULE Syntax -------------------------------
(***************************************************************************)
(* The statements and expressions of a Keal function body, as the parser   *)
(* builds them and the checker types them (src/src/ast.rs), cut down to    *)
(* the ones whose evaluation moves references, jumps or can fail.  The     *)
(* three engines read the same tree: Walk evaluates it, Bytecode compiles  *)
(* it for the VM, Emission writes C for it.                                *)
(*                                                                         *)
(* What a body cannot decide by itself -- the answer of a condition, what  *)
(* a called function returns, whether it fails -- is a choice, taken from  *)
(* one sequence in the order the program asks: two engines that are given  *)
(* the same choices must show the same thing.                              *)
(***************************************************************************)
EXTENDS Naturals, Sequences

\* What is made of something worked out before.
With(it, Of(_)) == Of(it)

\* The static types that matter here.  A counted value is a reference that
\* somebody owes a release for.
Counted(ty) == ty \in {"Str", "List", "Box", "Fun"}

(* Values: a string is the sequence of its parts, an integer a named one.  *)
Null == <<"null">>
Unit == <<"unit">>
True == <<"true">>
False == <<"false">>
Bool(b) == IF b THEN True ELSE False

(* Literals and names. *)
NullLit == [e |-> "null", ty |-> "Null"]
Truth(b) == [e |-> "truth", b |-> b, ty |-> "Bool"]
\* A value of an enum whose variants carry nothing.
Suit(n) == [e |-> "suit", n |-> n, ty |-> "Suit"]
Str(s) == [e |-> "str", s |-> s, ty |-> "Str"]
TextOf(parts) == [e |-> "text", parts |-> parts, ty |-> "Str"]
Num(s) == [e |-> "num", s |-> s, ty |-> "Int"]
Idx(k) == [e |-> "idx", k |-> k, ty |-> "Int"]
\* An Int literal where a Float belongs: the checker makes it one.
Widened(k) == [e |-> "widened", k |-> k, ty |-> "Float"]
Name(x, ty) == [e |-> "name", x |-> x, ty |-> ty]
This == [e |-> "this", ty |-> "Box"]

(* Calls of functions elsewhere: of a condition, of one that answers with  *)
(* a string or an integer, of one whose answer may be null.                *)
Ask == [e |-> "call", f |-> "ask", args |-> <<>>, ty |-> "Bool"]
Call(f, args, ty) == [e |-> "call", f |-> f, args |-> args, ty |-> ty]
Maybe(ty) == [e |-> "maybe", f |-> "maybe", args |-> <<>>, ty |-> ty]
Show(v) == [e |-> "print", v |-> v, ty |-> "Unit"]
Add(a, b) == [e |-> "add", a |-> a, b |-> b, ty |-> a.ty]
Less(a, b) == [e |-> "less", a |-> a, b |-> b, ty |-> "Bool"]
Same(a, b) == [e |-> "same", a |-> a, b |-> b, ty |-> "Bool"]
\* A call of a function of the same program, by name.
Run(f, args, ty) == [e |-> "run", f |-> f, args |-> args, ty |-> ty]

(* Instances of a class with one field, and lists. *)
NewBox(v) == [e |-> "box", v |-> v, ty |-> "Box"]
Field(o, safe) == [e |-> "field", o |-> o, safe |-> safe, ty |-> "Str"]
ListOf(items) == [e |-> "list", items |-> items, ty |-> "List"]
At(l, i) == [e |-> "at", l |-> l, i |-> i, ty |-> "Str"]
Push(l, v) == [e |-> "push", l |-> l, v |-> v, ty |-> "Unit"]
TakeAt(l, i) == [e |-> "removeAt", l |-> l, i |-> i, ty |-> "Str"]
Insert(l, i, v) == [e |-> "insert", l |-> l, i |-> i, v |-> v, ty |-> "Unit"]
Clear(l) == [e |-> "clear", l |-> l, ty |-> "Unit"]
First(l) == [e |-> "first", l |-> l, ty |-> "Str"]
Size(l) == [e |-> "size", l |-> l, ty |-> "Int"]

(* Expressions that branch; a block is a sequence of statements. *)
If(c, then, els, ty) == [e |-> "if", c |-> c, then |-> then, els |-> els, ty |-> ty]
Ternary(c, a, b) == [e |-> "ternary", c |-> c, a |-> a, b |-> b, ty |-> a.ty]
\* An arm: its tests (none means else) or the type it asks for, the guard it
\* may have, and its body.
When(subject, arms, ty) == [e |-> "when", subject |-> subject, arms |-> arms, ty |-> ty]
GuardedArm(tests, guard, body) == [tests |-> tests, is |-> "", guard |-> guard, body |-> body]
Arm(tests, body) == GuardedArm(tests, <<>>, body)
IsArm(ty, body) == [tests |-> <<>>, is |-> ty, guard |-> <<>>, body |-> body]
Else(body) == Arm(<<>>, body)
NoSubject == [e |-> "none", ty |-> "Unit"]
Elvis(a, b) == [e |-> "elvis", a |-> a, b |-> b, ty |-> b.ty]
Logic(op, a, b) == [e |-> "logic", op |-> op, a |-> a, b |-> b, ty |-> "Bool"]
And(a, b) == Logic("and", a, b)
Or(a, b) == Logic("or", a, b)
Not(v) == [e |-> "not", v |-> v, ty |-> "Bool"]
\* `v == null` and `v != null`; `v is T`.
IsNull(v) == [e |-> "isNull", v |-> v, ne |-> FALSE, ty |-> "Bool"]
NonNull(v) == [e |-> "isNull", v |-> v, ne |-> TRUE, ty |-> "Bool"]
Is(v, t) == [e |-> "is", v |-> v, t |-> t, ty |-> "Bool"]
NotNull(v) == [e |-> "notnull", v |-> v, ty |-> v.ty]

(* Closures, and the list methods that call one on every element. *)
Lambda(caps) == [e |-> "lambda", caps |-> caps, ty |-> "Fun"]
Apply(f, args, ty) == [e |-> "apply", f |-> f, args |-> args, ty |-> ty]
Each(l, f) == [e |-> "forEach", l |-> l, f |-> f, ty |-> "Unit"]
MapOver(l, f) == [e |-> "map", l |-> l, f |-> f, ty |-> "List"]
Filter(l, f) == [e |-> "filter", l |-> l, f |-> f, ty |-> "List"]
Fold(l, v, f) == [e |-> "fold", l |-> l, v |-> v, f |-> f, ty |-> "Str"]
AnyOf(l, f) == [e |-> "any", l |-> l, f |-> f, ty |-> "Bool"]
AllOf(l, f) == [e |-> "all", l |-> l, f |-> f, ty |-> "Bool"]
Find(l, f) == [e |-> "find", l |-> l, f |-> f, ty |-> "Str"]

(* Assignments: to a name, with an operator, to a field, to an element. *)
Assign(x, v) == [e |-> "assign", x |-> x, v |-> v, ty |-> "Unit"]
AddTo(x, v) == [e |-> "addTo", x |-> x, v |-> v, ty |-> "Unit"]
SetField(o, v) == [e |-> "setField", o |-> o, v |-> v, ty |-> "Unit"]
SetAt(l, i, v) == [e |-> "setAt", l |-> l, i |-> i, v |-> v, ty |-> "Unit"]

(* Statements. *)
Let(x, v) == [s |-> "let", x |-> x, v |-> v, as |-> <<>>, var |-> TRUE]
Val(x, v) == [s |-> "let", x |-> x, v |-> v, as |-> <<>>, var |-> FALSE]
\* With its type written out.
LetAs(x, t, v) == [s |-> "let", x |-> x, v |-> v, as |-> <<t>>, var |-> TRUE]
\* A `constexpr val`: the checker works its value out.
Constexpr(x, v) == [s |-> "constexpr", x |-> x, v |-> v]
Do(v) == [s |-> "expr", v |-> v]
Return(v) == [s |-> "return", v |-> v]
While(c, body) == [s |-> "while", c |-> c, body |-> body]
ForIn(x, l, body) == [s |-> "forIn", x |-> x, l |-> l, body |-> body]
ForRange(x, from, to, body) == [s |-> "forRange", x |-> x, from |-> from, to |-> to, body |-> body]
Throw(v) == [s |-> "throw", v |-> v]
Try(body, x, handler) == [s |-> "try", body |-> body, x |-> x, handler |-> handler]
Break == [s |-> "break"]
Continue == [s |-> "continue"]
Block(body) == [s |-> "block", body |-> body]
Destructure(x, v) == [s |-> "destructure", x |-> x, v |-> v]

(* The logical connectives: what each says, what the left side alone can     *)
(* settle, the truth it has where the right side is reached, and the truth   *)
(* both must have had for an outcome; a set of one, or of none.              *)
Applies(op, a, b) ==
    CASE op = "and" -> a /\ b
      [] op = "or" -> a \/ b
      [] op = "xor" -> a # b
      [] op = "xnor" -> a = b
      [] op = "nand" -> ~(a /\ b)
      [] op = "nor" -> ~(a \/ b)
      [] op = "implies" -> a => b
Settles(op, left) ==
    CASE op = "and" /\ ~left -> {FALSE}
      [] op = "or" /\ left -> {TRUE}
      [] op = "nand" /\ ~left -> {TRUE}
      [] op = "nor" /\ left -> {FALSE}
      [] op = "implies" /\ ~left -> {TRUE}
      [] OTHER -> {}
Reaches(op) == CASE op \in {"and", "nand", "implies"} -> {TRUE} [] op \in {"or", "nor"} -> {FALSE} [] OTHER -> {}
PinsBoth(op, outcome) == {outcome}  \* mutant
Implied(op, outcome) ==
    CASE op = "and" /\ outcome -> {TRUE}
      [] op = "or" /\ ~outcome -> {FALSE}
      [] op = "nand" /\ ~outcome -> {TRUE}
      [] op = "nor" /\ outcome -> {FALSE}
      [] OTHER -> {}

\* The functions a program calls, by what they may answer.
Answers(f) ==
    CASE f = "ask" -> {"true", "false"}
      [] f = "maybe" -> {"some", "null"}
      [] f = "boom" -> {"ok", "fail"}
      [] f = "each" -> {"ok", "fail"}
      [] f = "test" -> {"true", "false", "fail"}
      [] OTHER -> {"ok"}
\* What it must be given.
Takes(f) == CASE f = "boom" -> <<"Str">> [] f \in {"fill", "look"} -> <<"List">> [] OTHER -> <<>>
\* What is answered once the choices of a run are used up.
Default(f) == CASE f \in {"ask", "test"} -> "false" [] f = "maybe" -> "null" [] OTHER -> "ok"
=============================================================================
