----------------------------- MODULE MCChecker -----------------------------
(***************************************************************************)
(* Small functions around every kind of condition, in every place where    *)
(* what it proves could be relied on: the ones the checker accepts are      *)
(* walked with every argument and every answer of what they call.           *)
(***************************************************************************)
EXTENDS Checker
CONSTANTS MaxChoices, ElseIfGuards, Aliases, Escaping, Actor
W == INSTANCE Walk
LOCAL INSTANCE SequencesExt

(* func f(p: String?, a: Any, s: Suit?, b: Box, l: List<String>, var m: ...) *)
Params(ret) == <<
    [x |-> "p", ty |-> Nullable(TStr), var |-> FALSE], [x |-> "a", ty |-> TAny, var |-> FALSE],
    [x |-> "s", ty |-> Nullable(TSuit), var |-> FALSE], [x |-> "b", ty |-> TBox, var |-> FALSE],
    [x |-> "l", ty |-> TList(TStr), var |-> FALSE], [x |-> "m", ty |-> TList(TStr), var |-> TRUE],
    [x |-> "n", ty |-> TList(TList(TStr)), var |-> FALSE] >>
P == Name("p", "Str")
A == Name("a", "Any")
S == Name("s", "Suit")
L == Name("l", "List")
M == Name("m", "List")
B == Name("b", "Box")
Vr == Name("v", "Str")
Boom(e) == Call("boom", <<e>>, "Str")

\* Conditions about the parameters and the local `var v`.
Atoms == <<NonNull(P), IsNull(P), Is(A, "Str"), NonNull(Vr), IsNull(Vr), Ask>>
Ops == <<"and", "or", "nand", "nor", "implies", "xor", "xnor">>
Condition(c) == LET v == Logic(Ops[c.op], Atoms[c.left], Atoms[c.right])
                    w == IF c.op = 0 THEN Atoms[c.left] ELSE v
                IN  IF c.not THEN Not(w) ELSE w
Conditions == {c \in [op : {0}, left : DOMAIN Atoms, right : {1}, not : {FALSE}] : TRUE}
         \cup [op : DOMAIN Ops, left : 1..4, right : {1, 3, 4, 6}, not : BOOLEAN]

\* What relies on it.
Uses == << <<Do(Boom(P))>>, <<Do(Boom(A))>>, <<Do(Boom(Vr))>>, <<Return(P)>> >>
Exits == [ret |-> <<Return(Str("r"))>>, throw |-> <<Throw(Str("t"))>>, brk |-> <<Break>>, cont |-> <<Continue>>,
          fall |-> <<Do(Show(Str("f")))>>]
Assigned == <<Do(Assign("v", Maybe("Str")))>>

Guarded(c, shape, exit, use) ==
    CASE shape = "guard" -> <<Do(If(c, exit, <<>>, "Unit"))>> \o use
      [] shape = "guardAssigned" -> <<Do(If(c, exit, <<>>, "Unit"))>> \o Assigned \o use
      [] shape = "guardShadowed" -> <<Do(If(c, exit, <<>>, "Unit")), Block(<<Val("p", Maybe("Str"))>> \o use)>>
      [] shape = "guardInBlock" -> <<Block(<<Do(If(c, exit, <<>>, "Unit"))>>)>> \o use
      [] shape = "guardInTry" -> <<Try(<<Do(If(c, exit, <<>>, "Unit"))>> \o use, "e", <<>>)>>
      [] shape = "guardInLoop" -> <<While(Ask, <<Do(If(c, exit, <<>>, "Unit"))>> \o use)>>
      [] shape = "guardedBelow" -> <<While(Ask, <<Do(If(c, exit, <<>>, "Unit"))>>)>> \o use
      [] shape = "elseIf" -> <<Do(If(Ask, <<>>, <<Do(If(c, exit, <<>>, "Unit"))>>, "Unit"))>> \o use
      [] shape = "branches" -> <<Do(If(c, use, exit, "Unit"))>>
      [] shape = "otherBranch" -> <<Do(If(c, exit, use, "Unit"))>>
      [] shape = "while" -> <<While(And(Ask, c), use \o exit)>>
      [] shape = "right" -> <<Do(If(And(c, Is(use[1].v, "Int")), exit, <<>>, "Unit"))>>
      [] shape = "rightOr" -> <<Do(If(Or(c, Is(use[1].v, "Int")), exit, <<>>, "Unit"))>>
      [] shape = "rightImplies" -> <<Do(If(Logic("implies", c, Is(use[1].v, "Int")), exit, <<>>, "Unit"))>>
      [] shape = "ternary" -> <<Do(Ternary(c, use[1].v, Str("z")))>>
      [] shape = "arm" -> <<Do(When(NoSubject, <<Arm(<<c>>, use), Else(exit)>>, "Unit"))>>
      [] shape = "armTwo" -> <<Do(When(NoSubject, <<Arm(<<Ask, c>>, use), Else(exit)>>, "Unit"))>>
      [] shape = "armBelow" -> <<Do(When(NoSubject, <<Arm(<<Ask, c>>, exit), Else(use)>>, "Unit"))>>
      [] shape = "armsGuarded" -> <<Do(When(NoSubject, <<GuardedArm(<<c>>, <<Ask>>, exit), Else(use)>>, "Unit"))>>
      [] shape = "armGuard" -> <<Do(When(NoSubject, <<GuardedArm(<<Ask>>, <<c>>, use), Else(use)>>, "Unit"))>>
Shapes == {"guard", "guardAssigned", "guardShadowed", "guardInBlock", "guardInTry", "guardInLoop", "guardedBelow",
           "branches", "otherBranch", "while", "right", "rightOr", "rightImplies", "ternary", "arm", "armTwo", "armBelow",
           "armsGuarded", "armGuard"}
          \cup (IF ElseIfGuards THEN {"elseIf"} ELSE {})
Looping(shape) == shape \in {"guardInLoop", "guardedBelow", "while"}
IsValue(use) == use # 4
Keys == {k \in [cond : Conditions, shape : Shapes, exit : DOMAIN Exits, use : DOMAIN Uses] :
            /\ k.exit \in {"brk", "cont"} => Looping(k.shape)
            /\ k.shape \in {"right", "rightOr", "rightImplies", "ternary"} => IsValue(k.use) /\ k.exit = "ret"
            /\ k.shape = "armGuard" => k.exit = "ret"}
Before == <<Let("v", P), Val("k", Str("k"))>>
FromKey(k) == [body |-> Before \o Guarded(Condition(k.cond), k.shape, Exits[k.exit], Uses[k.use]) \o <<Return(Str("end"))>>,
               ret |-> TStr]

\* Functions in a form of their own: subjects, joins, changes to what a
\* parameter holds, and ways to end without a value.
Plain == <<
    <<Return(When(P, <<Arm(<<NullLit>>, <<Do(Str("none"))>>), Else(<<Do(P)>>)>>, "Str"))>>,
    <<Return(When(P, <<GuardedArm(<<NullLit>>, <<Ask>>, <<Do(Str("none"))>>), Else(<<Do(P)>>)>>, "Str"))>>,
    <<Return(When(P, <<Arm(<<NullLit, Str("x")>>, <<Do(Str("none"))>>), Else(<<Do(P)>>)>>, "Str"))>>,
    <<Return(When(A, <<IsArm("Str", <<Do(Boom(A))>>), Else(<<Do(Str("no"))>>)>>, "Str"))>>,
    <<Return(When(A, <<IsArm("Str", <<Do(Boom(A))>>), Else(<<Do(A)>>)>>, "Str"))>>,
    <<Return(When(S, <<Arm(<<Suit("H")>>, <<Do(Str("h"))>>), Arm(<<Suit("S")>>, <<Do(Str("s"))>>)>>, "Str"))>>,
    <<Return(When(S, <<Arm(<<Suit("H"), NullLit>>, <<Do(Str("h"))>>), Arm(<<Suit("S")>>, <<Do(Str("s"))>>)>>, "Str"))>>,
    <<Return(When(S, <<Arm(<<Suit("H"), NullLit>>, <<Do(Str("h"))>>), GuardedArm(<<Suit("S")>>, <<Ask>>, <<Do(Str("s"))>>)>>, "Str"))>>,
    <<Do(When(S, <<Arm(<<NullLit>>, <<Return(Str("h"))>>), Arm(<<Suit("S"), Suit("H")>>, <<Throw(Str("s"))>>)>>, "Unit"))>>,
    <<Do(When(S, <<Arm(<<Suit("H")>>, <<Return(Str("h"))>>), Arm(<<Suit("S")>>, <<Return(Str("s"))>>)>>, "Unit"))>>,
    <<Do(When(Ask, <<Arm(<<Truth(TRUE)>>, <<Return(Str("h"))>>), Arm(<<Truth(FALSE)>>, <<Return(Str("s"))>>)>>, "Unit"))>>,
    <<Do(If(Ask, <<Return(Str("a"))>>, <<Throw(Str("b"))>>, "Unit"))>>,
    <<Do(If(Ask, <<Return(Str("a"))>>, <<>>, "Unit"))>>,
    <<While(Ask, <<Return(Str("a"))>>)>>,
    <<ForIn("e", L, <<Return(Name("e", "Str"))>>)>>,
    <<Try(<<Return(Boom(Str("a")))>>, "e", <<Return(Name("e", "Str"))>>)>>,
    <<Try(<<Return(Boom(Str("a")))>>, "e", <<Do(Show(Name("e", "Str")))>>)>>,
    <<Try(<<Do(Boom(Str("a")))>>, "e", <<Return(Name("e", "Str"))>>)>>,
    <<While(Ask, <<Try(<<Break>>, "e", <<Return(Name("e", "Str"))>>)>>)>>,
    <<Do(If(Ask, <<Do(P)>>, <<Do(Str("z"))>>, "Str"))>>,
    <<Do(If(Ask, <<Do(Str("y"))>>, <<Do(Str("z"))>>, "Str"))>>,
    <<Return(Elvis(P, Str("z")))>>, <<Return(Elvis(P, Maybe("Str")))>>, <<Return(NotNull(P))>>,
    <<Return(Elvis(First(L), Str("z")))>>, <<Return(First(L))>>, <<Return(At(L, Idx(0)))>>,
    <<Val("y", Ternary(Ask, P, Str("z"))), Return(Name("y", "Str"))>>,
    <<Val("y", ListOf(<<P, Str("z")>>)), Return(At(Name("y", "List"), Idx(0)))>>,
    <<LetAs("y", TList(Nullable(TStr)), ListOf(<<Str("z")>>)), Do(Push(Name("y", "List"), P)), Return(Str("z"))>>,
    <<LetAs("y", TList(Nullable(TStr)), L), Do(Push(Name("y", "List"), P)), Return(At(L, Idx(-1)))>>,
    <<LetAs("y", TAny, P), Return(Name("y", "Any"))>>,
    <<Do(Push(L, Str("x"))), Return(Str("z"))>>, <<Do(Push(M, Str("x"))), Return(Str("z"))>>,
    <<Do(SetAt(L, Idx(0), Str("x"))), Return(Str("z"))>>, <<Do(SetField(B, Str("x"))), Return(Str("z"))>>,
    <<Do(Call("fill", <<L>>, "Unit")), Return(Str("z"))>>, <<Do(Call("fill", <<M>>, "Unit")), Return(Str("z"))>>,
    <<Do(Call("look", <<L>>, "Unit")), Return(Str("z"))>>,
    <<Do(Push(At(Name("n", "List"), Idx(0)), Str("x"))), Return(Str("z"))>>,
    <<Do(Clear(NotNull(First(Name("n", "List"))))), Return(Str("z"))>>,
    <<Do(Call("fill", <<At(Name("n", "List"), Idx(0))>>, "Unit")), Return(Str("z"))>>,
    <<Do(SetAt(At(Name("n", "List"), Idx(0)), Idx(0), Str("x"))), Return(Str("z"))>>,
    <<Do(Push(ListOf(<<P>>), Str("x"))), Return(Str("z"))>>
  >>
Aliased == <<
    <<Val("k", L), Do(Push(Name("k", "List"), Str("x"))), Return(Str("z"))>>,
    <<ForIn("k", Name("n", "List"), <<Do(Push(Name("k", "List"), Str("x")))>>), Return(Str("z"))>>
  >>
Given == Plain \o (IF Aliases THEN Aliased ELSE <<>>)
Named == {[plain |-> i] : i \in DOMAIN Given}
Function(k) == IF "plain" \in DOMAIN k THEN [body |-> Given[k.plain], ret |-> TStr] ELSE FromKey(k)

\* What a caller passes: the lists and the instance live in its heap.
Heap == <<<<<<"mine">>>>, <<<<"i">>, <<"j">>>>, <<<<"o">>>>, <<<<"ref", 5>>>>, <<<<"in">>>>>>
Lent == {1, 2, 4, 5}
Arguments(p, a, s) == ("p" :> p) @@ ("a" :> a) @@ ("s" :> s) @@ ("b" :> <<"ref", 1>>) @@ ("l" :> <<"ref", 2>>)
                   @@ ("m" :> <<"ref", 3>>) @@ ("n" :> <<"ref", 4>>)
Strs == {<<"arg">>, Null}
Anys == {<<"arg">>, <<"int", "1">>, Null}
Suits(k) == IF "plain" \in DOMAIN k THEN {<<"suit", "H">>, <<"suit", "S">>, Null} ELSE {Null}

(* Beside them, handlers that actors are spawned with. *)
FieldOf(ty, mutable, weak) == [ty |-> ty, mutable |-> mutable, weak |-> weak]
TC(c) == <<"Class", c>>
Classes == [Point |-> <<FieldOf(TInt, FALSE, FALSE)>>,
            Counter |-> <<FieldOf(TInt, TRUE, FALSE)>>,
            Holder |-> <<FieldOf(Nullable(TC("Counter")), FALSE, FALSE)>>,
            Chain |-> <<FieldOf(TInt, FALSE, FALSE), FieldOf(Nullable(TC("Chain")), FALSE, FALSE)>>,
            Child |-> <<FieldOf(Nullable(TC("Chain")), TRUE, TRUE)>>,
            Task |-> <<FieldOf(TFun(<<>>, TUnit), FALSE, FALSE)>>]
Locals == [list |-> TList(TInt), counter |-> TC("Counter"), child |-> TC("Child"), task |-> TC("Task"), any |-> TAny,
           outbox |-> TC("Outbox"), chain |-> TC("Chain")]
Globally(kind, ty) == [kind |-> kind, ty |-> ty, body |-> <<>>]
Sp == INSTANCE SpawnRule WITH Class <- Classes, Captured <- Locals, Global <- <<>>, Handler <- {},
        handler <- <<>>, spawned <- {}, held <- <<>>, value <- <<>>, writes <- <<>>
Globals == [total |-> Globally("var", TInt), seen |-> Globally("val", TList(TInt)), origin |-> Globally("val", TC("Point")),
            shared |-> Globally("val", TC("Holder")), ref |-> Globally("val", TC("ActorRef")),
            path |-> Globally("val", TC("Chain")), tick |-> Globally("val", TFun(<<>>, TUnit)),
            bump |-> [kind |-> "fun", ty |-> TUnit, body |-> <<Sp!Use("total")>>],
            pure |-> [kind |-> "fun", ty |-> TUnit, body |-> <<Sp!Use("origin")>>]]
\* A handler that calls a function which changes a global, calls a global
\* closure, or binds a name in a branch before it uses the global.
Escapes == [function |-> <<Sp!Use("bump")>>, closure |-> <<Sp!Use("tick")>>,
            branch |-> <<Sp!Inner("branch", <<Sp!Bind("total")>>), Sp!Use("total")>>]
Written == {<<Sp!Use(x)>> : x \in DOMAIN Locals \cup (DOMAIN Globals \ {"bump", "tick"})}
      \cup {<<Sp!Use("list"), Sp!Inner(k, <<Sp!Bind("total"), Sp!Use("total")>>)>> : k \in {"block", "branch"}}
      \cup {<<Sp!Inner("block", <<Sp!Bind("total")>>), Sp!Use("total"), Sp!Use("counter")>>,
            <<Sp!Inner("branch", <<Sp!Use("seen"), Sp!Use("pure")>>), Sp!Use("outbox")>>,
            <<Sp!Use("counter"), Sp!Use("pure"), Sp!Use("ref")>>}
Handlers == {[body |-> b, inPlace |-> p] : b \in Written \cup {Escapes[w] : w \in Escaping}, p \in BOOLEAN}

VARIABLES part, fun, args, choices, accepted, call, handler, spawned, held, value, writes
bodyVars == <<fun, args, choices, accepted, call>>
spawnVars == <<handler, spawned, held, value, writes>>
vars == <<part, bodyVars, spawnVars>>
R == INSTANCE SpawnRule WITH Class <- Classes, Captured <- Locals, Global <- Globals, Handler <- Handlers
Accepts(k) == LET f == Function(k) IN CheckFunBody(Params(f.ret), f.ret, f.body)
Called(k, given, taken) ==
    With(W!Invoke(Function(k).body, given, Heap, taken), LAMBDA r :
         [flow |-> r.flow, v |-> r.v, heap |-> r.heap, asks |-> r.asks])
BodyInit ==
    /\ part = "body"
    /\ fun \in Keys \cup Named
    /\ accepted = Accepts(fun)
    /\ choices = <<>>
    /\ args \in IF accepted THEN {Arguments(p, a, s) : p \in Strs, a \in Anys, s \in Suits(fun)} ELSE {<<>>}
    /\ call = IF accepted THEN Called(fun, args, <<>>) ELSE [flow |-> "refused"]
    /\ R!SInit /\ handler.body = <<Sp!Use("any")>> /\ ~handler.inPlace
SpawnInit ==
    /\ part = "spawn"
    /\ fun = [plain |-> 1] /\ accepted = FALSE /\ choices = <<>> /\ args = <<>> /\ call = [flow |-> "refused"]
    /\ R!SInit
Init == BodyInit \/ SpawnInit
\* What the function asks next is answered.
Answered == /\ part = "body" /\ accepted /\ call.asks # <<>> /\ Len(choices) < MaxChoices
            /\ \E c \in Answers(Head(call.asks)) : choices' = Append(choices, c)
            /\ call' = Called(fun, args, choices')
            /\ UNCHANGED <<part, fun, args, accepted, spawnVars>>
Spawned == part = "spawn" /\ R!SNext /\ UNCHANGED <<part, bodyVars>>
Next == Answered \/ Spawned
Spec == Init /\ [][Next]_vars

\* A function the checker accepts never uses a null, or a value of another
\* type, where a value of one type is needed, whatever it is given and
\* whatever the functions it calls answer; and it ends with a value of its
\* type: it does not fall off its end.
AcceptedIsSafe ==
    accepted => /\ call.flow \in {"ok", "err"}
                /\ call.flow = "err" => call.v # <<"misused">>
                /\ call.flow = "ok" => W!TypeMatches(call.v, "Str")

\* What a parameter written without `var` holds is, when an accepted function
\* has ended, as the caller left it.
LentIsUntouched == accepted => \A r \in Lent : call.heap[r] = Heap[r]

\* SpawnRule's: the actors a program can spawn change nothing of each other's,
\* and what their handlers capture can be copied.
NoChangeIsLost == R!NoChangeIsLost
CapturesCopy == R!CapturesCopy
=============================================================================
