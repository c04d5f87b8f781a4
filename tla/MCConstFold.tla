----------------------------- MODULE MCConstFold -----------------------------
(***************************************************************************)
(* Programs with `constexpr` bindings: every small expression, and calls   *)
(* of functions that loop, jump, recurse and build lists, worked out by    *)
(* the checker binding by binding and, the computations left where they    *)
(* stood, by the tree-walker.                                              *)
(***************************************************************************)
EXTENDS Syntax, TLC
CONSTANTS Budget, MaxDepth,
          Differing  \* the ways to write a program on which the folder differs: a subset of
                     \* {"shadowed", "shared", "negative", "compound", "eager", "widened"}
LOCAL INSTANCE SequencesExt

X == Name("x", "Str")
N == Name("n", "Int")
O == Name("o", "List")
Fun(params, body) == [params |-> params, body |-> body]
Incr(x) == Do(Assign(x, Add(Name(x, "Int"), Idx(1))))
Is0 == Less(N, Idx(1))
Functions == [
    twice |-> Fun(<<"x">>, <<Return(Add(X, X))>>),
    choose |-> Fun(<<"n">>, <<Do(If(Is0, <<Return(Str("zero"))>>, <<>>, "Unit")), Return(Str("more"))>>),
    early |-> Fun(<<"n">>, <<Do(When(N, <<Arm(<<Idx(0)>>, <<Return(Str("z"))>>),
                                         GuardedArm(<<Idx(1), Idx(2)>>, <<Less(Idx(1), N)>>, <<Return(Str("two"))>>)>>, "Unit")),
                             Return(Str("rest"))>>),
    build |-> Fun(<<"n">>, <<Let("o", ListOf(<<Str("a")>>)),
                             ForRange("i", Idx(0), N, <<Do(Push(O, Str("b")))>>),
                             Do(SetAt(O, Idx(1), Str("c"))), Return(O)>>),
    odd |-> Fun(<<"n">>, <<Let("k", Idx(0)), Let("x", Str(".")),
                           While(Truth(TRUE), <<
                               Do(If(Not(Less(Name("k", "Int"), N)), <<Break>>, <<>>, "Unit")), Incr("k"),
                               Do(If(Same(Name("k", "Int"), Idx(1)), <<Continue>>, <<>>, "Unit")), Do(AddTo("x", Str("+")))>>),
                           Return(X)>>),
    leave |-> Fun(<<"n">>, <<ForRange("i", Idx(0), Idx(2), <<
                                 ForIn("x", ListOf(<<Str("a"), Str("b")>>), <<
                                     Do(If(Same(Name("i", "Int"), N), <<Return(X)>>, <<>>, "Unit")),
                                     Do(If(Less(N, Name("i", "Int")), <<Break>>, <<>>, "Unit")) >>) >>),
                             Return(Str("none"))>>),
    chars |-> Fun(<<"n">>, <<Let("x", Str(".")),
                             ForIn("c", Run("deep", <<N>>, "Str"), <<Do(AddTo("x", Name("c", "Str")))>>), Return(X)>>),
    deep |-> Fun(<<"n">>, <<Do(If(Is0, <<Return(Str("d"))>>, <<>>, "Unit")),
                            Return(Add(Run("deep", <<Add(N, Idx(-1))>>, "Str"), Str("e")))>>),
    inner |-> Fun(<<"n">>, <<Let("x", Str("a")),
                             Do(If(Is0, <<Let("x", Str("b")), Do(AddTo("x", Str("c")))>>, <<Do(AddTo("x", Str("c")))>>, "Unit")),
                             ForIn("x", ListOf(<<Str("d")>>), <<Do(AddTo("x", Str("e")))>>), Return(X)>>),
    value |-> Fun(<<"n">>, <<Let("x", If(Is0, <<Let("y", Str("b")), Do(Add(Name("y", "Str"), Str("c")))>>, <<Do(Str("a"))>>, "Str")),
                             Return(X)>>),
    global |-> Fun(<<"n">>, <<Return(Name("p", "Str"))>>),
    calls |-> Fun(<<"n">>, <<Let("p", Str("mine")), Return(Run("global", <<N>>, "Str"))>>),
    endless |-> Fun(<<"n">>, <<While(Truth(TRUE), <<Do(If(Less(Idx(0), N), <<Return(Str("e"))>>, <<>>, "Unit"))>>), Return(Str("z"))>>),
    deeper |-> Fun(<<"n">>, <<Do(If(Is0, <<Return(Run("deeper", <<N>>, "Str"))>>, <<>>, "Unit")), Return(Str("e"))>>),
    float |-> Fun(<<"n">>, <<Return(Widened(1))>>),
    grow |-> Fun(<<"o">>, <<Do(Push(O, Str("g"))), Return(Str("g"))>>),
    shared |-> Fun(<<"n">>, <<Let("o", ListOf(<<Str("a")>>)), Let("q", O), Do(Push(Name("q", "List"), Str("b"))), Return(Size(O))>>),
    passed |-> Fun(<<"n">>, <<Let("o", ListOf(<<Str("a")>>)), Do(Run("grow", <<O>>, "Str")), Return(Size(O))>>),
    walked |-> Fun(<<"n">>, <<Let("o", ListOf(<<Str("a")>>)), ForIn("x", O, <<Do(Push(O, X))>>), Return(Size(O))>>),
    compound |-> Fun(<<"n">>, <<Let("x", Str("a")),
                                Do(AddTo("x", If(Is0, <<Do(Assign("x", Str("b"))), Do(Str("c"))>>, <<Do(Str("d"))>>, "Str"))), Return(X)>>)]
F == INSTANCE ConstFold WITH Funs <- Functions
W == INSTANCE Walk

OnNumbers == {"choose", "early", "odd", "leave", "chars", "deep", "inner", "value", "global", "calls", "endless", "deeper"}
        \cup (IF "compound" \in Differing THEN {"compound"} ELSE {})
Sharing == IF "shared" \in Differing THEN {"shared", "passed"} ELSE {}
Numbers == {Idx(k) : k \in 0..3}
Truths == {Truth(b) : b \in BOOLEAN}
Indices == IF "negative" \in Differing THEN -3..2 ELSE 0..3
\* Something that does not fold, should it be reached.
Refuses == NotNull(Str("r"))
\* Asked whether an element past the end is "a" after one that settles it.
Short == {"and", "or", "xor"} \cup (IF "eager" \in Differing THEN {"nand", "nor", "implies"} ELSE {})
Conditions ==
    Truths \cup {Less(a, b) : a, b \in {Idx(0), Idx(1)}} \cup {Not(Same(Str("a"), Str("a")))}
    \cup {Logic(op, a, b) : op \in {"and", "or", "nand", "nor", "implies", "xor", "xnor"}, a, b \in Truths}
    \cup {Logic(op, a, Same(At(ListOf(<<Str("a")>>), Idx(1)), Str("a"))) : op \in Short, a \in Truths}
Strings ==
    {Run(f, <<n>>, "Str") : f \in OnNumbers, n \in Numbers}
    \cup {Run("twice", <<Str("s")>>, "Str"), Run("missing", <<>>, "Str"), Refuses, Call("look", <<>>, "Str")}
    \cup {At(Run("build", <<Idx(k)>>, "List"), Idx(i)) : k \in 0..2, i \in Indices}
    \cup {At(ListOf(<<Str("a"), Str("b")>>), Idx(i)) : i \in Indices}
    \cup {Ternary(c, Str("yes"), Str("no")) : c \in Conditions}
    \cup {If(c, <<Do(Str("yes"))>>, <<Do(Refuses)>>, "Str") : c \in Truths}
    \cup {When(Idx(k), <<Arm(<<Idx(1), Idx(2)>>, <<Do(Str("some"))>>), Else(<<Do(Str("else"))>>)>>, "Str") : k \in 0..2}
    \cup {When(NoSubject, <<GuardedArm(<<c>>, <<g>>, <<Do(Str("arm"))>>), Else(<<Do(Str("else"))>>)>>, "Str") : c, g \in Truths}
Ints == {Run(f, <<Idx(0)>>, "Int") : f \in Sharing \cup {"walked"}} \cup {Size(Run("build", <<Idx(k)>>, "List")) : k \in 0..2}

\* One binding and what is made of it; a name bound again in a scope.
C == Name("c", "Str")
Shown(e) == <<Constexpr("c", e), Do(Show(C)), Constexpr("d", Add(C, Str("!"))), Do(Show(Name("d", "Str")))>>
Counted1(e) == <<Constexpr("c", e), Do(Show(Name("c", "Int"))), Constexpr("d", Add(Name("c", "Int"), Idx(1))), Do(Show(Name("d", "Int")))>>
Listed == <<
    <<Constexpr("t", Run("build", <<Idx(2)>>, "List")), ForIn("x", Name("t", "List"), <<Do(Show(X))>>),
      Constexpr("u", At(Name("t", "List"), Idx(1))), Do(Show(Name("u", "Str")))>>,
    <<Constexpr("t", ListOf(<<ListOf(<<Str("a")>>), Run("build", <<Idx(1)>>, "List")>>)),
      Do(Push(At(Name("t", "List"), Idx(0)), Str("b"))), Do(Show(Size(At(Name("t", "List"), Idx(0)))))>>,
    <<ForIn("x", ListOf(<<Str("a"), Str("b")>>), <<Constexpr("t", ListOf(<<Str("a")>>)),
        Do(Push(Name("t", "List"), X)), Do(Show(Size(Name("t", "List"))))>>)>>,
    <<ForIn("x", ListOf(<<Str("a")>>), <<Constexpr("c", X), Do(Show(C))>>)>>
  >>
Rebound == <<
    <<Constexpr("c", Str("a")), Block(<<Val("c", Name("p", "Str")), Constexpr("d", C), Do(Show(Name("d", "Str")))>>)>>,
    <<Block(<<Constexpr("c", Str("a")), Do(Show(C))>>), Val("c", Name("p", "Str")), Constexpr("d", C), Do(Show(Name("d", "Str")))>>,
    <<Constexpr("c", Str("a")), Block(<<Constexpr("c", Str("b")), Do(Show(C))>>), Constexpr("d", C), Do(Show(Name("d", "Str")))>>
  >>
Programs == {Shown(e) : e \in Strings} \cup {Counted1(e) : e \in Ints} \cup {Listed[i] : i \in DOMAIN Listed}
       \cup {<<Constexpr("c", Widened(1)), Do(Show(C))>>}
       \cup (IF "widened" \in Differing THEN {<<Constexpr("c", Run("float", <<Idx(0)>>, "Float")), Do(Show(C))>>} ELSE {})
       \cup (IF "shadowed" \in Differing THEN {Rebound[i] : i \in DOMAIN Rebound} ELSE {})

VARIABLES prog, at, folded
vars == <<prog, at, folded>>
Init == /\ prog \in Programs
        /\ at = 1
        /\ folded = [vals |-> <<>>, body |-> <<>>, failed |-> <<>>]
\* The checker gets to the next statement.
Next == /\ at <= Len(prog)
        /\ at' = at + 1
        /\ folded' = F!Elaborate(prog[at], folded)
        /\ UNCHANGED prog
Spec == Init /\ [][Next]_vars

Checked == at > Len(prog)
\* What is shown, and how it ends.
Walked(body) == With(W!InvokeAmong(Functions, body, "p" :> <<"arg">>, <<>>, <<>>), LAMBDA r :
                     [out |-> r.out, flow |-> r.flow, v |-> r.v])

\* Where every `constexpr` folds, the program with the literals in place of
\* the computations does what the program would have done with the
\* computations left in it.
FoldedMeansTheSame == Checked /\ folded.failed = <<>> => Walked(folded.body) = Walked(prog)

\* "Failures are the program's own failures, arriving early": where a
\* `constexpr` indexes past the end, so does the program.
FailuresArriveEarly == Checked /\ <<"range">> \in {folded.failed[i] : i \in DOMAIN folded.failed} => Walked(prog).v = <<"range">>
==============================================================================
