------------------------------ MODULE MCBodies ------------------------------
(***************************************************************************)
(* Small bodies, one for every pair of a context and a way out of it, around *)
(* every kind of expression: compiled to C as part of a program with or     *)
(* without a try and a deinit, run with every choice, and compared with the *)
(* interpreters.                                                            *)
(***************************************************************************)
EXTENDS CMachine
CONSTANTS MaxChoices, FailingCallbacks, Aliasing
ASSUME BodiesAssumption == MaxChoices \in Nat /\ FailingCallbacks \in BOOLEAN /\ Aliasing \in BOOLEAN
W == INSTANCE Walk
V == INSTANCE Bytecode
LOCAL INSTANCE SequencesExt

P == Name("p", "Str")
Boom(e) == Call("boom", <<e>>, "Str")
L == Name("l", "List")
B == Name("b", "Box")
F == Name("g", "Fun")

Strings == <<
    Str("a"), P, Boom(P), Add(Str("a"), Boom(Str("b"))), Add(Boom(P), Str("b")),
    Field(B, FALSE), Field(NewBox(Boom(P)), FALSE), Field(This, FALSE),
    If(Ask, <<Do(Boom(P))>>, <<Do(Str("z"))>>, "Str"),
    If(Ask, <<Let("y", P), Do(Name("y", "Str"))>>, <<Throw(Str("no")), Do(P)>>, "Str"),
    Ternary(Ask, P, Boom(Str("c"))),
    When(P, <<Arm(<<Boom(P), Str("q")>>, <<Do(Str("hit"))>>), Arm(<<>>, <<Do(P)>>)>>, "Str"),
    When(NoSubject, <<Arm(<<Ask>>, <<Do(Boom(P))>>), Arm(<<>>, <<Do(Str("z"))>>)>>, "Str"),
    When(P, <<GuardedArm(<<Str("arg")>>, <<Or(IsNull(P), Truth(FALSE))>>, <<Do(Str("one"))>>),
              GuardedArm(<<>>, <<NonNull(P)>>, <<Do(Boom(P))>>), Else(<<Do(P)>>)>>, "Str"),
    Elvis(Maybe("Str"), Boom(P)), Elvis(Boom(P), Str("z")),
    NotNull(Maybe("Str")),
    At(L, Idx(0)), At(L, Idx(-2)), At(ListOf(<<Boom(P), P>>), Idx(1)),
    TakeAt(L, Idx(0)), TakeAt(L, Idx(1)),
    Elvis(First(L), P), Elvis(First(ListOf(<<>>)), Boom(P)),
    Apply(F, <<Str("u")>>, "Str"), Apply(Lambda(<<"p", "k">>), <<Boom(P)>>, "Str")
  >>

Units == <<
    Show(Boom(P)), Show(Add(P, Str("b"))),
    Push(L, Boom(P)), Insert(L, Idx(0), Boom(P)), Insert(L, Idx(2), P),
    SetAt(L, Idx(0), Boom(P)), SetAt(L, Idx(1), P),
    SetField(B, Boom(P)), SetField(This, P),
    Assign("v", Boom(P)), AddTo("v", Boom(P)), Assign("l", MapOver(L, F)), Apply(F, <<P>>, "Unit"),
    If(And(Ask, Ask), <<Do(Show(P))>>, <<>>, "Unit"),
    Show(Logic("nand", NonNull(Maybe("Str")), Ask)), Show(Logic("nor", Not(Ask), IsNull(Boom(P)))),
    Show(Logic("implies", Ask, Ask)), Show(Logic("xor", Ask, Ask))
  >>

\* Methods whose loop does not look for a failure.
Callbacks == <<
    Each(L, F), Assign("l", Filter(L, F)), Assign("v", Elvis(Find(L, F), P)),
    If(AnyOf(L, F), <<Do(Show(P))>>, <<>>, "Unit"), If(And(AllOf(L, F), Ask), <<Do(Clear(L))>>, <<>>, "Unit"),
    Assign("v", Fold(L, Str("s"), F))
  >>

\* What the body does with an expression.
Usages == [k \in DOMAIN Strings |-> <<Let("x", Strings[k])>>]
         \o [k \in DOMAIN Units |-> <<Let("x", Str("x")), Do(Units[k])>>]
         \o [k \in DOMAIN Callbacks |-> <<Let("x", Str("x")), Do(Callbacks[k])>>]

Exits == [fall |-> <<>>, ret |-> <<Return(Name("x", "Str"))>>, retNew |-> <<Return(Boom(P))>>,
          brk |-> <<Break>>, cont |-> <<Continue>>, throw |-> <<Throw(Name("x", "Str"))>>]

Inner(u, x) == Usages[u] \o <<Do(If(Ask, Exits[x], <<>>, "Unit")), Do(Show(Name("x", "Str")))>>
InContext(c, body) ==
    CASE c = "plain" -> body
      [] c = "if" -> <<Do(If(Ask, body, <<Do(Show(P))>>, "Unit"))>>
      [] c = "while" -> <<While(Ask, body)>>
      [] c = "for" -> <<ForIn("e", ListOf(<<Str("1"), Str("2")>>), body)>>
      [] c = "try" -> <<Try(body, "m", <<Do(Show(Name("m", "Str")))>>)>>
      [] c = "whileTry" -> <<While(Ask, <<Try(body, "m", <<Do(Show(Name("m", "Str")))>>)>>)>>
      [] c = "tryWhile" -> <<Try(<<While(Ask, body)>>, "m", <<Do(Show(Name("m", "Str")))>>)>>
      [] c = "catch" -> <<Try(<<Throw(P)>>, "m", body)>>
      [] c = "aliased" -> <<ForIn("e", L, <<Do(If(Ask, <<Do(Clear(L))>>, <<>>, "Unit")), Do(Show(Name("e", "Str")))>> \o body)>>
      [] c = "when" -> <<Do(When(NoSubject, <<Arm(<<Ask>>, body)>>, "Unit"))>>
Looping(c) == c \in {"while", "for", "whileTry", "tryWhile"}
Tries(c) == c \in {"try", "whileTry", "tryWhile", "catch"}

Before == <<Let("k", Str("k")), Let("v", Str("v")), Let("l", ListOf(<<Str("i"), Str("j")>>)),
            Let("b", NewBox(Str("h"))), Let("g", Lambda(<<"k">>))>>
After == <<Do(Show(Name("v", "Str"))), Do(Show(Add(Field(B, FALSE), Elvis(First(L), P)))),
           Return(Name("k", "Str"))>>
Program(k) == [body |-> Before \o InContext(k.ctx, Inner(k.use, k.exit)) \o After, ret |-> "Str"]

\* Every combination that makes a program, numbered.
ExitNames == <<"fall", "ret", "retNew", "brk", "cont", "throw">>
ContextNames == <<"plain", "if", "while", "for", "try", "whileTry", "tryWhile", "catch", "when">>
Combination(n) == [use |-> (n % 50) + 1, exit |-> ExitNames[((n \div 50) % 6) + 1],
                   ctx |-> ContextNames[((n \div 300) % 9) + 1],
                   catch |-> ((n \div 2700) % 3) < 2, drop |-> ((n \div 2700) % 3) > 0]
Fits(k) == /\ k.exit \in {"brk", "cont"} => Looping(k.ctx)
           /\ Tries(k.ctx) => k.catch
           /\ k.use \in DOMAIN Usages
\* A loop whose body changes the list it walks is a case of its own.
Keys == IF Aliasing THEN <<[use |-> 2, exit |-> "fall", ctx |-> "aliased", catch |-> FALSE, drop |-> TRUE]>>
        ELSE SelectSeq([n \in 1..8100 |-> Combination(n)], Fits)
Emitted(k) == Linked(EmitFunction(Program(k), k.catch, k.drop))
Assembled(k) == V!CompileFunction(Program(k), k.drop)
\* The code of each, made once.
Made(CodeOf(_)) == <<>> \o [n \in DOMAIN Keys |-> CodeOf(Keys[n])]
Code == Made(LAMBDA k : Emitted(k))
Ops == Made(LAMBDA k : Assembled(k))

\* The closures those methods call may be kept from failing.
Excused(k, f) == IF ~FailingCallbacks /\ k.catch /\ k.use > Len(Strings) + Len(Units) /\ f \in {"each", "test", "boom"}
                 THEN {"fail"} ELSE {}

VARIABLES prog, frame
vars == <<prog, frame>>
Init == /\ prog \in DOMAIN Keys
        /\ \E d \in IF Keys[prog].catch THEN {0, 1} ELSE {0} : frame = Begun(d)
Running == frame.status = "run" /\ frame.bad = {}
Runs(code) ==
    /\ Running
    /\ ~IsCall(code[frame.pc])
    /\ frame' = Executed(frame, code)
    /\ UNCHANGED prog
Asks(code) ==
    /\ Running
    /\ IsCall(code[frame.pc])
    /\ LET f == Callee(code[frame.pc])
       IN  IF Len(frame.hist) < MaxChoices
           THEN \E c \in Answers(f) \ Excused(Keys[prog], f) :
                    frame' = [Answered(frame, code, c) EXCEPT !.hist = Append(@, c)]
           ELSE frame' = Answered(frame, code, Default(f))
    /\ UNCHANGED prog
Steps(code) == Runs(code) \/ Asks(code)
Next == Steps(Code[prog])
Spec == Init /\ [][Next]_vars

Ended == frame.status \in {"returned", "unwound", "exited"}
Interpreted == W!Walks(Program(Keys[prog]), frame.hist)

\* No compiled program follows a pointer to an object that was released,
\* releases one twice, or reads a variable nothing was stored in: whatever
\* way a block is left, its label or its jump releases what it owns exactly
\* then (close_scope, release_through, hoist_declaration, disown).
NothingDeadIsUsed == frame.bad \cap {"dead", "twice", "garbage"} = {}

\* While a failure looks for its try, nothing the program could see happens:
\* no call is made and nothing is printed (check_unwind after every call).
NothingRunsUnwinding == "ran" \notin frame.bad

\* When the function is over, by a return or by a failure, every object has
\* as many references as somebody answers for: the caller's, the returned
\* one, those of living objects.  Nothing leaks and nothing is left short.
ReferencesBalance ==
    frame.status \in {"returned", "unwound"} => \A k \in DOMAIN frame.heap : frame.heap[k].rc = Owners(frame, k)

\* A compiled body shows what the tree-walker shows, asks for the same
\* choices in the same order, and ends as it ends: with the same value, or
\* the same failure.
CompiledMeansTheSame == frame.bad = {} => CMeaning(frame, Program(Keys[prog]).ret) = Interpreted

\* So does the bytecode of the body on the VM, and it returns with no operand
\* left on the stack above its slots.
VmMeansTheSame ==
    With(V!RunsOn(Ops[prog], frame.hist), LAMBDA w :
        /\ V!VmMeaning(w, Program(Keys[prog]).ret) = Interpreted
        /\ V!LeftOver(w, Ops[prog]) = 0)

\* The three engines give a body one meaning (src/README.md:20, "Three engines,
\* one answer").
BodiesMeanTheSame == Ended => CompiledMeansTheSame /\ VmMeansTheSame
=============================================================================
