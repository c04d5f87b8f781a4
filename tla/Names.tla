--------------------------------- MODULE Names ---------------------------------
(* What the names of a function body mean.  The body is text, one token per   *)
(* binding, use and bracket; the checker accepts it token by token and says   *)
(* which binding each use means (checker.rs), the compiler gives each name a  *)
(* slot, a cell, a capture or a global (compiler.rs), and the tree-walker     *)
(* finds the names a lambda must hold (cbackend.rs).                          *)
(*                                                                            *)
(* It is then run three ways at once: as the VM runs the compiler's places    *)
(* (vm.rs), as the tree-walker looks names up in its scopes (interp.rs,       *)
(* value.rs), and as the checker read it, where a use is of the binding it    *)
(* means in the instance of the scope it was written in.  Every closure is    *)
(* also kept by a caller, who calls it once after the body is done.           *)
EXTENDS Integers, Sequences, FiniteSets, FiniteSetsExt, Functions, Graphs, TLC

CONSTANTS Data,      \* names of values: 1 .. n, taken in order
          Fun,       \* names of functions
          Global,    \* the names of Data the top level also binds
          MaxText,   \* how many tokens a body has at most
          Turns,     \* how often a loop's body runs
          MaxCalls,  \* MAX_DEPTH
          \* whether texts are written on which an engine departs from the checker:
          FunsInBlocks, OwnNames, Rebinding, KeptCallers

VARIABLE prog

(* The text.                                                                  *)

Binders == {"val", "var", "for", "lam", "fun"}
Uses == {"read", "set", "call"}
Brackets == {"if", "for", "lam", "fun"}
Functions == {"lam", "fun"}

Token == [op : {"val", "var", "for", "read", "set"}, name : Data]
           \cup [op : {"lam", "fun", "call"}, name : Fun]
           \cup [op : {"if", "end"}, name : {0}]

Op(i) == prog[i].op
Name(i) == prog[i].name
Text == 1 .. Len(prog)

\* The brackets still open before token i, and 0 for the body itself.
Depth(i) == Cardinality({j \in 1 .. i - 1 : Op(j) \in Brackets})
              - Cardinality({j \in 1 .. i - 1 : Op(j) = "end"})
Closes(j) == Min({k \in j + 1 .. Len(prog) : Op(k) = "end" /\ Depth(k + 1) = Depth(j)}
                   \cup {Len(prog) + 1})
Around(i) == {0} \cup {j \in 1 .. i - 1 : Op(j) \in Brackets /\ Closes(j) >= i}
Home(i) == {0} \cup {j \in Around(i) \ {0} : Op(j) \in Functions}

\* The function a token is in, and the scope: a loop's variable is in the scope
\* its body runs in.
FunOf(i) == Max(Home(i))
ScopeOf(i) == IF i \in Text /\ Op(i) = "for" THEN i ELSE Max(Around(i))

Binds(j, n) == j \in Text /\ Op(j) \in Binders /\ Name(j) = n

\* The bindings the checker has in its scopes at i: a local function is there
\* for its own body, a name bound to a lambda is not.
InScope(i, n) == {j \in 1 .. i - 1 : /\ Binds(j, n)
                                     /\ ScopeOf(j) \in Around(i)
                                     /\ ~(Op(j) = "lam" /\ j \in Around(i))}
Newest(S) == Max(S \cup {0})
Meaning(i) == Newest(InScope(i, Name(i)))

\* What the checker allows next: uses of what is in scope, assignments to a
\* `var`, and no second `val` or `var` of a name in one scope.
Allowed(t) ==
    LET i == Len(prog) + 1
        means == Newest(InScope(i, t.name))
    IN CASE t.op = "read" -> means # 0 \/ t.name \in Global
         [] t.op = "call" -> means # 0
         [] t.op = "set" -> means # 0 /\ Op(means) = "var"
         [] t.op \in {"val", "var", "lam"} ->
              ~\E j \in Text : /\ Binds(j, t.name) /\ Op(j) # "for"
                               /\ ScopeOf(j) = Max(Around(i))
         [] t.op = "end" -> Depth(i) > 0
         [] OTHER -> TRUE

\* Names are interchangeable: the first of their kind not used yet is enough.
InOrder(t, names) == \A n \in names : n < t.name => \E j \in Text : Name(j) = n
Canonical(t) == /\ t.name \in Data \ Global => InOrder(t, Data \ Global)
                /\ t.name \in Fun => InOrder(t, Fun)

Cost(t) == IF t.op = "end" THEN 0 ELSE IF t.op \in Brackets THEN 2 ELSE 1
Write(t) == /\ Len(prog) + Depth(Len(prog) + 1) + Cost(t) <= MaxText
            /\ Canonical(t) /\ Allowed(t)
            /\ prog' = Append(prog, t)
--------------------------------------------------------------------------------
(* The compiler.                                                              *)

\* names_used_by_nested: every name a nested function mentions.  In a block that is
\* part of an expression the walk sees expressions only: neither the names bound
\* there, nor a `fun` with all that is in it.
InExpression(j) == \E k \in Around(j) : k > FunOf(j) /\ Op(k) = "if"
Unseen(j) == Op(j) = "fun" /\ InExpression(j)
Mentions(i) == Op(i) \in Uses \/ (Op(i) \in Binders /\ ~InExpression(i))
NamesUsedByChildren(f) ==                                             \* mutant
    {Name(i) : i \in {i \in Text : Mentions(i) /\ FunOf(i) # 0 /\ f = FunOf(FunOf(i))}}
NamesUsedByNested(f) ==
    {Name(i) : i \in {i \in Text : /\ Mentions(i) /\ f \in Home(i) /\ f # FunOf(i)
                                   /\ \A j \in Home(i) : j > f => ~Unseen(j)}}
Boxed(d) == Name(d) \in NamesUsedByNested(FunOf(d))

\* The plain locals of the open scopes have a slot each, and so have the state of
\* the loops so far, two and one more for a variable in a cell: pop_scope gives
\* back the closed scopes' plain locals only.
Locals(d) == {j \in 1 .. d - 1 : Op(j) \in Binders /\ FunOf(j) = FunOf(d) /\ ~Boxed(j)}
Released(d) == {j \in Locals(d) : ScopeOf(j) \notin Around(d)}
LoopsBefore(d) == {j \in 1 .. d - 1 : Op(j) = "for" /\ FunOf(j) = FunOf(d)}
LoopSlots(d) == 2 * Cardinality(LoopsBefore(d)) + Cardinality({j \in LoopsBefore(d) : Boxed(j)})
NextSlot(d) == Cardinality(Locals(d)) - Cardinality(Released(d)) + LoopSlots(d)

\* The bindings the compiler has at i: a function is declared after its body.
Declared(i, n) == {j \in 1 .. i - 1 : /\ Binds(j, n)
                                      /\ ScopeOf(j) \in Around(i)
                                      /\ ~(Op(j) \in Functions /\ j \in Around(i))}

Place(kind, k) == [kind |-> kind, at |-> k]
GlobalOrNone(n) == IF n \in Global THEN Place("global", 0) ELSE Place("nowhere", 0)
Own(d) == IF Boxed(d) THEN Place("cell", d) ELSE Place("slot", NextSlot(d) + IF Op(d) = "for" THEN 2 ELSE 0)

\* resolve and resolve_capture: a name of an enclosing function is captured when
\* it was boxed, and is the global or nothing when it was not.
Resolve(i) ==
    LET n == Name(i)
        d == Newest(Declared(i, n))
    IN CASE d = 0 -> GlobalOrNone(n)
         [] d # 0 /\ FunOf(d) = FunOf(i) -> Own(d)
         [] d # 0 /\ FunOf(d) # FunOf(i) /\ Boxed(d) -> Place("captured", d)
         [] OTHER -> GlobalOrNone(n)

\* The cells a closure of function g holds: its own captures, and those it
\* passes on to the functions in it.
Captures(g) == {d \in 1 .. g - 1 :
                  \E i \in Text : /\ Op(i) \in Uses /\ g \in Home(i)
                                  /\ Resolve(i) = Place("captured", d)}
--------------------------------------------------------------------------------
(* The tree-walker.                                                           *)

\* collect_free: what is bound anywhere before a use in the lambda is bound,
\* unless a nested function bound it.
BoundInside(g, i) == \E j \in g + 1 .. i - 1 : /\ Binds(j, Name(i))
                                               /\ FunOf(j) \in Home(i)
                                               /\ ~(Op(j) = "lam" /\ j \in Around(i))
CollectFree(g) == {Name(i) : i \in {i \in g + 1 .. Closes(g) :
                      i \in Text /\ Op(i) \in Uses /\ ~BoundInside(g, i)}}
--------------------------------------------------------------------------------
(* The texts on which an engine departs from the checker.                     *)
FunInBlock == \E j \in Text : Unseen(j)
NamesItself == \E i \in Text : /\ Op(i) \in Uses /\ Meaning(i) \in Around(i) \ {0}
                               /\ Op(Meaning(i)) = "fun"
ReboundAround(i, g) == /\ Meaning(i) < g
                       /\ \E d \in g + 1 .. Len(prog) :
                             Binds(d, Name(i)) /\ (g \in Home(d) \/ ScopeOf(d) \in Around(g))
Rebound == \E i \in Text : Op(i) \in Uses /\ \E g \in Home(i) \ {0} : ReboundAround(i, g)
Calls(g) == \E i \in Text : Op(i) = "call" /\ g \in Home(i)

(* The run.                                                                   *)

VARIABLES code,      \* what was worked out of each token; <<>> while it is written
          scopes,    \* the tree-walker's scopes ever made; 1 is the root
          closures,  \* the closures ever made
          cells,     \* the VM's cells ever made
          frames,    \* the calls under way, the newest last
          called,    \* how many kept closures have had their call
          clock,     \* the next new value
          last       \* what the newest use was to each of the three

vars == <<prog, code, scopes, closures, cells, frames, called, clock, last>>

None == -1
Root == 1
\* A scope has the parent its names are looked up in, the scope it was written
\* in, its names, which of them are `var`s, its bindings, and a loop's turn.
NewScope(up, out) == [up |-> up, out |-> out, names |-> <<>>, mutable |-> {},
                      bound |-> <<>>, turn |-> 1]

Init ==
    /\ prog = <<>> /\ code = <<>>
    /\ scopes = <<[NewScope(0, 0) EXCEPT !.names = [n \in Global |-> 0]]>>
    /\ closures = <<>> /\ cells = <<>> /\ frames = <<>> /\ called = 0 /\ clock = 1
    /\ last = [means |-> None, vm |-> None, walker |-> None]

WriteText == \E t \in Token : /\ code = <<>> /\ Write(t)
                              /\ UNCHANGED <<code, scopes, closures, cells, frames,
                                             called, clock, last>>

Frame(closure, scope, pc, holds) ==
    [closure |-> closure, scope |-> scope, pc |-> pc, slots |-> <<>>, cells |-> <<>>,
     captured |-> holds]

Compile ==
    /\ code = <<>> /\ prog # <<>> /\ Depth(Len(prog) + 1) = 0
    /\ FunInBlock => FunsInBlocks
    /\ NamesItself => OwnNames
    /\ Rebound => Rebinding
    /\ code' = [i \in Text |->
                  [means |-> IF Op(i) \in Uses THEN Meaning(i) ELSE 0,
                   place |-> CASE Op(i) \in Uses -> Resolve(i)
                               [] Op(i) \in Binders -> Own(i)
                               [] OTHER -> GlobalOrNone(0),
                   first |-> IF Op(i) = "for" THEN NextSlot(i) ELSE 0,
                   holds |-> IF Op(i) \in Functions THEN Captures(i) ELSE {},
                   free |-> IF Op(i) = "lam" THEN CollectFree(i) ELSE {},
                   fun |-> FunOf(i),
                   closes |-> IF Op(i) \in Brackets THEN Closes(i) ELSE i,
                   opened |-> IF Op(i) = "end"
                              THEN CHOOSE j \in 1 .. i - 1 : Op(j) \in Brackets /\ Closes(j) = i
                              ELSE 0,
                   kept |-> Op(i) \in Functions /\ (Calls(i) => KeptCallers)]]
    /\ scopes' = Append(scopes, NewScope(Root, Root))
    /\ frames' = <<Frame(0, Len(scopes) + 1, 1, <<>>)>>
    /\ UNCHANGED <<prog, closures, cells, called, clock, last>>
--------------------------------------------------------------------------------
(* Names at run time.                                                         *)
Top == frames[Len(frames)]
At(op) == frames # <<>> /\ Top.pc <= Len(prog) /\ Op(Top.pc) = op
WithTop(fr) == [frames EXCEPT ![Len(frames)] = fr]
Goto(pc) == [Top EXCEPT !.pc = pc]
Next1 == Goto(Top.pc + 1)

Out(k) == scopes[k].out
\* The nearest scope with name n, up from s, and the nearest with the binding d,
\* out from s; 0 when there is none.
NameIn(n, s) ==
    LET at[k \in 0 .. s] ==
            IF k = 0 \/ n \in DOMAIN scopes[k].names THEN k ELSE at[scopes[k].up]
    IN at[s]
BindingIn(d, s) ==
    LET at[k \in 0 .. s] ==
            IF k = 0 \/ d \in DOMAIN scopes[k].bound THEN k ELSE at[scopes[k].out]
    IN at[s]

WalkerReads(n, s) == LET k == NameIn(n, s) IN IF k = 0 THEN None ELSE scopes[k].names[n]
Means(d) == IF d = 0 THEN 0 ELSE scopes[BindingIn(d, Top.scope)].bound[d]
VmReads(p) == CASE p.kind = "slot" -> Top.slots[p.at]
                [] p.kind = "cell" -> cells[Top.cells[p.at]]
                [] p.kind = "captured" -> cells[Top.captured[p.at]]
                [] p.kind = "global" -> 0
                [] p.kind = "nowhere" -> None
Reads(i) == [means |-> Means(code[i].means), vm |-> VmReads(code[i].place),
             walker |-> WalkerReads(Name(i), Top.scope)]
Agreed(r) == r.vm = r.means /\ r.walker = r.means

\* Binding v at token i in scope s of sc; a cell is a new one each time.
Over(f, S, v) == [x \in DOMAIN f \cup S |-> IF x \in S THEN v ELSE f[x]]
BindScope(sc, s, i, v) ==
    [sc EXCEPT ![s].names = Over(@, {Name(i)}, v),
               ![s].mutable = IF Op(i) = "var" THEN @ \cup {Name(i)} ELSE @,
               ![s].bound = Over(@, {i}, v)]
InCell(i) == code[i].place.kind = "cell"
BindFrame(fr, i, v) ==
    IF InCell(i) THEN [fr EXCEPT !.cells = Over(@, {i}, Len(cells) + 1)]
                 ELSE [fr EXCEPT !.slots = Over(@, {code[i].place.at}, v)]
BindCells(i, v) == IF InCell(i) THEN Append(cells, v) ELSE cells
--------------------------------------------------------------------------------
(* Scopes and closures that are alive, by their counts: those reached from a  *)
(* call under way or a kept closure, and from a cycle nothing breaks.         *)
Closure(c) == Len(scopes) + c
Held == {<<k, scopes[k].up>> : k \in 2 .. Len(scopes)}
          \cup UNION {{<<k, Closure(scopes[k].names[n])>> : n \in DOMAIN scopes[k].names \cap Fun}
                        : k \in 1 .. Len(scopes)}
          \cup {<<Closure(c), closures[c].env>> : c \in 1 .. Len(closures)}
Handles == {Root} \cup {frames[f].scope : f \in 1 .. Len(frames)}
             \cup {Closure(frames[f].closure) : f \in 2 .. Len(frames)}
             \cup {Closure(c) : c \in {c \in 1 .. Len(closures) : code[closures[c].at].kept}}
Alive ==
    LET nodes == 1 .. Len(scopes) + Len(closures)
        path == ConnectionsIn([node |-> nodes, edge |-> Held])
        lasting == (Handles \cap nodes) \cup
                     {a \in nodes : \E b \in nodes \ {a} : path[a, b] /\ path[b, a]}
    IN {a \in nodes : \E r \in lasting : path[r, a]}

StrongCount(s) == LET alive == Alive
                  IN 1 + Cardinality({e \in Held : e[2] = s /\ e[1] \in alive})

\* Scope.close: the closures bound here that hold this scope lose their names
\* when nothing else holds it.
Doomed(s) == {n \in DOMAIN scopes[s].names \cap Fun : closures[scopes[s].names[n]].env = s}
Dies(s) == Doomed(s) # {} /\ StrongCount(s) = 1 + Cardinality(Doomed(s))
Close(s) == IF ~Dies(s) THEN scopes
            ELSE [scopes EXCEPT ![s].names = [n \in DOMAIN @ \ Doomed(s) |-> @[n]]]
--------------------------------------------------------------------------------
(* The statements.                                                            *)
StopAll == frames' = <<>> /\ called' = Len(closures)

Let == \E op \in {"val", "var"} :
    /\ At(op)
    /\ scopes' = BindScope(scopes, Top.scope, Top.pc, clock)
    /\ cells' = BindCells(Top.pc, clock)
    /\ frames' = WithTop(BindFrame(Next1, Top.pc, clock))
    /\ clock' = clock + 1
    /\ UNCHANGED <<prog, code, closures, called, last>>

Read ==
    /\ At("read")
    /\ last' = Reads(Top.pc)
    /\ IF Agreed(last') THEN frames' = WithTop(Next1) /\ UNCHANGED called ELSE StopAll
    /\ UNCHANGED <<prog, code, scopes, closures, cells, clock>>

\* An assignment that uses the old value, as `x = x + 1` does.
AssignVm(p) ==
    /\ frames' = WithTop(IF p.kind = "slot" THEN [Next1 EXCEPT !.slots[p.at] = clock] ELSE Next1)
    /\ cells' = CASE p.kind = "cell" -> [cells EXCEPT ![Top.cells[p.at]] = clock]
                  [] p.kind = "captured" -> [cells EXCEPT ![Top.captured[p.at]] = clock]
                  [] OTHER -> cells
Assign(i) ==
    /\ AssignVm(code[i].place)
    /\ scopes' = [scopes EXCEPT ![NameIn(Name(i), Top.scope)].names[Name(i)] = clock,
                                ![BindingIn(code[i].means, Top.scope)].bound[code[i].means] = clock]
    /\ clock' = clock + 1
    /\ UNCHANGED called
Set ==
    /\ At("set")
    /\ last' = Reads(Top.pc)
    /\ IF Agreed(last') THEN Assign(Top.pc) ELSE StopAll /\ UNCHANGED <<scopes, cells, clock>>
    /\ UNCHANGED <<prog, code, closures>>

\* captured_env: the scope itself when a name of the lambda is a `var`, a copy
\* of what it names otherwise; a `fun` holds its scope.
IsMutable(n, s) == LET k == NameIn(n, s) IN k # 0 /\ n \in scopes[k].mutable
BelowRoot(n, s) == NameIn(n, s) \notin {0, Root}
CapturesByKind(i, s) == Op(i) = "fun"                                 \* mutant
CapturesWhole(i, s) == Op(i) = "fun" \/ \E n \in code[i].free : IsMutable(n, s)
Narrowed(i, s) ==
    [NewScope(Root, 0) EXCEPT
       !.names = [n \in {n \in code[i].free : BelowRoot(n, s)} |-> WalkerReads(n, s)]]
Holds(i) == [d \in code[i].holds |-> IF code[d].fun = code[i].fun
                                     THEN Top.cells[d] ELSE Top.captured[d]]
MakeClosure == \E op \in Functions :
    /\ At(op)
    /\ LET i == Top.pc
           s == Top.scope
           c == Len(closures) + 1
           whole == CapturesWhole(i, s)
           env == IF whole THEN s ELSE Len(scopes) + 1
       IN /\ closures' = Append(closures, [at |-> i, env |-> env, home |-> s, holds |-> Holds(i)])
          /\ scopes' = BindScope(IF whole THEN scopes ELSE Append(scopes, Narrowed(i, s)), s, i, c)
          /\ cells' = BindCells(i, c)
          /\ frames' = WithTop(BindFrame(Goto(code[i].closes + 1), i, c))
    /\ UNCHANGED <<prog, code, called, clock, last>>

Push(c, caller) ==
    /\ scopes' = Append(scopes, NewScope(closures[c].env, closures[c].home))
    /\ frames' = caller \o <<Frame(c, Len(scopes) + 1, closures[c].at + 1, closures[c].holds)>>
Call ==
    /\ At("call")
    /\ last' = Reads(Top.pc)
    /\ IF Agreed(last') /\ Len(frames) < MaxCalls
       THEN Push(last'.means, WithTop(Next1)) /\ UNCHANGED called
       ELSE StopAll /\ UNCHANGED scopes
    /\ UNCHANGED <<prog, code, closures, cells, clock>>

EnterBlock ==
    /\ At("if")
    /\ scopes' = Append(scopes, NewScope(Top.scope, Top.scope))
    /\ frames' = WithTop([Next1 EXCEPT !.scope = Len(scopes) + 1])
    /\ UNCHANGED <<prog, code, closures, cells, called, clock, last>>

\* A turn of the loop at i in a new scope of out: the iterator moves on, and the
\* variable is bound anew.
LoopState(i) == code[i].first .. code[i].first + (IF InCell(i) THEN 2 ELSE 1)
Turn(i, sc, out, turn) ==
    /\ scopes' = BindScope(Append(sc, [NewScope(out, out) EXCEPT !.turn = turn]),
                           Len(sc) + 1, i, clock)
    /\ cells' = BindCells(i, clock)
    /\ frames' = WithTop(BindFrame([Goto(i + 1) EXCEPT !.scope = Len(sc) + 1,
                                                       !.slots = Over(@, LoopState(i), None)], i, clock))
    /\ clock' = clock + 1
EnterLoop ==
    /\ At("for")
    /\ Turn(Top.pc, scopes, Top.scope, 1)
    /\ UNCHANGED <<prog, code, closures, called, last>>

LeaveBlock == \* the end of a block, or of a loop's last turn
    /\ scopes' = Close(Top.scope)
    /\ frames' = WithTop([Next1 EXCEPT !.scope = Out(Top.scope)])
    /\ UNCHANGED <<cells, clock>>
EndBlock ==
    /\ At("end")
    /\ LET i == code[Top.pc].opened IN
       /\ Op(i) \in {"if", "for"}
       /\ IF Op(i) = "for" /\ scopes[Top.scope].turn < Turns
          THEN Turn(i, Close(Top.scope), Out(Top.scope), scopes[Top.scope].turn + 1)
          ELSE LeaveBlock
    /\ UNCHANGED <<prog, code, closures, called, last>>

Return ==
    /\ frames # <<>>
    /\ \/ Top.pc > Len(prog)
       \/ At("end") /\ Op(code[Top.pc].opened) \in Functions
    /\ scopes' = Close(Top.scope)
    /\ frames' = SubSeq(frames, 1, Len(frames) - 1)
    /\ UNCHANGED <<prog, code, closures, cells, called, clock, last>>

\* The caller of the body calls what it kept.
CallKept ==
    /\ code # <<>> /\ frames = <<>> /\ called < Len(closures)
    /\ called' = called + 1
    /\ IF code[closures[called + 1].at].kept THEN Push(called + 1, <<>>)
                                             ELSE UNCHANGED <<scopes, frames>>
    /\ UNCHANGED <<prog, code, closures, cells, clock, last>>

Done == frames = <<>> /\ called = Len(closures) /\ UNCHANGED vars

Next == \/ WriteText \/ Compile \/ Let \/ Read \/ Set \/ MakeClosure \/ Call
        \/ EnterBlock \/ EnterLoop \/ EndBlock \/ Return \/ CallKept \/ Done
Spec == Init /\ [][Next]_vars
--------------------------------------------------------------------------------
\* Scopes hang from older ones, and whatever names a scope, a closure or a cell
\* names one that was made.
TypeOK ==
    /\ Len(prog) <= MaxText /\ \A i \in Text : prog[i] \in Token
    /\ code = <<>> \/ DOMAIN code = Text
    /\ \A k \in 1 .. Len(scopes) : {scopes[k].up, scopes[k].out} \subseteq 0 .. k - 1
    /\ \A c \in 1 .. Len(closures) : /\ closures[c].env \in 1 .. Len(scopes)
                                     /\ closures[c].home \in 1 .. Len(scopes)
                                     /\ Range(closures[c].holds) \subseteq 1 .. Len(cells)
    /\ Len(frames) <= MaxCalls
    /\ \A f \in 1 .. Len(frames) : /\ frames[f].pc \in 1 .. Len(prog) + 1
                                   /\ frames[f].scope \in 1 .. Len(scopes)
                                   /\ Range(frames[f].cells) \subseteq 1 .. Len(cells)
    /\ called \in 0 .. Len(closures)

\* On the VM a use is of the binding it means, whatever was captured, boxed or
\* reused a slot on the way.
VmKeepsMeaning == last.vm = last.means

\* So it is on the tree-walker, for copied, shared and closed scopes.
WalkerKeepsMeaning == last.walker = last.means
================================================================================
