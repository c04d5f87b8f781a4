------------------------------- MODULE Natives -------------------------------
(***************************************************************************)
(* The native library both interpreters share (src/src/native.rs,          *)
(* src/src/runtime.rs): the methods of a list, and the calls back into a   *)
(* closure that some of them make, on a state any evaluator keeps: heap,   *)
(* the lists and instances; out, what was shown; in, the choices not yet   *)
(* used; flow, how the last piece ended (a value, a jump, a return, a      *)
(* failure); v, its value.                                                 *)
(***************************************************************************)
EXTENDS Syntax, Integers
LOCAL INSTANCE SequencesExt

Goes(w, v) == [w EXCEPT !.v = v]
Ends(w, flow, v) == [w EXCEPT !.flow = flow, !.v = v]
Fails(w, msg) == Ends(w, "err", msg)
\* What no checked program does: a null, or a value of another type, used as
\* if it were the one the operation is for.
Misused(w) == Fails(w, <<"misused">>)
IsRef(v) == v[1] = "ref"
IsStr(v) == v[1] \notin {"null", "unit", "true", "false", "int", "at", "float", "ref", "fun", "suit"}
\* Whether a value has a type, as far as that shows at run time.
TypeMatches(v, t) ==
    CASE t = "Str" -> IsStr(v)
      [] t = "Int" -> v[1] \in {"int", "at"}
      [] t = "Bool" -> v \in {True, False}
      [] t = "List" -> IsRef(v)
      [] t = "Any" -> v # Null
\* The sum of two numbers, the two texts joined.
Plus(a, b) == IF a[1] = "at" THEN <<"at", a[2] + b[2]>> ELSE a \o b
Shows(w, v) == [w EXCEPT !.out = Append(@, v)]

\* `?`: what comes next happens only after a value.
Then(w, Next(_)) == IF w.flow = "ok" THEN Next(w) ELSE w

\* What a turn of a loop ends with, for the loop: a value, or the end.
Turned(w) == IF w.flow = "continue" THEN Ends(w, "ok", Unit) ELSE w
Left(w) == IF w.flow = "break" THEN Ends(w, "ok", Unit) ELSE w

\* The next choice for a call of f, or what every engine takes when the
\* choices are used up; asks keeps who asked then.
NextChoice(w, f) == IF w.in = <<>> THEN Default(f) ELSE Head(w.in)
Used(w, f) == IF w.in = <<>> THEN [w EXCEPT !.asks = Append(@, f)] ELSE [w EXCEPT !.in = Tail(@)]

(* Lists and instances live in a heap; a value names its place. *)
New(w, items) == Goes([w EXCEPT !.heap = Append(@, items)], <<"ref", Len(w.heap) + 1>>)
Items(w, r) == w.heap[r[2]]
\* What a for goes over: the elements, or the characters.
Iterable(w, v) == IF IsRef(v) THEN Items(w, v) ELSE [i \in DOMAIN v |-> <<v[i]>>]
Becomes(w, r, items) == [w EXCEPT !.heap[r[2]] = items]

\* A function elsewhere: its answer by the choice made, or its failure.
Answer(w, f, ty) ==
    LET c == NextChoice(w, f)  u == Used(w, f)
    IN  CASE c = "fail" -> Fails(u, <<"failed">>)
          [] c = "true" -> Goes(u, True)
          [] c = "false" -> Goes(u, False)
          [] c = "null" -> Goes(u, Null)
          [] ty = "Unit" -> Goes(u, Unit)
          [] OTHER -> Goes(u, <<f>>)

\* A closure called: it shows what it captured and what it was given, then
\* answers; one that gives a string marks what it was given.
CallFunction(w, f, args, kind) ==
    LET seen == Shows(w, <<"f">> \o f[2] \o FlattenSeq(args))
        r == Answer(seen, kind, IF kind = "each" THEN "Unit" ELSE "Str")
    IN  IF r.flow = "ok" /\ r.v = <<kind>> THEN Goes(r, <<"f">> \o FlattenSeq(args)) ELSE r

\* Negative indices count from the end; 0 is no place.
ResolveIndex(i, len) == LET k == IF i < 0 THEN i + len ELSE i IN IF k \in 0..(len - 1) THEN k + 1 ELSE 0
IndexGet(w, l, i) ==
    LET k == ResolveIndex(i[2], Len(Items(w, l))) IN IF k = 0 THEN Fails(w, <<"range">>) ELSE Goes(w, Items(w, l)[k])
IndexSet(w, l, i, v) ==
    LET k == ResolveIndex(i[2], Len(Items(w, l)))
    IN  IF k = 0 THEN Fails(w, <<"range">>) ELSE Goes(Becomes(w, l, [Items(w, l) EXCEPT ![k] = v]), Unit)

\* A method that calls f on the elements a snapshot held, from the i-th on;
\* acc is what it has gathered.  `any` and its kin stop where they know.
RECURSIVE Called(_, _, _, _, _, _)
Called(name, f, items, w, i, acc) ==
    IF i > Len(items) THEN Goes(w, acc)
    ELSE LET kind == CASE name = "forEach" -> "each" [] name \in {"map", "fold"} -> "boom" [] OTHER -> "test"
             args == IF name = "fold" THEN <<acc, items[i]>> ELSE <<items[i]>>
         IN  Then(CallFunction(w, f, args, kind), LAMBDA r :
                LET On(a) == Called(name, f, items, r, i + 1, a)
                IN  CASE name = "map" -> On(Append(acc, r.v))
                      [] name = "filter" -> On(IF r.v = True THEN Append(acc, items[i]) ELSE acc)
                      [] name = "fold" -> On(r.v)
                      [] name = "find" -> IF r.v = True THEN Goes(r, items[i]) ELSE On(acc)
                      [] name = "any" -> IF r.v = True THEN Goes(r, True) ELSE On(acc)
                      [] name = "all" -> IF r.v # True THEN Goes(r, False) ELSE On(acc)
                      [] OTHER -> On(acc))

\* What a method has gathered before the first element.
Begins(name) == CASE name \in {"map", "filter"} -> <<>> [] name = "find" -> Null
                  [] name = "any" -> False [] name = "all" -> True [] OTHER -> Unit
HigherOrder == {"forEach", "map", "filter", "fold", "find", "any", "all"}

\* The methods of a list on the values of the receiver and the arguments.
ListMethod(name, vs, w) ==
    LET l == vs[1]  items == Items(w, l)
    IN  CASE name = "push" -> Goes(Becomes(w, l, Append(items, vs[2])), Unit)
          [] name = "clear" -> Goes(Becomes(w, l, <<>>), Unit)
          [] name = "first" -> Goes(w, IF items = <<>> THEN Null ELSE Head(items))
          [] name = "removeAt" ->
                LET k == ResolveIndex(vs[2][2], Len(items))
                IN  IF k = 0 THEN Fails(w, <<"range">>)
                    ELSE Goes(Becomes(w, l, RemoveAt(items, k)), items[k])
          [] name = "insert" ->
                IF vs[2][2] \notin 0..Len(items) THEN Fails(w, <<"range">>)
                ELSE Goes(Becomes(w, l, InsertAt(items, vs[2][2] + 1, vs[3])), Unit)
          [] name = "fold" -> Called(name, vs[3], items, w, 1, vs[2])
          [] name \in {"map", "filter"} ->
                Then(Called(name, vs[2], items, w, 1, Begins(name)), LAMBDA r : New(r, r.v))
          [] OTHER -> Called(name, vs[2], items, w, 1, Begins(name))
=============================================================================
