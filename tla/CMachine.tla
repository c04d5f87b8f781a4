------------------------------ MODULE CMachine ------------------------------
(***************************************************************************)
(* The C of Emission run on the runtime (src/src/runtime.c): counted       *)
(* objects, the lists, and the three globals a failure moves through       *)
(* (keal_try_depth, keal_unwinding, the message).                          *)
(*                                                                         *)
(* A state m of the machine: pc; vars, the C variables, garbage until they *)
(* are set; heap, the objects with their counts; depth and unwinding; out, *)
(* what was shown; hist, the choices made so far; status; v, what was      *)
(* returned, or the message; bad, what no C program may do.                *)
(***************************************************************************)
EXTENDS Emission, Integers, TLC
LOCAL INSTANCE SequencesExt

Garbage == <<"garbage">>
Obj(k) == <<"obj", k>>
IsObj(v) == v[1] = "obj"

\* A C expression: a constant, or the content of a variable.
Read(m, r) == IF r[2] = -1 THEN r[3] ELSE IF r \in DOMAIN m.vars THEN m.vars[r] ELSE Garbage
Write(m, d, v) == [m EXCEPT !.vars = (d :> v) @@ @]
Usable(m, v) == v # Garbage /\ (IsObj(v) => m.heap[v[2]].rc > 0)
Wrong(m, what) == [m EXCEPT !.bad = @ \cup {what}]
\* Whatever follows a pointer needs the object to be there.
Uses(m, v, n) == IF Usable(m, v) THEN n ELSE Wrong(m, "dead")
The(m, v) == m.heap[v[2]]
\* What the value says when it is shown: a string its parts.
Text(m, v) == IF IsObj(v) THEN The(m, v).c ELSE v

(* Counted objects. *)
Alloc(m, d, kind, c) ==
    Write([m EXCEPT !.heap = Append(@, [rc |-> 1, kind |-> kind, c |-> c])], d, Obj(Len(m.heap) + 1))
Retain(m, v) == IF IsObj(v) THEN Uses(m, v, [m EXCEPT !.heap[v[2]].rc = @ + 1]) ELSE m
RetainAll(m, vs) == FoldLeft(Retain, m, vs)

\* What an object owns: a snapshot's elements belong to the list.
Owns(o) == IF o.kind \in {"Str", "Snap"} THEN <<>> ELSE o.c

RECURSIVE Release(_, _)
Release(m, v) ==
    IF ~IsObj(v) THEN (IF v = Garbage THEN Wrong(m, "garbage") ELSE m)
    ELSE IF ~Usable(m, v) THEN Wrong(m, "twice")
    ELSE LET n == [m EXCEPT !.heap[v[2]].rc = @ - 1]
         IN  IF The(n, v).rc > 0 THEN n ELSE FoldLeft(Release, n, Owns(The(n, v)))

\* keal_panic: under a try the first message is kept and the code goes on,
\* to its next check; without one the process ends.
Panic(m, msg) ==
    IF m.depth = 0 THEN [m EXCEPT !.status = "exited", !.v = msg]
    ELSE IF m.unwinding THEN m ELSE [m EXCEPT !.unwinding = TRUE, !.v = msg]

(* The lists.  An index counts from the front, a negative one from the end. *)
Place(k, len) == IF k < 0 THEN k + len ELSE k
InRange(m, l, at) == Place(at[2], Len(The(m, l).c)) \in 0..(Len(The(m, l).c) - 1)
ElementAt(m, l, at) == Place(at[2], Len(The(m, l).c)) + 1
Becomes(m, l, c) == [m EXCEPT !.heap[l[2]].c = c]

ListGet(m, d, l, at) ==
    IF InRange(m, l, at) THEN Write(m, d, The(m, l).c[ElementAt(m, l, at)])
    ELSE Write(Panic(m, <<"range">>), d, Null)
\* The old element is handed back to the caller.
ListSet(m, d, l, at, v) ==
    IF ~InRange(m, l, at) THEN Write(Panic(m, <<"range">>), d, Null)
    ELSE Write(Becomes(m, l, [The(m, l).c EXCEPT ![ElementAt(m, l, at)] = v]), d, The(m, l).c[ElementAt(m, l, at)])
ListPush(m, l, v) == Becomes(m, l, Append(The(m, l).c, v))
\* The element's reference goes to the caller.
ListRemoveAt(m, d, l, at) ==
    IF ~InRange(m, l, at) THEN Write(Panic(m, <<"range">>), d, Null)
    ELSE Write(Becomes(m, l, RemoveAt(The(m, l).c, ElementAt(m, l, at))), d, The(m, l).c[ElementAt(m, l, at)])
\* The word is taken, unless the place is refused.
ListInsertAt(m, l, at, v) ==
    IF at[2] \notin 0..Len(The(m, l).c) THEN Panic(m, <<"range">>)
    ELSE Becomes(m, l, InsertAt(The(m, l).c, at[2] + 1, v))
ListClear(m, l) == Becomes(FoldLeft(Release, m, The(m, l).c), l, <<>>)
\* A shallow copy: the elements are borrowed from the list.
ListSnapshot(m, d, l) == Alloc(m, d, "Snap", The(m, l).c)

\* One instruction that makes no choice; s holds the values read.
Effect(m, i, s) ==
    CASE i.op = "decl" -> Write(m, i.d, Garbage)
      [] i.op = "null" -> Write(m, i.d, Null)
      [] i.op = "str" -> Alloc(m, i.d, "Str", <<i.s[1]>>)
      [] i.op = "set" -> Write(m, i.d, s[1])
      [] i.op = "retain" -> Write(Retain(m, s[1]), i.d, s[1])
      [] i.op = "release" -> Release(m, s[1])
      [] i.op = "concat" -> Uses(m, s[1], Uses(m, s[2], Alloc(m, i.d, "Str", Text(m, s[1]) \o Text(m, s[2]))))
      [] i.op = "sum" -> Write(m, i.d, s[1] \o s[2])
      [] i.op = "box" -> Alloc(Retain(m, s[1]), i.d, "Box", <<s[1]>>)
      [] i.op = "getField" -> Uses(m, s[1], Write(Retain(m, The(m, s[1]).c[1]), i.d, The(m, s[1]).c[1]))
      [] i.op = "setField" -> Uses(m, s[1],
            Becomes(Retain(Release(m, The(m, s[1]).c[1]), s[2]), s[1], <<s[2]>>))
      [] i.op = "list" -> Alloc(m, i.d, "List", <<>>)
      [] i.op = "push" -> Uses(m, s[1], ListPush(Retain(m, s[2]), s[1], s[2]))
      [] i.op = "get" -> Uses(m, s[1], ListGet(m, i.d, s[1], s[2]))
      [] i.op = "setAt" -> Uses(m, s[1], ListSet(m, i.d, s[1], s[2], s[3]))
      [] i.op = "removeAt" -> Uses(m, s[1], ListRemoveAt(m, i.d, s[1], s[2]))
      [] i.op = "insertAt" -> Uses(m, s[1], ListInsertAt(m, s[1], s[2], s[3]))
      [] i.op = "first" -> Uses(m, s[1], LET v == IF The(m, s[1]).c = <<>> THEN Null ELSE The(m, s[1]).c[1]
                                        IN  Write(Retain(m, v), i.d, v))
      [] i.op = "clear" -> Uses(m, s[1], ListClear(m, s[1]))
      [] i.op = "snapshot" -> Uses(m, s[1], ListSnapshot(m, i.d, s[1]))
      [] i.op = "closure" -> Alloc(RetainAll(m, s), i.d, "Fun", s)
      [] i.op = "elem" -> Uses(m, s[1], Write(m, i.d, The(m, s[1]).c[s[2][2] + 1]))
      [] i.op = "zero" -> Write(m, i.d, <<"at", 0>>)
      [] i.op = "inc" -> Write(m, i.d, <<"at", Read(m, i.d)[2] + 1>>)
      [] i.op = "not" -> Write(m, i.d, Bool(s[1] # True))
      [] i.op = "isNull" -> Write(m, i.d, Bool(s[1] = Null))
      [] i.op = "nonNull" -> Write(m, i.d, Bool(s[1] # Null))
      [] i.op = "logic" -> Write(m, i.d, Bool(Applies(s[1][1], s[2] = True, s[3] = True)))
      [] i.op = "no" -> Write(m, i.d, False)
      [] i.op = "or" -> Write(m, i.d, IF s[1] = True THEN True ELSE Read(m, i.d))
      [] i.op = "oreq" -> Write(m, i.d, IF Text(m, s[1]) = Text(m, s[2]) THEN True ELSE Read(m, i.d))
      [] i.op = "print" -> Uses(m, s[1], [m EXCEPT !.out = Append(@, Text(m, s[1]))])
      [] i.op = "failNull" -> IF s[1] = Null THEN Panic(m, <<"isnull">>) ELSE m
      [] i.op = "panic" -> Uses(m, s[1], Panic(m, Text(m, s[1])))
      [] i.op = "tryOpen" -> [m EXCEPT !.depth = @ + 1]
      [] i.op = "tryShut" -> [m EXCEPT !.depth = @ - 1]
      [] i.op = "caught" -> [Alloc(m, i.d, "Str", m.v) EXCEPT !.unwinding = FALSE]
      [] i.op = "return" -> [m EXCEPT !.status = "returned", !.v = s[1],
                                      !.bad = IF Usable(m, s[1]) THEN @ ELSE @ \cup {"dead"}]
      [] i.op = "poison" -> [m EXCEPT !.status = "unwound"]
      [] OTHER -> m

\* Whether a jump is taken.
Jumps(m, i, s) ==
    CASE i.op = "goto" -> TRUE
      [] i.op = "ifnot" -> s[1] # True
      [] i.op = "if" -> s[1] = True
      [] i.op = "ifnull" -> s[1] = Null
      [] i.op = "more" -> s[1][2] >= Len(The(m, s[2]).c)
      [] i.op = "check" -> m.unwinding
      [] OTHER -> FALSE

\* How many of an instruction's operands are values to read.
Operands(i) == CASE i.op \in {"goto", "check", "str", "label", "caught"} -> 0
                 [] i.op \in {"ifnot", "if", "ifnull"} -> 1
                 [] i.op = "more" -> 2
                 [] OTHER -> Len(i.s)
\* The text with its labels resolved to places.
Position(code, l) == CHOOSE k \in DOMAIN code : code[k].op = "label" /\ code[k].d = l
Target(i) == IF i.op \in {"goto", "check"} THEN i.s[1]
             ELSE IF i.op \in {"ifnot", "if", "ifnull"} THEN i.s[2] ELSE IF i.op = "more" THEN i.s[3] ELSE None
Linked(code) == <<>> \o [k \in DOMAIN code |->
    [op |-> code[k].op, d |-> code[k].d, s |-> code[k].s,
     to |-> IF Target(code[k]) = None THEN 0 ELSE Position(code, Target(code[k]))]]

Executed(m, code) ==
    LET i == code[m.pc]
        s == [k \in 1..Operands(i) |-> Read(m, i.s[k])]
        n == IF m.unwinding /\ i.op = "print" THEN Wrong(m, "ran") ELSE m
    IN  [Effect(n, i, s) EXCEPT !.pc = IF Jumps(m, i, s) THEN i.to ELSE @ + 1]

\* A call: of a function elsewhere, or of a closure, which shows what it
\* holds and was given.  A failure inside it has unwound it, and left no value.
IsCall(i) == i.op \in {"call", "apply"}
Callee(i) == i.s[1]
Answered(m, code, c) ==
    LET i == code[m.pc]
        s == [k \in 1..(Len(i.s) - 1) |-> Read(m, i.s[k + 1])]
        shown == IF i.op = "call" THEN m
                 ELSE FoldLeft(LAMBDA x, v : Uses(x, v, x),
                        Uses(m, s[1], [m EXCEPT !.out = Append(@, <<"f">> \o
                            FlattenSeq([k \in DOMAIN The(m, s[1]).c |-> Text(m, The(m, s[1]).c[k])])
                            \o FlattenSeq([k \in 1..(Len(s) - 1) |-> Text(m, s[k + 1])]))]), Tail(s))
        n == [IF m.unwinding THEN Wrong(shown, "ran") ELSE shown EXCEPT !.pc = @ + 1]
        given == IF i.op = "apply" THEN <<"f">> \o FlattenSeq([k \in 1..(Len(s) - 1) |-> Text(m, s[k + 1])])
                 ELSE <<Callee(i)>>
    IN  CASE c = "fail" -> Write(Panic(n, <<"failed">>), i.d, Null)
          [] c = "true" -> Write(n, i.d, True)
          [] c = "false" -> Write(n, i.d, False)
          [] c = "null" -> Write(n, i.d, Null)
          [] i.d = None -> n
          [] OTHER -> Alloc(n, i.d, "Str", given)

\* A machine about to run the function: the caller holds a string and an
\* instance, and may be inside a try of its own.
Begun(depth) ==
    [pc |-> 1, heap |-> <<[rc |-> 1, kind |-> "Str", c |-> <<"arg">>], [rc |-> 1, kind |-> "Box", c |-> <<Obj(3)>>],
                          [rc |-> 1, kind |-> "Str", c |-> <<"mine">>]>>,
     vars |-> (VarOf("p") :> Obj(1)) @@ (VarOf("this") :> Obj(2)),
     depth |-> depth, unwinding |-> FALSE, out |-> <<>>, hist |-> <<>>, status |-> "run", v |-> Unit, bad |-> {}]

\* What the caller sees, in the words of Walk.
CMeaning(m, ty) ==
    [out |-> m.out, flow |-> IF m.status = "returned" THEN "ok" ELSE "err", in |-> <<>>,
     v |-> IF m.status # "returned" THEN m.v ELSE IF ty = "Str" THEN Text(m, m.v) ELSE Unit]

\* How many references to each object somebody still answers for: the
\* caller's, the returned one, and those inside living objects.
Owners(m, k) ==
    (IF k \in {1, 2} THEN 1 ELSE 0) + (IF m.status = "returned" /\ m.v = Obj(k) THEN 1 ELSE 0)
    + FoldLeft(+, 0, [j \in DOMAIN m.heap |->
        IF m.heap[j].rc > 0 THEN Len(SelectSeq(Owns(m.heap[j]), LAMBDA v : v = Obj(k))) ELSE 0])
=============================================================================
