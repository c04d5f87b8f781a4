------------------------------ MODULE SpawnRule ------------------------------
(***************************************************************************)
(* What a spawned handler may reach (check_spawn_handler of                *)
(* src/src/checker.rs), and what becomes of that when actors run at the    *)
(* same time: `spawn` copies what the handler captures (copyClosure of     *)
(* src/src/native.rs), a global is one for all.                            *)
(*                                                                         *)
(* A handler is a sequence of statements: a use of a name, which may       *)
(* change whatever can be reached through it; a binding of one; a block of *)
(* its own; a branch.  Two actors run it, one message at a time each, and  *)
(* a change is a read and a write.                                         *)
(***************************************************************************)
EXTENDS Types, FiniteSets
LOCAL INSTANCE SequencesExt

CONSTANTS Actor,
          Class,     \* [class name -> sequence of [ty, mutable, weak]]
          Captured,  \* [local of the spawner -> its type]
          Global,    \* [global name -> [kind, ty, body]]
          Handler    \* the handlers: [body, inPlace]
Blessed == {"ActorRef", "Outbox"}
TClass(c) == <<"Class", c>>

(* The statements of a handler, and the names free in it as collect_free   *)
(* finds them: what a branch binds is still bound below it.                *)
Use(x) == [s |-> "use", x |-> x]
Bind(x) == [s |-> "bind", x |-> x]
Inner(kind, body) == [s |-> kind, body |-> body]
RECURSIVE CollectFree(_, _)
CollectFree(body, q) ==
    IF body = <<>> THEN q
    ELSE LET s == Head(body)
         IN  CollectFree(Tail(body),
                CASE s.s = "use" -> IF s.x \in q.bound THEN q ELSE [q EXCEPT !.free = @ \cup {s.x}]
                  [] s.s = "bind" -> [q EXCEPT !.bound = @ \cup {s.x}]
                  [] s.s = "block" -> [q EXCEPT !.free = CollectFree(s.body, q).free]
                  [] s.s = "branch" -> CollectFree(s.body, q))
Free(body) == CollectFree(body, [bound |-> {}, free |-> {}]).free

\* The names a body reaches outside itself when it runs.
RECURSIVE Reached(_, _)
Reached(body, bound) ==
    IF body = <<>> THEN {}
    ELSE LET s == Head(body)
         IN  CASE s.s = "use" -> ({s.x} \ bound) \cup Reached(Tail(body), bound)
               [] s.s = "bind" -> Reached(Tail(body), bound \cup {s.x})
               [] OTHER -> Reached(s.body, bound) \cup Reached(Tail(body), bound)

(* The rule. *)
\* Can nobody change anything through a value of this type?
RECURSIVE DeeplyImmutable(_, _)
DeeplyImmutable(t, seen) ==
    CASE t[1] \in {"List", "Any"} -> FALSE
      [] t[1] = "opt" -> DeeplyImmutable(t[2], seen)
      [] t[1] = "Class" -> t[2] \notin Blessed \cup seen =>
                             \A i \in DOMAIN Class[t[2]] :
                                LET f == Class[t[2]][i]
                                IN  ~f.mutable /\ ~f.weak /\ DeeplyImmutable(f.ty, seen \cup {t[2]})
      [] OTHER -> TRUE
\* Can `copy` carry it?
RECURSIVE Copyable(_, _)
Copyable(t, seen) ==
    CASE t[1] \in {"Fun", "Any"} -> FALSE
      [] t[1] \in {"opt", "List"} -> Copyable(t[2], seen)
      [] t[1] = "Class" -> t[2] \notin Blessed \cup seen =>
                             \A i \in DOMAIN Class[t[2]] :
                                ~Class[t[2]][i].weak /\ Copyable(Class[t[2]][i].ty, seen \cup {t[2]})
      [] OTHER -> TRUE
ShallowlyImmutable(x) == Global[x].ty[1] \notin {"List", "Any"}  \* mutant
MayShare(x) == DeeplyImmutable(Global[x].ty, {})
SpawnAllows(h) ==
    /\ h.inPlace
    /\ "this" \notin Free(h.body)
    /\ \A x \in Free(h.body) :
          IF x \in DOMAIN Captured THEN Copyable(Captured[x], {})
          ELSE Global[x].kind = "fun" \/ (Global[x].kind = "val" /\ MayShare(x))

(* What is there at run time.  A place is where a value is kept that can be *)
(* replaced: a path from a binding, beginning with who it belongs to.       *)
RECURSIVE Places(_, _, _)
Places(t, path, depth) ==
    IF depth = 0 THEN {}
    ELSE CASE t[1] = "opt" -> Places(t[2], path, depth)
           [] t[1] = "List" -> {path} \cup Places(t[2], Append(path, "item"), depth - 1)
           [] t[1] \in {"Any", "Fun"} -> {path}
           [] t[1] = "Class" /\ t[2] \notin Blessed ->
                UNION {LET f == Class[t[2]][i]
                       IN  (IF f.mutable THEN {Append(path, i)} ELSE {}) \cup Places(f.ty, Append(path, i), depth - 1)
                       : i \in DOMAIN Class[t[2]]}
           [] OTHER -> {}
\* A value that copy stops at: code, or a weak reference, anywhere in it.
RECURSIVE Uncopied(_, _)
Uncopied(t, depth) ==
    depth > 0 /\ CASE t[1] \in {"opt", "List"} -> Uncopied(t[2], depth - 1)
                   [] t[1] = "Class" /\ t[2] \notin Blessed ->
                        \E i \in DOMAIN Class[t[2]] : Class[t[2]][i].weak \/ Uncopied(Class[t[2]][i].ty, depth - 1)
                   [] OTHER -> t[1] \in {"Fun", "Any"}
Depth == 3

\* What actor a can change through a name: a captured value is its own copy,
\* a global is everybody's, and a function reaches what its body does.
RECURSIVE Touches(_, _)
Touches(a, x) ==
    IF x \in DOMAIN Captured THEN Places(Captured[x], <<a, x>>, Depth)
    ELSE CASE Global[x].kind = "var" -> {<<"global", x>>} \cup Places(Global[x].ty, <<"global", x>>, Depth)
           [] Global[x].kind = "val" -> Places(Global[x].ty, <<"global", x>>, Depth)
           [] OTHER -> UNION {Touches(a, y) : y \in Reached(Global[x].body, {})}

VARIABLES handler,  \* the program's
          spawned,  \* the actors there are
          held,     \* [Actor -> what it read and not yet wrote]
          value, writes  \* [place -> what it holds], [place -> how often it was changed]
Idle == [at |-> <<>>, read |-> 0]
At(m, p) == IF p \in DOMAIN m THEN m[p] ELSE 0
With(m, p, v) == [q \in DOMAIN m \cup {p} |-> IF q = p THEN v ELSE m[q]]

SInit == /\ handler \in Handler
         /\ spawned = {}
         /\ held = [a \in Actor |-> Idle]
         /\ value = <<>> /\ writes = <<>>

\* `spawn`: the checker let it pass, and the handler's captures are copied.
Spawn(a) == /\ a \notin spawned
            /\ SpawnAllows(handler)
            /\ spawned' = spawned \cup {a}
            /\ UNCHANGED <<handler, held, value, writes>>
\* In a handler: one of its statements reads a place, and then replaces what
\* it read; between the two another actor may run.
Read(a) == /\ a \in spawned /\ held[a] = Idle
           /\ \E x \in Reached(handler.body, {}) : \E p \in Touches(a, x) :
                 held' = [held EXCEPT ![a] = [at |-> p, read |-> At(value, p)]]
           /\ UNCHANGED <<handler, spawned, value, writes>>
Write(a) == /\ held[a] # Idle
            /\ LET p == held[a].at
               IN  /\ At(writes, p) < 2
                   /\ value' = With(value, p, held[a].read + 1)
                   /\ writes' = With(writes, p, At(writes, p) + 1)
            /\ held' = [held EXCEPT ![a] = Idle]
            /\ UNCHANGED <<handler, spawned>>
SNext == \E a \in Actor : Spawn(a) \/ Read(a) \/ Write(a)

\* Actors share no mutable state: nothing one of them changes is changed by
\* another between its read and its write, so no change is lost.
NoChangeIsLost == \A p \in DOMAIN writes : value[p] = writes[p]
\* What a handler that was let pass captures can be copied when it is spawned.
CapturesCopy == spawned # {} => \A x \in Reached(handler.body, {}) \cap DOMAIN Captured : ~Uncopied(Captured[x], Depth)
=============================================================================
