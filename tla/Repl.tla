--------------------------------- MODULE Repl ---------------------------------
(***************************************************************************)
(* A session of `keal repl` (src/src/repl.rs): entry by entry, each a file *)
(* of its own, checked, compiled and run by a checker, a compiler and a VM *)
(* that keep what earlier entries left. An entry that fails at one of the  *)
(* three leaves what it did before in the ones it went through.            *)
(***************************************************************************)
EXTENDS Resolution
LOCAL INSTANCE SequencesExt

CONSTANTS Entry,       \* what may be typed: a sequence of statements
          MaxEntries   \* bound on the entries of a session
VARIABLES checker,     \* what the checker holds: unique names and the scope
          slots,       \* the compiler's globals: unique names, by slot
          memory,      \* the VM's: what each slot holds
          entries,     \* how many entries were read
          last,        \* the last one's outcome, and what its statements read
          bound        \* the names that completed entries declared: in which entry
replVars == <<checker, slots, memory, entries, last, bound>>

\* Statements: `val x = v`, `val x: T? = null`, a function that reads a global,
\* a use of a name, an assignment, a guard `if (x == null) { throw "" }`, a
\* statement that fails, and one that does not type.
Let(x, kind, ty, v, vis) == [op |-> "let", x |-> x, kind |-> kind, ty |-> ty, v |-> v, vis |-> vis]
Fun(x, reads, vis) == [op |-> "fun", x |-> x, reads |-> reads, vis |-> vis]
Use(x) == [op |-> "use", x |-> x]
Set(x, ty, v) == [op |-> "set", x |-> x, ty |-> ty, v |-> v]
Guard(x) == [op |-> "guard", x |-> x]
Fails == [op |-> "fails"]
IllTyped == [op |-> "illTyped"]

UnitValue == [ty |-> "Unit"]
RInit ==
    /\ checker = [NoNames EXCEPT !.visible = (Prelude :> {Prelude})]
    /\ slots = <<>> /\ memory = <<>>
    /\ entries = 0 /\ last = [outcome |-> "none", reads |-> <<>>] /\ bound = <<>>

\* Every file an entry is is unknown to learn_packages, so only the prelude has
\* a list of files it sees, and all entries are one package.
Declares(entry, file) ==
    LET decls == SelectSeq(entry, LAMBDA s : s.op \in {"let", "fun"})
    IN  [i \in DOMAIN decls |->
            [file |-> file, name |-> decls[i].x, vis |-> decls[i].vis, guarded |-> FALSE,
             kind |-> IF decls[i].op = "fun" THEN "fun" ELSE decls[i].kind,
             ty |-> IF decls[i].op = "fun" THEN "Fun" ELSE decls[i].ty]]
OnePackage(file) == [f \in 0 .. file |-> "none"]

(* Check: a fold over the statements.  `scope` is the global scope so far;  *)
(* each use is rewritten to the unique name it reaches and the type found   *)
(* there.                                                                   *)
Widens(from, to) == from = to \/ (to = "Str?" /\ from \in {"Str", "Null"})

CheckLet(at, decl, s) ==
    [at EXCEPT !.names.scope = (decl.key :> Bound(decl)) @@ @, !.code = Append(@, [s EXCEPT !.x = decl.key])]
CheckUse(at, s, file) ==
    LET r == Read(at.names, s.x, file, OnePackage(file))
    IN  IF ~r.ok THEN [at EXCEPT !.errors = TRUE]
        ELSE [at EXCEPT !.code = Append(@, [s EXCEPT !.x = r.decl.key] @@ [ty |-> r.decl.ty])]
CheckSet(at, s, file) ==
    LET r == Assigned(at.names, s.x, file, OnePackage(file))
    IN  IF ~r.ok \/ ~Widens(s.ty, r.decl.ty) THEN [at EXCEPT !.errors = TRUE]
        ELSE [at EXCEPT !.code = Append(@, s)]
\* A guard that is a statement of its own narrows what follows it.
CheckGuard(at, s, file) ==
    LET r == Read(at.names, s.x, file, OnePackage(file))
        narrowed == [at.names.scope EXCEPT ![r.decl.key] = Narrowed([@ EXCEPT !.ty = "Str"])]
    IN  IF ~r.ok \/ r.decl.ty # "Str?" \/ r.decl.kind # "val" THEN [at EXCEPT !.errors = TRUE]
        ELSE [at EXCEPT !.names.scope = narrowed, !.code = Append(@, [s EXCEPT !.x = r.decl.key])]
\* Its body is checked after every statement, when all globals are known.
CheckFunBody(at, f, file) ==
    LET r == Read(at.names, f.reads, file, OnePackage(file))
        key == (CHOOSE k \in DOMAIN at.names.declared : k = <<file, f.x>>)
    IN  IF ~r.ok \/ r.decl.kind = "fun" THEN [at EXCEPT !.errors = TRUE]
        ELSE [at EXCEPT !.code = <<[f EXCEPT !.x = at.names.declared[key], !.reads = r.decl.key] @@ [ty |-> r.decl.ty]>> \o @]

CheckEntry(names, entry, file) ==
    LET plan == PlanNamespaces(names, Declares(entry, file), {Prelude}, {})
        funs == Entered(plan.names, SelectSeq(plan.decls, LAMBDA d : d.kind = "fun"), TRUE)
        decl(s) == plan.decls[CHOOSE i \in DOMAIN plan.decls : plan.decls[i].name = s.x]
        Stmt(at, s) == CASE s.op = "let" -> CheckLet(at, decl(s), s)
                         [] s.op = "use" -> CheckUse(at, s, file)
                         [] s.op = "set" -> CheckSet(at, s, file)
                         [] s.op = "guard" -> CheckGuard(at, s, file)
                         [] s.op = "illTyped" -> [at EXCEPT !.errors = TRUE]
                         [] s.op = "fails" -> [at EXCEPT !.code = Append(@, s)]
                         [] s.op = "fun" -> at
        stmts == FoldLeft(Stmt, [names |-> funs.names, errors |-> FALSE, code |-> <<>>], entry)
        Body(at, s) == IF s.op = "fun" THEN CheckFunBody(at, s, file) ELSE at
    IN  FoldLeft(Body, stmts, entry)

(* Compile: every declaration of the entry is a global; a name that is none *)
(* is not defined.                                                          *)
SlotOf(globals, key) == CHOOSE i \in DOMAIN globals : globals[i] = key
Known(globals, key) == \E i \in DOMAIN globals : globals[i] = key
DeclareGlobal(globals, key) == IF Known(globals, key) THEN globals ELSE Append(globals, key)
Declared(globals, code) ==
    FoldLeft(LAMBDA g, s : IF s.op \in {"let", "fun"} THEN DeclareGlobal(g, s.x) ELSE g, globals, code)
Mentions(s) == IF s.op = "fun" THEN {s.reads} ELSE IF s.op \in {"use", "set", "guard"} THEN {s.x} ELSE {}
Compiles(globals, code) == \A i \in DOMAIN code : \A key \in Mentions(code[i]) : Known(globals, key)

(* Run: the slots grow, a new one holds Unit.                               *)
Grown(values, n) == [i \in 1 .. n |-> IF i \in DOMAIN values THEN values[i] ELSE UnitValue]
Step(at, s, globals) ==
    LET slot == SlotOf(globals, s.x)
        read == at.values[slot] IN
    CASE at.failed -> at
      [] s.op = "let" -> [at EXCEPT !.values[slot] = s.v]
      [] s.op = "fun" -> [at EXCEPT !.values[slot] = [ty |-> "Fun", reads |-> s.reads, as |-> s.ty]]
      [] s.op = "set" -> [at EXCEPT !.values[slot] = s.v]
      [] s.op = "guard" -> [at EXCEPT !.failed = read.ty = "Null"]
      [] s.op = "fails" -> [at EXCEPT !.failed = TRUE]
      [] s.op = "use" /\ read.ty = "Fun" ->
             [at EXCEPT !.reads = Append(@, [as |-> read.as, got |-> at.values[SlotOf(globals, read.reads)].ty])]
      [] OTHER -> [at EXCEPT !.reads = Append(@, [as |-> s.ty, got |-> read.ty])]
RunEntry(values, globals, code) ==
    FoldLeft(LAMBDA at, s : Step(at, s, globals),
             [values |-> Grown(values, Len(globals)), failed |-> FALSE, reads |-> <<>>], code)

\* One entry read, and what becomes of it.
Names(entry) == {entry[i].x : i \in {j \in DOMAIN entry : entry[j].op \in {"let", "fun"}}}
Refuse(entry, c) == /\ checker' = c.names
                    /\ last' = [outcome |-> "refused", entry |-> entry, reads |-> <<>>]
                    /\ UNCHANGED <<slots, memory, bound>>
NotCompiled(entry, c, globals) ==
    /\ checker' = c.names /\ slots' = globals
    /\ last' = [outcome |-> "not compiled", entry |-> entry, reads |-> <<>>]
    /\ UNCHANGED <<memory, bound>>
Run(entry, c, globals, r) ==
    /\ checker' = c.names /\ slots' = globals /\ memory' = r.values
    /\ last' = [outcome |-> IF r.failed THEN "failed" ELSE "ran", entry |-> entry, reads |-> r.reads]
    /\ bound' = IF r.failed THEN bound ELSE [x \in Names(entry) |-> entries'] @@ bound
Compiled(entry, c, globals) ==
    \/ ~Compiles(globals, c.code) /\ NotCompiled(entry, c, globals)
    \/ Compiles(globals, c.code) /\ Run(entry, c, globals, RunEntry(memory, globals, c.code))
Checked(entry, c) ==
    \/ c.errors /\ Refuse(entry, c)
    \/ ~c.errors /\ Compiled(entry, c, Declared(slots, c.code))
ReadEntry(entry) ==
    /\ entries < MaxEntries /\ entries' = entries + 1
    /\ Checked(entry, CheckEntry(checker, entry, entries + 1))
RNext == \E entry \in Entry : ReadEntry(entry)

\* What an entry that ran read had the type the checker had given it, whatever
\* the entries before it declared, re-declared, left half done or were refused
\* for; and so had what a function of an earlier entry read when it was called.
NothingMisread == \A i \in DOMAIN last.reads : Widens(last.reads[i].got, last.reads[i].as)

\* A name that an earlier entry declared, and that nothing declared again, can
\* be used by a later one ("later entries see earlier declarations",
\* src/src/repl.rs:3-4).
LaterEntriesSee ==
    last.outcome \in {"refused", "not compiled"} =>
        ~(Len(last.entry) = 1 /\ last.entry[1].op = "use" /\ last.entry[1].x \in DOMAIN bound)
================================================================================
