------------------------------ MODULE Resolution ------------------------------
(***************************************************************************)
(* How the checker finds the declaration a written name means              *)
(* (src/src/checker.rs): one unique name for each top-level declaration of *)
(* the whole program, the files each file sees, who may name what, and the *)
(* roads a read, an assignment and a qualified name take to the global     *)
(* scope.                                                                  *)
(*                                                                         *)
(* `names` is what the checker holds: the unique names taken, what each    *)
(* file declared, what it sees, its aliases, and the global scope, by      *)
(* unique name.  A declaration has a file, a name, a kind, a visibility,   *)
(* whether a guard follows it and, once planned, its key: the unique name. *)
(* A binding is the declaration and whether it still knows its home.       *)
(***************************************************************************)
EXTENDS Naturals, Sequences, FiniteSets, TLC
LOCAL INSTANCE FiniteSetsExt
LOCAL INSTANCE SequencesExt

Prelude == 0
NoNames == [taken |-> {}, declared |-> <<>>, visible |-> <<>>, aliases |-> <<>>, scope |-> <<>>]

\* A file sees itself, what its unaliased imports reach, and the prelude.
RECURSIVE Reached(_, _)
Reached(files, imports) ==
    LET more == {e.to : e \in {i \in imports : i.from \in files /\ i.alias = ""}}
    IN  IF more \subseteq files THEN files ELSE Reached(files \cup more, imports)
VisibleFrom(file, imports) == Reached({file}, imports) \cup {Prelude}
Sees(names, file) == IF file \in DOMAIN names.visible THEN names.visible[file] ELSE {}

\* The source name for the first to claim it; `#` cannot be written, and the
\* C backend flattens it.
Minted(source, n) == source \o "#" \o ToString(n)
Flattened(source, n) == source \o "_dup" \o ToString(n)
UniqueAnew(source, taken, all) == source   \* mutant
Unique(source, taken, all) ==
    LET free == {n \in 2 .. Cardinality(taken \cup all) + 3 :
                    Minted(source, n) \notin taken /\ Flattened(source, n) \notin all}
    IN  IF source \in taken THEN Minted(source, Min(free)) ELSE source

\* One declaration named: the second of a name in one file is left alone.
Planned(names, decl, all) ==
    LET key == Unique(decl.name, names.taken, all)
    IN  IF <<decl.file, decl.name>> \in DOMAIN names.declared
        THEN [names |-> names, decls |-> <<[key |-> decl.name] @@ decl>>]
        ELSE [names |-> [names EXCEPT !.taken = @ \cup {key},
                                      !.declared = (<<decl.file, decl.name>> :> key) @@ @],
              decls |-> <<[key |-> key] @@ decl>>]
PlanNamespaces(names, decls, files, imports) ==
    LET all == {decls[i].name : i \in DOMAIN decls}
        seen == [f \in files |-> VisibleFrom(f, imports)]
        aliased == {e \in imports : e.alias # ""}
        known == [k \in {<<e.from, e.alias>> : e \in aliased} |->
                     (CHOOSE e \in aliased : <<e.from, e.alias>> = k).to]
        Next(at, decl) == LET p == Planned(at.names, decl, all)
                          IN  [names |-> p.names, decls |-> at.decls \o p.decls]
    IN  FoldLeft(Next, [names |-> [names EXCEPT !.visible = seen @@ @, !.aliases = known @@ @], decls |-> <<>>], decls)

\* What a top-level `if (x == null) { throw ... }` makes of a binding: another,
\* with the narrower type and no home.
Bound(decl) == [home |-> TRUE] @@ decl
Narrowed(binding) == [binding EXCEPT !.home = FALSE]
AfterGuard(binding) == IF binding.guarded THEN Narrowed(binding) ELSE binding

\* Functions enter the scope first, then the bindings in order. In the REPL a
\* name may be declared again.
Entered(names, decls, repl) ==
    LET funs == SelectSeq(decls, LAMBDA d : d.kind = "fun")
        lets == SelectSeq(decls, LAMBDA d : d.kind # "fun")
        Enter(at, d) == [scope |-> (d.key :> AfterGuard(Bound(d))) @@ at.scope,
                         errors |-> at.errors \/ (d.key \in DOMAIN at.scope /\ ~repl)]
        all == FoldLeft(Enter, [scope |-> names.scope, errors |-> FALSE], funs \o lets)
    IN  [names |-> [names EXCEPT !.scope = all.scope], errors |-> all.errors]

\* `package` opens a declaration to the files beside it.
Reachable(vis, home, here, package) ==
    \/ vis = "public" \/ home = here
    \/ vis = "package" /\ package[home] = package[here]

\* The unique names a bare name reaches from a file: its own declaration, or
\* all that the files it sees declare.
Candidates(names, name, file) ==
    IF <<file, name>> \in DOMAIN names.declared
    THEN {names.declared[file, name]}
    ELSE {names.declared[k] : k \in {d \in DOMAIN names.declared : d[2] = name /\ d[1] \in Sees(names, file)}}

\* What is found under a unique name, and whether this file may name it.
Found(names, key, file, package) ==
    IF key \notin DOMAIN names.scope THEN [ok |-> FALSE]
    ELSE LET b == names.scope[key]
         IN  [ok |-> b.home => Reachable(b.vis, b.file, file, package), decl |-> b]
ResolveGlobal(names, name, file) ==
    LET found == Candidates(names, name, file)
    IN  [ambiguous |-> Cardinality(found) > 1, key |-> IF Cardinality(found) = 1 THEN CHOOSE k \in found : TRUE ELSE name]

\* A name read, or called: resolved, then looked up. One that resolves to
\* nothing is looked up as it was written.
ReadAsWritten(names, name, file, package) == Found(names, name, file, package)   \* mutant
Read(names, name, file, package) ==
    LET r == ResolveGlobal(names, name, file) IN
    IF r.ambiguous THEN [ok |-> FALSE] ELSE Found(names, r.key, file, package)
\* The target of an assignment is looked up as it was written.
Assigned(names, name, file, package) ==
    LET f == Found(names, name, file, package) IN [f EXCEPT !.ok = @ /\ f.decl.kind = "var"]
\* `alias.name` becomes the unique name of the aliased file's declaration,
\* and that is read as a name written in this file.
Unqualified(names, alias, name, file) ==
    LET key == <<names.aliases[file, alias], name>>
    IN  IF key \in DOMAIN names.declared THEN names.declared[key] ELSE name
ReadQualified(names, alias, name, file, package) ==
    Read(names, Unqualified(names, alias, name, file), file, package)
================================================================================
