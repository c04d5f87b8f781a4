------------------------------ MODULE Namespaces ------------------------------
(***************************************************************************)
(* Programs of several files that may declare the same names, and import   *)
(* one another bare or under an alias: what the checker makes of them, and *)
(* what a name written in one of them reaches.                             *)
(***************************************************************************)
EXTENDS Resolution

CONSTANTS Source,    \* the programs: their declarations in order, their imports
          Package,   \* the directory of each file
          Form       \* the names to write as well: "assigned", "qualified", "unseen"
VARIABLES source,    \* the program
          names,     \* what the checker holds of it; refused programs have none
          use        \* a name written in a body, and what it reaches

nameVars == <<source, names, use>>
Files == DOMAIN Package
Unused == [form |-> "none"]

Checked(s) ==
    LET plan == PlanNamespaces(NoNames, s.decls, Files, s.imports)
        e == Entered(plan.names, plan.decls, FALSE)
    IN  [ok |-> ~e.errors, names |-> e.names, decls |-> plan.decls]

NInit == source \in Source /\ names = Checked(source) /\ use = Unused

Written(s) == {s.decls[i].name : i \in DOMAIN s.decls}
Own(s, file, name) == \E i \in DOMAIN s.decls : s.decls[i].file = file /\ s.decls[i].name = name
Declaring(s, fs, name) == {f \in fs : Own(s, f, name)}

\* The file whose declaration a name is meant to be: this file's own; or the
\* only one its bare imports bring; under an alias, the aliased file's.
MeantBare(s, file, name) ==
    IF Own(s, file, name) THEN {file} ELSE Declaring(s, VisibleFrom(file, s.imports), name)

Writes(form, file, name, alias, to, answer) ==
    use' = [form |-> form, file |-> file, name |-> name, to |-> to, answer |-> answer]

ReadName(file, name) ==
    /\ use = Unused /\ names.ok
    /\ MeantBare(source, file, name) = {} => "unseen" \in Form
    /\ Writes("read", file, name, "", MeantBare(source, file, name), Read(names.names, name, file, Package))
    /\ UNCHANGED <<source, names>>

\* An assignment, where more than one file declares the name only if asked for.
AssignName(file, name) ==
    /\ use = Unused /\ names.ok /\ MeantBare(source, file, name) # {}
    /\ Cardinality(Declaring(source, Files, name)) > 1 => "assigned" \in Form
    /\ Writes("assign", file, name, "", MeantBare(source, file, name), Assigned(names.names, name, file, Package))
    /\ UNCHANGED <<source, names>>

QualifiedName(e, name) ==
    /\ use = Unused /\ names.ok /\ e \in source.imports /\ e.alias # "" /\ Own(source, e.to, name)
    /\ Cardinality(Declaring(source, Files, name)) > 1 => "qualified" \in Form
    /\ Writes("qualified", e.from, name, e.alias, {e.to}, ReadQualified(names.names, e.alias, name, e.from, Package))
    /\ UNCHANGED <<source, names>>

NNext ==
    \E name \in Written(source) :
        \/ \E file \in Files : ReadName(file, name) \/ AssignName(file, name)
        \/ \E e \in source.imports : QualifiedName(e, name)

\* A name that the checker accepts reaches the one declaration it is meant to
\* reach, and one its file may name (docs/language.md, section 13): whichever
\* file claimed the plain spelling first, and whatever another file declares.
UsesReachWhatIsMeant ==
    use # Unused /\ use.answer.ok =>
        /\ use.to = {use.answer.decl.file}
        /\ use.answer.decl.name = use.name
        /\ Reachable(use.answer.decl.vis, use.answer.decl.file, use.file, Package)

\* And what may be named is not refused for another file's sake: a
\* declaration of this file's own, or the only one it sees.
UsesAreNotRefused ==
    use # Unused /\ ~use.answer.ok =>
        \/ Cardinality(use.to) # 1
        \/ \E f \in use.to : \A i \in DOMAIN source.decls :
              source.decls[i].file = f /\ source.decls[i].name = use.name =>
                  \/ ~Reachable(source.decls[i].vis, f, use.file, Package)
                  \/ use.form = "assign" /\ source.decls[i].kind # "var"

\* No two declarations of an accepted program have one name below the
\* checker, nor once the C backend has flattened it.
CName(d) == IF d.key = d.name THEN d.name
            ELSE CHOOSE c \in {Flattened(d.name, n) : n \in 2 .. Len(names.decls) + 4} :
                     \E n \in 2 .. Len(names.decls) + 4 : d.key = Minted(d.name, n) /\ c = Flattened(d.name, n)
DeclarationsKeepApart ==
    names.ok => \A i, j \in DOMAIN names.decls : i # j => CName(names.decls[i]) # CName(names.decls[j])
================================================================================
