------------------------------- MODULE MCFrontEnd -------------------------------
(***************************************************************************)
(* What is decided before a program runs, part by part: the checker's      *)
(* types and its spawn rule, the folder, the names of several files, a     *)
(* REPL session, the language server and the parser's operators.  The     *)
(* variables of the other parts stay as one state they may begin in.      *)
(***************************************************************************)
EXTENDS LanguageServer, FiniteSets, TLC
LOCAL INSTANCE SequencesExt

CONSTANTS Parts,                                                      \* the parts of this run
          MaxChoices, ElseIfGuards, Aliases, Escaping, Actor,         \* the checker
          Budget, MaxDepth, Differing,                                \* the folder
          Form,                                                       \* names
          MaxEntries, Mishaps,                                        \* the REPL
          main, lib,                                                  \* the language server
          Words, MaxTokens, Costly, Signed                            \* the parser
ASSUME FrontEndAssumption ==
    /\ Parts \subseteq {"checker", "fold", "names", "repl", "lsp", "operators"}
    /\ {MaxChoices, Budget, MaxDepth, MaxEntries} \subseteq Nat /\ MaxTokens \in Nat \ {0, 1}
    /\ {ElseIfGuards, Aliases, Signed} \subseteq BOOLEAN
    /\ Costly \subseteq Words
    /\ Escaping \subseteq {"function", "closure", "branch"}
    /\ Differing \subseteq {"shadowed", "shared", "negative", "compound", "eager", "widened"}
    /\ Form \subseteq {"assigned", "qualified", "unseen", "guarded"}
    /\ Mishaps \subseteq {"failed"}

VARIABLES piece,
          part, fun, args, choices, accepted, call, handler, spawned, held, value, writes,
          prog, at, folded,
          source, names, use,
          checker, slots, memory, entries, last, bound,
          tokens, parsed

K == INSTANCE MCChecker
D == INSTANCE MCConstFold
O == INSTANCE Operators

(* Files 1, 2 and 3, each imported by later ones at most, in three         *)
(* directories or two, which declare `p` or a name that looks minted.      *)
Decl(file, name, kind, vis) ==
    [file |-> file, name |-> name, kind |-> kind, vis |-> vis, guarded |-> kind = "val"]
MayDeclare(file) ==
    {<<>>, <<Decl(file, "p", "var", "private"), Decl(file, "p", "fun", "public")>>}
    \cup {<<Decl(file, "p", "var", v)>> : v \in {"private", "package", "public"}}
    \cup {<<Decl(file, "p", "fun", "public")>>}
    \cup {<<Decl(file, "p", "val", v)>> : v \in IF "guarded" \in Form THEN {"private"} ELSE {"public"}}
Minted == {<<>>} \cup {<<Decl(file, "p_dup2", "fun", "public")>> : file \in 1 .. 3}
Import(from, to, alias) == [from |-> from, to |-> to, alias |-> alias]
MayImport(from, to, aliases) == {{}} \cup {{Import(from, to, a)} : a \in aliases}
Sources == {[decls |-> one \o two \o three \o minted, imports |-> a \cup b \cup c] :
               one \in MayDeclare(1), two \in MayDeclare(2), three \in MayDeclare(3), minted \in Minted,
               a \in MayImport(3, 1, {"", "m"}), b \in MayImport(3, 2, {"", "m"}), c \in MayImport(2, 1, {""})}
Directory == (0 :> "prelude") @@ (1 :> "a") @@ (2 :> "b") @@ (3 :> "a")
N == INSTANCE Namespaces WITH Source <- Sources, Package <- Directory

(* One global that changes its type, one more, and a function of the first. *)
R0 == INSTANCE Repl WITH Entry <- {}
Value(ty) == [ty |-> ty]
Binds(x, ty, got, vis) == R0!Let(x, IF ty = "Str?" THEN "val" ELSE "var", ty, Value(got), vis)
Entries ==
    {<<Binds("x", "Int", "Int", v)>> : v \in {"private", "package", "public"}}
    \cup {<<Binds(x, "Str", "Str", "public")>> : x \in {"x", "y"}}
    \cup {<<Binds("x", "Str?", got, "public")>> : got \in {"Null", "Str"}}
    \cup {<<R0!Use(x)>> : x \in {"x", "y", "f"}}
    \cup {<<R0!Fun("f", "x", "public")>>, <<R0!Fun("f", "x", "public"), Binds("x", "Int", "Int", "public")>>}
    \cup {<<R0!Set("x", ty, Value(ty)), R0!Use("x")>> : ty \in {"Int", "Str"}}
    \cup {<<Binds("y", "Int", "Int", "public"), R0!IllTyped>>, <<R0!Fun("f", "x", "public"), R0!IllTyped>>,
          <<Binds("y", "Int", "Int", "public"), R0!Fails>>}
    \cup (IF "failed" \in Mishaps THEN {<<R0!Fails, Binds("y", "Int", "Int", "public")>>, <<R0!Guard("x")>>} ELSE {})
R == INSTANCE Repl WITH Entry <- Entries

(* One analysis of the language server: load a file and what it imports, and *)
(* check it (src/src/lsp.rs analyse, src/src/loader.rs load).  A text is what *)
(* it imports, whether it parses, whether its `main` is one that may be       *)
(* called, how it declares the one name that matters, and whether it uses it. *)
Source(imports, parses, callable, declares, uses) ==
    [imports |-> imports, parses |-> parses, callable |-> callable, declares |-> declares, uses |-> uses]
\* One that uses a name it does not declare; one that hides and uses its own; one
\* that does not parse; one with a `main` that cannot be called.
Says == [user |-> Source(<<lib>>, TRUE, TRUE, "no", TRUE),
         hiding |-> Source(<<lib>>, TRUE, TRUE, "private", TRUE),
         broken |-> Source(<<>>, FALSE, TRUE, "no", FALSE),
         uncallable |-> Source(<<>>, TRUE, FALSE, "no", TRUE)]
Loading == [seen |-> {}, order |-> <<>>, at |-> {}, why |-> ""]
Failure(file, why) == [Loading EXCEPT !.at = file, !.why = why]
Loaded(file, l) == IF l.why # "" THEN l ELSE [l EXCEPT !.order = Append(@, file)]

\* A file is read once, its imports before it; the first that cannot be read or
\* parsed ends the load, reported where it was imported, or in it.
RECURSIVE LoadFiles(_, _, _, _)
LoadFiles(texts, files, importer, l) ==
    IF files = <<>> \/ l.why # "" THEN l
    ELSE LET file == Head(files)
             text == Says[texts[file]]
             next == IF file \in l.seen THEN l
                     ELSE IF texts[file] = Absent THEN Failure(importer, "unreadable")
                     ELSE IF ~text.parses THEN Failure({file}, "syntax")
                     ELSE Loaded(file, LoadFiles(texts, text.imports, {file}, [l EXCEPT !.seen = @ \cup {file}]))
         IN  LoadFiles(texts, Tail(files), importer, next)
\* The entry has no importer to report it in. It alone has its `main` called:
\* one with other parameters or another result ends the load.
Load(texts, file) ==
    LET l == LoadFiles(texts, <<file>>, {}, Loading)
    IN  IF l.why = "" /\ ~Says[texts[file]].callable THEN Failure({file}, "main") ELSE l

\* The checker, as Resolution has it for any names: a use reaches this file's
\* declaration, or that of a file it sees, or as written the first of all that
\* was loaded, which may be another file's private one.
Reached(texts, l, file) ==
    LET declaring == {f \in l.seen : Says[texts[f]].declares # "no"}
        edges == UNION {{Import(f, g, "") : g \in Range(Says[texts[f]].imports)} : f \in l.seen}
        seen == declaring \cap N!VisibleFrom(file, edges)
        claims == {i \in DOMAIN l.order : l.order[i] \in declaring}
    IN  IF file \in declaring THEN {file} ELSE IF seen # {} THEN seen
        ELSE {l.order[i] : i \in {k \in claims : \A j \in claims : k <= j}}
Complaint(texts, l, file) ==
    LET reached == Reached(texts, l, file)
    IN  IF reached = {} THEN {"unresolved"}
        ELSE IF \E f \in reached \ {file} : Says[texts[f]].declares = "private" THEN {"hidden"} ELSE {}
Analyse(texts, file) ==
    LET l == Load(texts, file)
        wrong == {f \in l.seen : Says[texts[f]].uses /\ Complaint(texts, l, f) # {}}
    IN  IF l.why # "" THEN [f \in l.at |-> {l.why}] ELSE [f \in wrong |-> Complaint(texts, l, f)]

MCText == DOMAIN Says
\* One table, so that each analysis is worked out once: `@@` is not lazy.
Analyses == [q \in Held \X File |-> Analyse(q[1], q[2])] @@ <<>>
MCBy(texts, file) == Analyses[texts, file]

checkerVars == <<part, fun, args, choices, accepted, call, handler, spawned, held, value, writes>>
foldVars == <<prog, at, folded>>
nameVars == <<source, names, use>>
replVars == <<checker, slots, memory, entries, last, bound>>
parserVars == <<tokens, parsed>>
vars == <<piece, checkerVars, foldVars, nameVars, replVars, lspVars, parserVars>>

NoSource == [decls |-> <<>>, imports |-> {}]
FrontEndInit ==
    /\ piece \in Parts
    /\ IF piece = "checker" THEN K!Init ELSE K!SpawnInit /\ handler = CHOOSE h \in K!Handlers : TRUE
    /\ IF piece = "fold" THEN D!Init ELSE prog = <<>> /\ at = 1 /\ folded = <<>>
    /\ IF piece = "names" THEN N!NInit ELSE source = NoSource /\ names = N!Checked(NoSource) /\ use = N!Unused
    /\ R!RInit
    /\ piece # "lsp" => disk = [f \in File |-> Absent]
    /\ LSPInit
    /\ O!OInit
Checks(B) == piece = "checker" /\ B /\ UNCHANGED <<piece, foldVars, nameVars, replVars, lspVars, parserVars>>
Folds(B) == piece = "fold" /\ B /\ UNCHANGED <<piece, checkerVars, nameVars, replVars, lspVars, parserVars>>
Resolves(B) == piece = "names" /\ B /\ UNCHANGED <<piece, checkerVars, foldVars, replVars, lspVars, parserVars>>
Enters(B) == piece = "repl" /\ B /\ UNCHANGED <<piece, checkerVars, foldVars, nameVars, lspVars, parserVars>>
Serves(B) == piece = "lsp" /\ B /\ UNCHANGED <<piece, checkerVars, foldVars, nameVars, replVars, parserVars>>
Parses(B) == piece = "operators" /\ B /\ UNCHANGED <<piece, checkerVars, foldVars, nameVars, replVars, lspVars>>
FrontEndNext ==
    Checks(K!Next) \/ Folds(D!Next) \/ Resolves(N!NNext) \/ Enters(R!RNext) \/ Serves(LSPNext) \/ Parses(O!ONext)
FrontEndSpec == FrontEndInit /\ [][FrontEndNext]_vars

\* The checker's: what it accepts misuses no value, leaves what it was lent,
\* and spawns no two actors that change the same thing or cannot copy it.
AcceptedIsSafe == K!AcceptedIsSafe
LentIsUntouched == K!LentIsUntouched
HandlersAreApart == K!NoChangeIsLost /\ K!CapturesCopy
\* The folder's: a program with its literals does what it did with the
\* computations, and a failure of one is the program's own.
FoldingIsExact == piece = "fold" => D!FoldedMeansTheSame /\ D!FailuresArriveEarly
\* The names': an accepted use reaches the declaration it is meant to reach,
\* one that may be named is not refused, and no two have one name, not even in C.
UsesReachWhatIsMeant == N!UsesReachWhatIsMeant
NamesMeanOneThing == UsesReachWhatIsMeant /\ N!UsesAreNotRefused /\ N!DeclarationsKeepApart
\* The REPL's: what is read has the type it was given, and what an entry
\* declared can be used by a later one.
NothingMisread == R!NothingMisread
LaterEntriesSee == R!LaterEntriesSee
\* The parser's: a text it takes has one reading by the rules, and that is its
\* own; one it refuses has none.
TextsReadOneWay == O!TextsReadOneWay
================================================================================
