--------------------------------- MODULE Loader --------------------------------
(* Loading a program (src/src/loader.rs, load_file): every file is read once, *)
(* its imports are loaded where they stand, and its own items follow theirs   *)
(* in one flat list.  A file is what its imports make of it; which files can  *)
(* be read and what they import is chosen at the start.  The recursion of     *)
(* load_file is the stack of the files it is inside of.  A file is known by   *)
(* its normalised path, and `path` is one to normalise.                       *)
EXTENDS Naturals, Sequences, FiniteSets, SequencesExt

CONSTANTS
    File,
    MaxImports,  \* bound: the imports of a file
    Dir,         \* names of directories and files
    MaxParts,    \* bound: components of a path
    MaxClimb     \* bound: how far above the working directory a path climbs

VARIABLES
    path,       \* a path as a program or the command line spells it
    imports,    \* [File -> the files it imports, in order]
    readable,   \* the files on disk
    seen,       \* read so far
    stack,      \* load_file's activations: the file, and its next import
    items,      \* whose items are in the program, in order
    edges,      \* ImportEdge: importer, position, imported
    loaded      \* "no", "yes", "error"

loaderVars == <<path, imports, readable, seen, stack, items, edges, loaded>>

ASSUME LoaderAssumption ==
    File # {} /\ MaxImports \in Nat /\ MaxParts \in Nat /\ MaxClimb \in Nat

Entry == CHOOSE f \in File : TRUE
Lists == UNION {[1 .. n -> File] : n \in 0 .. MaxImports}

(* The components of a path, `.` dropped and `..` taken back from what is     *)
(* already out.                                                               *)

Part == Dir \union {".", ".."}

\* PathBuf::pop is true whenever there is a last component, a `..` too.
StopsAtTop(parts) == IF parts = <<>> THEN <<>> ELSE Front(parts)   \* a mutant of ParentDir
ParentDir(parts) == IF parts = <<>> THEN <<"..">> ELSE Front(parts)

Normalise(parts) ==
    FoldLeft(LAMBDA out, part : CASE part = "." -> out
                                  [] part = ".." -> ParentDir(out)
                                  [] OTHER -> Append(out, part),
             <<>>, parts)

\* Where components lead from a directory given by its depth below some
\* ancestor and the names taken since: what the file system does with them.
Follow(parts) ==
    FoldLeft(LAMBDA at, part :
                 IF part = "." THEN at
                 ELSE IF part # ".." THEN [at EXCEPT !.names = Append(@, part)]
                 ELSE IF at.names # <<>> THEN [at EXCEPT !.names = Front(@)]
                 ELSE [at EXCEPT !.up = @ + 1],
             [up |-> 0, names |-> <<>>], parts)
--------------------------------------------------------------------------------
LInit ==
    /\ imports \in [File -> Lists]
    /\ readable \in SUBSET File
    /\ seen = {} /\ stack = <<>> /\ items = <<>> /\ edges = {}
    /\ loaded = "no"
    /\ path \in UNION {[1 .. n -> Part] : n \in 0 .. MaxParts}
    /\ Follow(path).up <= MaxClimb

Top == Last(stack)

\* A file not seen before is read and parsed, and its activation pushed; a file
\* that cannot be, and a `dep:` that names none, ends the load.
Reads(f) == f \in readable
Enter(f, callers) ==
    IF Reads(f)
    THEN /\ seen' = seen \union {f}
         /\ stack' = Append(callers, [file |-> f, next |-> 1])
         /\ UNCHANGED loaded
    ELSE /\ loaded' = "error"
         /\ UNCHANGED <<seen, stack>>

Load ==
    /\ loaded = "no" /\ stack = <<>> /\ seen = {}
    /\ Enter(Entry, <<>>)
    /\ UNCHANGED <<path, imports, readable, items, edges>>

AtImport == stack # <<>> /\ Top.next \in DOMAIN imports[Top.file]
Target == imports[Top.file][Top.next]
Onward == Append(Front(stack), [Top EXCEPT !.next = @ + 1])

\* The edge is recorded for every importer, when its import has been loaded.
Record(f, k) == edges' = edges \union {<<f, k, imports[f][k]>>}

ImportSeen ==
    /\ loaded = "no" /\ AtImport /\ Target \in seen
    /\ stack' = Onward
    /\ Record(Top.file, Top.next)
    /\ UNCHANGED <<path, imports, readable, seen, items, loaded>>

ImportNew ==
    /\ loaded = "no" /\ AtImport /\ Target \notin seen
    /\ Enter(Target, stack)
    /\ UNCHANGED <<path, imports, readable, items, edges>>

\* `items.extend(own)`, after the last import.
ItemsFirst(f) == items' = <<f>> \o items                           \* mutant of Extend
Extend(f) == items' = Append(items, f)

EndFile ==
    /\ loaded = "no" /\ stack # <<>> /\ ~AtImport
    /\ Extend(Top.file)
    /\ IF Len(stack) = 1
       THEN /\ stack' = <<>>
            /\ loaded' = "yes"
            /\ UNCHANGED edges
       ELSE LET caller == stack[Len(stack) - 1] IN
            /\ stack' = Append(SubSeq(stack, 1, Len(stack) - 2),
                               [caller EXCEPT !.next = @ + 1])
            /\ Record(caller.file, caller.next)
            /\ UNCHANGED loaded
    /\ UNCHANGED <<path, imports, readable, seen>>

LNext == Load \/ ImportSeen \/ ImportNew \/ EndFile
LSpec == LInit /\ [][LNext]_loaderVars
--------------------------------------------------------------------------------
LTypeOK ==
    /\ imports \in [File -> Lists]
    /\ readable \subseteq File
    /\ seen \subseteq readable
    /\ stack \in Seq([file: File, next: 1 .. MaxImports + 1])
    /\ items \in Seq(File)
    /\ loaded \in {"no", "yes", "error"}

\* The files an import of f leads to: the least set with f's imports that is
\* closed under importing.
Closed(S) == \A f \in S : Range(imports[f]) \subseteq S
Reaches(f) == {g \in File : \A S \in SUBSET File :
                               Range(imports[f]) \subseteq S /\ Closed(S) => g \in S}

EdgesOf(f) == {<<f, k, imports[f][k]>> : k \in DOMAIN imports[f]}

\* Loading ends with every file the entry reaches, each once, whatever cycles
\* and diamonds the imports make, and an edge for every import statement of
\* them; or it says that one of them cannot be read.
WholeProgramOnce ==
    /\ Cardinality(Range(items)) = Len(items)
    /\ loaded = "yes" =>
          /\ Range(items) = {Entry} \union Reaches(Entry)
          /\ edges = UNION {EdgesOf(f) : f \in Range(items)}
    /\ loaded = "error" => ~({Entry} \union Reaches(Entry) \subseteq readable)

\* The items of an imported file precede its importer's, unless the two are on
\* one cycle.
ImportsComeFirst ==
    \A i, j \in DOMAIN items :
        items[j] \in Range(imports[items[i]]) /\ items[i] \notin Reaches(items[j])
            => j < i

ProgramIsWhole == WholeProgramOnce /\ ImportsComeFirst

\* A normalised path names the file the path named.
NormaliseKeepsTheFile == Follow(Normalise(path)) = Follow(path)
================================================================================
