---------------------------------- MODULE Fetch --------------------------------
(* `keal fetch` (src/src/fetch.rs): the work list of dependencies, the clone  *)
(* or update of each, and the lock file written at the end.  The project's    *)
(* manifest and its lock are shared by the checkouts of it; every checkout    *)
(* has its own `.keal/deps`.  Upstream, authors move tags, and the            *)
(* dependencies' own manifests come with the commit that is checked out.      *)
(*                                                                            *)
(* git is modelled by what fetch.rs asks of it: a clone knows the tags of the *)
(* moment, `fetch --tags` learns new ones and fails if one it knows has moved *)
(* (it would clobber it), `checkout` finds what the clone knows.              *)
EXTENDS Naturals, Sequences, FiniteSets, SequencesExt

CONSTANTS
    Checkout,   \* the places the project is checked out
    Pkg, Tag,
    Version,    \* bound: the commits a tag may name, 1 .. Version; a fresh clone is at 0
    Wants,      \* [Pkg -> [0..Version -> set of Dep]]: the manifest in a commit
    None

Dep == [name: Pkg, at: Tag]
Commits == 1 .. Version

VARIABLES
    upstream,  \* [Pkg -> [Tag -> commit or 0]]
    manifest,  \* the project's dependencies
    lock,      \* [Pkg -> [at, commit] or None]: keal.lock, committed
    clone,     \* [Checkout -> [Pkg -> None or what the clone knows and is at]]
    job        \* the fetch that runs: None, or where it is

fetchVars == <<upstream, manifest, lock, clone, job>>

Row == [at: Tag, commit: Commits]
Clone == [tags: [Tag -> 0 .. Version], head: 0 .. Version]
Job == [at: Checkout, queue: Seq(Dep), resolved: SUBSET Dep, failed: BOOLEAN]

ASSUME FetchAssumption ==
    /\ IsFiniteSet(Dep)
    /\ Version \in Nat \ {0}
    /\ Wants \in [Pkg -> [0 .. Version -> SUBSET Dep]]
    /\ None \notin Row /\ None \notin Clone /\ None \notin Job

FInit ==
    /\ upstream \in [Pkg -> [Tag -> 0 .. 1]]
    /\ manifest = <<>>
    /\ lock = [p \in Pkg |-> None]
    /\ clone = [c \in Checkout |-> [p \in Pkg |-> None]]
    /\ job = None

\* Upstream makes or moves a tag.
MoveTag(p, t) ==
    /\ upstream[p][t] < Version
    /\ upstream' = [upstream EXCEPT ![p][t] = @ + 1]
    /\ UNCHANGED <<manifest, lock, clone, job>>

\* Somebody edits keal.toml.
EditManifest(deps) ==
    /\ job = None
    /\ manifest' = deps
    /\ UNCHANGED <<upstream, lock, clone, job>>

StartFetch(c) ==
    /\ job = None
    /\ manifest # <<>>
    /\ job' = [at |-> c, queue |-> manifest, resolved |-> {}, failed |-> FALSE]
    /\ UNCHANGED <<upstream, manifest, lock, clone>>

\* `queue.pop()`
Current == Last(job.queue)
Rest == Front(job.queue)
Working == job # None /\ job.queue # <<>>
Resolved(p) == {d \in job.resolved : d.name = p}

\* The same name again, and the two agree.
Done(d) == d \in job.resolved
AlreadyThere ==
    /\ Working /\ Done(Current)
    /\ job' = [job EXCEPT !.queue = Rest]
    /\ UNCHANGED <<upstream, manifest, lock, clone>>

\* Two versions are wanted: say so and stop, the lock untouched.
Conflict == Resolved(Current.name) # {} /\ Current \notin job.resolved
TwoVersions ==
    /\ Working /\ Conflict
    /\ job' = None
    /\ UNCHANGED <<upstream, manifest, lock, clone>>

\* git, on the package: what its clone would know.
Fresh(c, p) == clone[c][p] = None
Clobbers(c, p) ==
    ~Fresh(c, p) /\ \E t \in Tag : clone[c][p].tags[t] \notin {0, upstream[p][t]}
Found(d) == upstream[d.name][d.at] # 0

\* The names the dependency's own manifest queues, in an order of its own.
Queued(d, n) == SetToSeq(Wants[d.name][n])

FetchOne ==
    /\ Working /\ ~Conflict /\ ~Done(Current)
    /\ Found(Current) /\ ~Clobbers(job.at, Current.name)
    /\ LET d == Current  n == upstream[d.name][d.at] IN
       /\ clone' = [clone EXCEPT ![job.at][d.name] = [tags |-> upstream[d.name], head |-> n]]
       /\ job' = [job EXCEPT !.queue = Rest \o Queued(d, n),
                             !.resolved = @ \union {d}]
    /\ UNCHANGED <<upstream, manifest, lock>>

\* No such tag, or one that moved: the clone or the update still happened as far
\* as it got, and the sweep goes on.
FetchOneFails ==
    /\ Working /\ ~Conflict /\ ~Done(Current)
    /\ ~Found(Current) \/ Clobbers(job.at, Current.name)
    /\ LET p == Current.name IN
       clone' = IF Clobbers(job.at, p) THEN clone
                ELSE [clone EXCEPT ![job.at][p] =
                        [tags |-> upstream[p],
                         head |-> IF Fresh(job.at, p) THEN 0 ELSE clone[job.at][p].head]]
    /\ job' = [job EXCEPT !.queue = Rest, !.failed = TRUE]
    /\ UNCHANGED <<upstream, manifest, lock>>

\* write_lock, unless a dependency failed: one row for each resolved name.
LocksAnyway == TRUE                                                \* a mutant of Complete
Complete == ~job.failed
WriteLock ==
    /\ job # None /\ job.queue = <<>>
    /\ lock' = IF Complete
               THEN [p \in Pkg |-> IF Resolved(p) = {} THEN None
                                   ELSE [at |-> (CHOOSE d \in Resolved(p) : TRUE).at,
                                         commit |-> clone[job.at][p].head]]
               ELSE lock
    /\ job' = None
    /\ UNCHANGED <<upstream, manifest, clone>>

Sweep == AlreadyThere \/ TwoVersions \/ FetchOne \/ FetchOneFails \/ WriteLock

\* A table of names, each once.
Manifests == {SetToSeq(D) : D \in {S \in SUBSET Dep : \A d, e \in S : d.name = e.name => d = e}}
FNext == \/ \E p \in Pkg, t \in Tag : MoveTag(p, t)
        \/ \E m \in Manifests : EditManifest(m)
        \/ \E c \in Checkout : StartFetch(c)
        \/ Sweep

FSpec == FInit /\ [][FNext]_fetchVars
FairFSpec == FSpec /\ WF_fetchVars(Sweep)
--------------------------------------------------------------------------------
FTypeOK ==
    /\ upstream \in [Pkg -> [Tag -> 0 .. Version]]
    /\ manifest \in Seq(Dep)
    /\ lock \in [Pkg -> Row \union {None}]
    /\ clone \in [Checkout -> [Pkg -> Clone \union {None}]]
    /\ job \in Job \union {None}

\* The lock is closed: with a package it holds whatever that commit's own
\* manifest wants, at the tag it wants it, and it never names a commit no
\* checkout had.
LockIsClosed ==
    \A p \in Pkg : lock[p] # None =>
        \A d \in Wants[p][lock[p].commit] :
            lock[d.name] # None /\ lock[d.name].at = d.at

\* Every fetch ends, though dependencies may want each other in a circle.
FetchEnds == job # None ~> job = None
================================================================================
