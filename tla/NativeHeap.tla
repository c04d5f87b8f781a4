------------------------------ MODULE NativeHeap -------------------------------
(* Objects in a compiled program: the two reference counts the C backend      *)
(* emits for every class (src/src/cbackend.rs, class_functions_named), the    *)
(* releases it writes after every statement, and the queue of pending deinits *)
(* of src/src/runtime.c.                                                      *)
(*                                                                            *)
(* Every object has one strong and one `weak` field, in the order the release *)
(* function visits them.  A release is a C call that calls others, so the     *)
(* pending C statements are a stack and each step executes one: what a call   *)
(* deep in a cascade frees is freed under the callers.                        *)
EXTENDS Naturals, Sequences, FiniteSets, SequencesExt

CONSTANTS
    Obj,       \* the objects a run may make; an address is not used again
    Finalized, \* those of them whose class declares a deinit
    Local,     \* the names of a block, in declaration order
    Global,    \* names that outlive every block
    Null

ASSUME HeapAssumption ==
    /\ Null \notin Obj
    /\ Finalized \subseteq Obj
    /\ Local \in Seq(Range(Local)) /\ IsInjective(Local)
    /\ IsFiniteSet(Global) /\ Range(Local) \intersect Global = {}

Name == Range(Local) \union Global

VARIABLES
    heap,      \* [Obj -> the object's struct, and what malloc knows of it]
    name,      \* [Name -> object or Null]
    calls,     \* the C statements still to execute, innermost call first
    queue,     \* keal_drops_head..tail
    self,      \* the object whose deinit keal_drain_drops called, or Null
    sweeping   \* a boundary was reached and keal_drain_drops has not returned

vars == <<heap, name, calls, queue, self, sweeping>>

Unmade == [mem |-> "unmade", rc |-> 0, wc |-> 0, kdropped |-> FALSE,
           strong |-> Null, weak |-> Null]

Pointer == Obj \union {Null}
Op == [op: {"release", "release_strong_of", "weak_release_of", "weak_release"}, obj: Pointer]
C(op, o) == [op |-> op, obj |-> o]
Release(o) == C("release", o)
WeakRelease(o) == C("weak_release", o)

Init == /\ heap = [o \in Obj |-> Unmade]
        /\ name = [x \in Name |-> Null]
        /\ calls = <<>> /\ queue = <<>>
        /\ self = Null /\ sweeping = FALSE
--------------------------------------------------------------------------------
(* The emitted retain, release, weak_retain, weak_release and weak_get.       *)

\* KEAL_RC_BUMP on a heap, none on a null pointer.
Retained(h, o) == IF o = Null THEN h ELSE [h EXCEPT ![o].rc = @ + 1]
WeakRetained(h, o) == IF o = Null THEN h ELSE [h EXCEPT ![o].wc = @ + 1]

\* A weak field reads as its target until the strong count is zero.
WeakGet(o) == IF o = Null \/ heap[o].rc = 0 THEN Null ELSE o

\* The first death only queues, and resurrects to one reference.
EveryTime(o) == o \in Finalized                        \* a mutant of QueuesDeinit
QueuesDeinit(o) == o \in Finalized /\ ~heap[o].kdropped
Resurrected(o) == [heap EXCEPT ![o].kdropped = TRUE, ![o].rc = 1]

\* The last death: the object holds a weak reference to itself across the
\* releases of its fields and lets it go afterwards.
Unguarded(o) == [heap EXCEPT ![o].rc = 0]             \* a mutant of SelfGuard
SelfGuard(o) == [heap EXCEPT ![o].rc = 0, ![o].wc = @ + 1]
StrongOnly(o) == <<C("release_strong_of", o), WeakRelease(o)>>
WeakOnly(o) == <<C("weak_release_of", o), WeakRelease(o)>>
FieldReleases(o) == <<C("release_strong_of", o),
                      C("weak_release_of", o), WeakRelease(o)>>

ExecRelease(o, rest) ==
    IF heap[o].rc > 1 THEN
        /\ heap' = [heap EXCEPT ![o].rc = @ - 1]
        /\ calls' = rest
        /\ UNCHANGED queue
    ELSE IF QueuesDeinit(o) THEN
        /\ heap' = Resurrected(o)
        /\ queue' = Append(queue, o)
        /\ calls' = rest
    ELSE
        /\ heap' = SelfGuard(o)
        /\ calls' = FieldReleases(o) \o rest
        /\ UNCHANGED queue

\* The header goes with the last weak reference, if the object is dead.
ExecWeakRelease(o, rest) ==
    /\ heap' = [heap EXCEPT ![o].wc = @ - 1,
                            ![o].mem = IF heap[o].wc = 1 /\ heap[o].rc = 0
                                       THEN "freed" ELSE @]
    /\ calls' = rest
    /\ UNCHANGED queue

\* The next C statement; a release of a null pointer returns at once.
Exec == /\ calls # <<>>
        /\ LET c == Head(calls) rest == Tail(calls) IN
           IF c.obj = Null THEN calls' = rest /\ UNCHANGED <<heap, queue>> ELSE
           CASE c.op = "release" -> ExecRelease(c.obj, rest)
             [] c.op = "weak_release" -> ExecWeakRelease(c.obj, rest)
             [] c.op = "release_strong_of" ->
                    /\ calls' = <<Release(heap[c.obj].strong)>> \o rest
                    /\ UNCHANGED <<heap, queue>>
             [] c.op = "weak_release_of" ->
                    /\ calls' = <<WeakRelease(heap[c.obj].weak)>> \o rest
                    /\ UNCHANGED <<heap, queue>>
        /\ UNCHANGED <<name, self, sweeping>>
--------------------------------------------------------------------------------
(* Statements of the program.  One runs when the C statements of the last are *)
(* done and either no sweep is on or the sweep is inside a deinit.  A value   *)
(* it reads is retained into a temporary that the boundary releases: the      *)
(* value outlives what the statement releases, and where it ends in a name or *)
(* a field its temporary changes nothing and is left out.  The boundary       *)
(* sweeps; inside a deinit the nested keal_drain_drops returns at once.       *)

Steady == calls = <<>> /\ (sweeping => self # Null)

\* The objects the statement can name: its variables and, in a deinit, `this`.
Named == {name[x] : x \in Name} \union {self}

\* The boundary a statement ends at, `owed` being the releases before it.
EndsStatement(owed) ==
    /\ calls' = owed
    /\ sweeping' = TRUE
    /\ UNCHANGED <<queue, self>>

\* `x = v`: x retains v, whose temporary held it, before x's old value goes.
Assigned(h, x, v) ==
    /\ heap' = Retained(h, v)
    /\ name' = [name EXCEPT ![x] = v]
    /\ EndsStatement(<<Release(name[x])>>)

Copy(x, v) == /\ Steady
              /\ v \in Named
              /\ Assigned(heap, x, v)

\* keal_alloc and `self->rc = 1`: the reference of the statement's temporary.
Constructed(o) == [heap EXCEPT ![o] = [Unmade EXCEPT !.mem = "live", !.rc = 1]]

\* `x = C()`: the temporary's reference becomes x's.
New(x, o) ==
    /\ Steady
    /\ heap[o].mem = "unmade"
    /\ heap' = Constructed(o)
    /\ name' = [name EXCEPT ![x] = o]
    /\ EndsStatement(<<Release(name[x])>>)

\* `C()` as a statement, whose temporary the boundary releases; and a field
\* initializer that panics, whose unwind label releases the zeroed instance.
NewUnnamed(o) ==
    /\ Steady
    /\ heap[o].mem = "unmade"
    /\ heap' = Constructed(o)
    /\ EndsStatement(<<Release(o)>>)
    /\ UNCHANGED name

\* `a.strong = v`
Store(a, v) ==
    /\ Steady
    /\ a \in Named \ {Null} /\ v \in Named
    /\ heap' = Retained([heap EXCEPT ![a].strong = v], v)
    /\ EndsStatement(<<Release(heap[a].strong)>>)
    /\ UNCHANGED name

\* `a.weak = v`: the second count moves, from the old target to the new one.
StoreWeak(a, v) ==
    /\ Steady
    /\ a \in Named \ {Null} /\ v \in Named
    /\ heap' = WeakRetained([heap EXCEPT ![a].weak = v], v)
    /\ EndsStatement(<<WeakRelease(heap[a].weak)>>)
    /\ UNCHANGED name

Load(x, a) == /\ Steady
              /\ a \in Named \ {Null}
              /\ Assigned(heap, x, heap[a].strong)

LoadWeak(x, a) == /\ Steady
                  /\ a \in Named \ {Null}
                  /\ Assigned(heap, x, WeakGet(heap[a].weak))

\* The end of a block releases its names, youngest first.
CloseScope ==
    /\ Steady
    /\ self = Null
    /\ \E x \in Range(Local) : name[x] # Null
    /\ name' = [x \in Name |-> IF x \in Global THEN name[x] ELSE Null]
    /\ EndsStatement([i \in 1..Len(Local) |-> Release(name[Reverse(Local)[i]])])
    /\ UNCHANGED heap

Statement ==
    \/ \E x \in Name, v \in Named : Copy(x, v)
    \/ \E x \in Name, o \in Obj : New(x, o)
    \/ \E o \in Obj : NewUnnamed(o)
    \/ \E a, v \in Named : Store(a, v) \/ StoreWeak(a, v)
    \/ \E x \in Name, a \in Named : Load(x, a) \/ LoadWeak(x, a)
    \/ CloseScope
--------------------------------------------------------------------------------
(* keal_drain_drops at the boundary.                                          *)

Swept == sweeping /\ calls = <<>> /\ self = Null

StartDeinit ==
    /\ Swept
    /\ queue # <<>>
    /\ self' = Head(queue)
    /\ queue' = Tail(queue)
    /\ UNCHANGED <<heap, name, calls, sweeping>>

\* The dropper releases the object it ran the deinit of, and a panic the deinit
\* let out stops the sweep.
EndDeinit(panics) ==
    /\ self # Null
    /\ calls = <<>>
    /\ calls' = <<Release(self)>>
    /\ self' = Null
    /\ sweeping' = ~panics
    /\ UNCHANGED <<heap, name, queue>>

EndSweep == /\ Swept
            /\ queue = <<>>
            /\ sweeping' = FALSE
            /\ UNCHANGED <<heap, name, calls, queue, self>>

Next == \/ Exec
        \/ Statement
        \/ StartDeinit
        \/ \E panics \in BOOLEAN : EndDeinit(panics)
        \/ EndSweep

Spec == Init /\ [][Next]_vars
--------------------------------------------------------------------------------
Made == {o \in Obj : heap[o].mem # "unmade"}

TypeOK ==
    /\ heap \in [Obj -> [mem: {"unmade", "live", "freed"}, rc: Nat, wc: Nat,
                         kdropped: BOOLEAN,
                         strong: Pointer, weak: Pointer]]
    /\ name \in [Name -> Pointer]
    /\ calls \in Seq(Op)
    /\ queue \in Seq(Obj)
    /\ self \in Pointer
    /\ sweeping \in BOOLEAN

\* The C statements of one kind that wait for one object.
Waiting(op, o) == {i \in DOMAIN calls : calls[i] = C(op, o)}

\* An object's fields hold what they name until its release reaches them.
Holds(p, op) == heap[p].rc > 0 \/ Waiting(op, p) # {}

\* Who owns an object: names, fields, the queue and the sweep, and the
\* releases that are owed.
NamedBy(o) == {x \in Name : name[x] = o}
HeldBy(o) == {p \in Made : heap[p].strong = o /\ Holds(p, "release_strong_of")}
QueuedAt(o) == {i \in DOMAIN queue : queue[i] = o}
Owners(o) ==
    Cardinality(NamedBy(o)) + Cardinality(HeldBy(o)) + Cardinality(QueuedAt(o))
    + (IF self = o THEN 1 ELSE 0) + Cardinality(Waiting("release", o))

WeakHeldBy(o) == {p \in Made : heap[p].weak = o /\ Holds(p, "weak_release_of")}
WeakOwners(o) == Cardinality(WeakHeldBy(o)) + Cardinality(Waiting("weak_release", o))

\* At every C statement of every cascade, an object's strong count is the number
\* of its owners: nothing is released twice, and nothing owned is forgotten
\* (the KEAL_RC_BUMP and KEAL_RC_DROP of every statement, and the reference a
\* queued object is resurrected to).
StrongCountIsOwners == \A o \in Made : heap[o].rc = Owners(o)

\* The second count is the number of weak fields that still name the object
\* and of weak releases owed, its own across its field releases included.
WeakCountIsOwners == \A o \in Made : heap[o].wc = WeakOwners(o)

\* Both counts of an object are those of its owners, at every C statement of
\* every cascade.
CountsAreOwners == StrongCountIsOwners /\ WeakCountIsOwners

\* No C statement to come, no name, no field and no queue entry points at
\* freed memory: a neighbour whose weak back edge is the last one never frees
\* a header its caller is still going to read.
NoUseAfterFree ==
    LET Pointed == {calls[i].obj : i \in DOMAIN calls}
                   \union {name[x] : x \in Name} \union Range(queue) \union {self}
                   \union {heap[p].strong : p \in {q \in Made : Holds(q, "release_strong_of")}}
                   \union {heap[p].weak : p \in {q \in Made : Holds(q, "weak_release_of")}}
    IN \A o \in Pointed \ {Null} : heap[o].mem = "live"

\* Between statements with no deinit pending, an object is alive only if a
\* name or a strong cycle leads to it, and a dead one keeps its header only
\* for a weak field that names it: what is not a cycle is freed at once.
Alive == {o \in Made : heap[o].rc > 0}
\* What strong fields of the living lead to from S: the least set around S that
\* they do not lead out of.
Led(T) == \A p \in T \intersect Alive : heap[p].strong \in T \union {Null}
Reach(S) == {o \in Obj : \A T \in SUBSET Obj : S \subseteq T \union {Null} /\ Led(T) => o \in T}
OnCycle == {o \in Alive : o \in Reach({heap[o].strong})}
OnlyCyclesLeak ==
    calls = <<>> /\ queue = <<>> /\ self = Null =>
        \A o \in Made :
            \/ heap[o].mem = "freed"
            \/ o \in Alive /\ o \in Reach({name[x] : x \in Name} \union OnCycle)
            \/ o \notin Alive /\ \E p \in Alive : heap[p].weak = o

\* The counts implement what docs/drop.md promises of deinit: in the order of
\* the deaths, one at a time, once, and before the object goes.
Started == {o \in Made : heap[o].kdropped} \ Range(queue)
Lifetime == INSTANCE Lifetimes
    WITH born <- Made, hooked <- Made \intersect Finalized,
         pending <- queue, running <- self, ran <- Started,
         gone <- {o \in Made : heap[o].rc = 0}
DeinitsAsPromised == Lifetime!Spec
================================================================================
