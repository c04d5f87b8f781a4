------------------------------- MODULE Lifetimes -------------------------------
(* What docs/drop.md promises of `deinit`, whatever the engine counts: an     *)
(* object whose last reference dies waits its turn, deinits run one at a time *)
(* in the order of the deaths, each object's at most once, and an object that *)
(* declares one is never gone before it ran.                                  *)
EXTENDS Naturals, Sequences, SequencesExt

CONSTANTS Obj, Null

VARIABLES
    born,      \* the objects made so far
    hooked,    \* those of them that declare a deinit
    pending,   \* the objects that died and whose deinit has not started
    running,   \* the object whose deinit runs, Null outside of one
    ran,       \* the objects whose deinit started
    gone       \* the objects whose fields were released

vars == <<born, hooked, pending, running, ran, gone>>

Init == /\ born = {} /\ hooked = {} /\ pending = <<>> /\ running = Null
        /\ ran = {} /\ gone = {}

Born(o) == /\ o \notin born
           /\ born' = born \union {o}
           /\ hooked' \in {hooked, hooked \union {o}}
           /\ UNCHANGED <<pending, running, ran, gone>>

\* The first death of an object that declares a deinit.
Dies(o) == /\ o \in hooked \ (Range(pending) \union ran \union gone)
           /\ pending' = Append(pending, o)
           /\ UNCHANGED <<born, hooked, running, ran, gone>>

\* The oldest death is the next deinit.
Runs == /\ running = Null
        /\ pending # <<>>
        /\ running' = Head(pending)
        /\ pending' = Tail(pending)
        /\ ran' = ran \union {Head(pending)}
        /\ UNCHANGED <<born, hooked, gone>>

Ends == /\ running # Null
        /\ running' = Null
        /\ UNCHANGED <<born, hooked, pending, ran, gone>>

\* Gone for good: with its deinit behind it, or with none to run.
Goes(o) == /\ o \in born \ gone
           /\ o \in hooked => o \in ran
           /\ o # running
           /\ gone' = gone \union {o}
           /\ UNCHANGED <<born, hooked, pending, running, ran>>

Next == \/ Runs
        \/ Ends
        \/ \E o \in Obj : Born(o) \/ Dies(o) \/ Goes(o)

Spec == Init /\ [][Next]_vars
================================================================================
