------------------------------- MODULE TryNative -------------------------------
(***************************************************************************)
(* `try` in a compiled program (the C backend's statements in              *)
(* src/cbackend.rs, the unwind state in src/runtime.c).  A `try` counts    *)
(* itself in `keal_try_depth`; a failure under one sets `keal_unwinding`   *)
(* and every frame returns a poison value until a catch label is reached;  *)
(* with none counted, keal_panic prints and exits.                         *)
(***************************************************************************)
EXTENDS Naturals, FiniteSets, SequencesExt

CONSTANTS Type, Str, NoType, ClauseLists, MaxNest,  \* as in TryInterp
          JumpsLeaveTries,  \* whether programs jump out of a try's body
          TypedOutermost    \* whether a failure may find no clause at all

VARIABLES frames,      \* one path of open blocks per C function, main first
          depth,       \* keal_try_depth
          unwinding,   \* keal_unwinding
          hasValue,    \* keal_unwind_has_value
          value,       \* keal_unwind_value, kept after it is handed over
          label,       \* whether control is at a catch label
          out          \* how the process ended

vars == <<frames, depth, unwinding, hasValue, value, label, out>>

I == INSTANCE TryInterp WITH ctl <- << >>, mode <- "run", thrown <- NoType

ASSUME ProgramsAssumption ==
    I!TypesAssumption /\ JumpsLeaveTries \in BOOLEAN /\ TypedOutermost \in BOOLEAN

TypeOK ==
    /\ frames \in Seq(Seq(I!Items)) /\ frames # << >>
    /\ depth \in Nat
    /\ unwinding \in BOOLEAN /\ hasValue \in BOOLEAN /\ label \in BOOLEAN
    /\ value \in Type \cup {NoType}
    /\ out \in {"none", "done", "uncaught"}

Init ==
    /\ frames = << << >> >> /\ depth = 0
    /\ unwinding = FALSE /\ hasValue = FALSE /\ value = NoType
    /\ label = FALSE /\ out = "none"

Path == Last(frames)
Goto(path) == frames' = [frames EXCEPT ![Len(frames)] = path]
Control(fs) == FoldLeft(LAMBDA c, path : c \o <<I!Call>> \o path, fs[1], Tail(fs))
Room == Len(Control(frames)) < MaxNest
Running == out = "none" /\ ~unwinding

TriesIn(path) == {k \in DOMAIN path : path[k].kind = "try"}

UnwindState == <<unwinding, hasValue, value, label>>

CatchesAll(b) == b.kind = "try" /\ NoType \in ToSet(b.clauses)
MayTry(cs) ==
    \/ TypedOutermost \/ CatchesAll(I!Try(cs))
    \/ \E b \in ToSet(Control(frames)) : CatchesAll(b)

EnterTry(cs) ==
    /\ Running /\ Room /\ MayTry(cs)
    /\ depth' = depth + 1
    /\ Goto(Append(Path, I!Try(cs)))
    /\ UNCHANGED <<UnwindState, out>>

EnterLoop ==
    /\ Running /\ Room
    /\ Goto(Append(Path, I!Loop))
    /\ UNCHANGED <<depth, UnwindState, out>>

CallFunction ==
    /\ Running /\ Room
    /\ frames' = Append(frames, << >>)
    /\ UNCHANGED <<depth, UnwindState, out>>

ForgetsToCountOut == UNCHANGED depth                                \* mutant
LeaveCounted      == depth' = depth - 1

EndTry ==
    /\ Running /\ Path # << >> /\ Last(Path).kind = "try"
    /\ LeaveCounted
    /\ Goto(Front(Path))
    /\ UNCHANGED <<UnwindState, out>>

EndBlock ==
    /\ Running /\ Path # << >> /\ Last(Path).kind # "try"
    /\ Goto(Front(Path))
    /\ UNCHANGED <<depth, UnwindState, out>>

\* A jump releases what its scopes own and is a C `return`, `break` or
\* `continue`: the count is not told of the tries it leaves.
MayJump(path, k) ==
    JumpsLeaveTries \/ TriesIn(path) \subseteq 1 .. k

Return ==
    /\ Running /\ Len(frames) > 1 /\ MayJump(Path, 0)
    /\ frames' = Front(frames)
    /\ UNCHANGED <<depth, UnwindState, out>>

LoopAt == I!Innermost(Path, {"loop"})

Break ==
    /\ Running /\ LoopAt > 0 /\ MayJump(Path, LoopAt)
    /\ Goto(I!Upto(Path, LoopAt - 1))
    /\ UNCHANGED <<depth, UnwindState, out>>

Continue ==
    /\ Running /\ LoopAt > 0 /\ MayJump(Path, LoopAt)
    /\ Goto(I!Upto(Path, LoopAt))
    /\ UNCHANGED <<depth, UnwindState, out>>

\* keal_panic: under a try it records and returns, otherwise it exits.
Panic ==
    /\ Running
    /\ IF depth > 0 THEN unwinding' = TRUE /\ hasValue' = FALSE
                         /\ UNCHANGED out
                    ELSE out' = "uncaught" /\ UNCHANGED <<unwinding, hasValue>>
    /\ UNCHANGED <<frames, depth, value, label>>

\* keal_throw_value: keal_panic, then a fresh unwind adopts the value.
ThrowValue(v) ==
    /\ Running
    /\ IF depth > 0 THEN /\ unwinding' = TRUE /\ hasValue' = TRUE /\ value' = v
                         /\ UNCHANGED out
                    ELSE out' = "uncaught" /\ UNCHANGED <<unwinding, hasValue, value>>
    /\ UNCHANGED <<frames, depth, label>>

TryAt == I!Innermost(Path, {"try"})
Unwinding == out = "none" /\ unwinding /\ ~label

\* KC: the catch label of the innermost try of this function.
UnwindToCatch ==
    /\ Unwinding /\ TryAt > 0
    /\ Goto(I!Upto(Path, TryAt))
    /\ LeaveCounted
    /\ label' = TRUE
    /\ UNCHANGED <<unwinding, hasValue, value, out>>

\* KUF: the function's own label, a poison `return`, the caller's check.  In
\* keal_program_run the poison is `return 0;`, which is main's status.
UnwindFrame ==
    /\ Unwinding /\ TryAt = 0
    /\ IF Len(frames) > 1 THEN frames' = Front(frames) /\ UNCHANGED out
                          ELSE out' = "done" /\ UNCHANGED frames
    /\ UNCHANGED <<depth, UnwindState>>

\* keal_unwind_is: a message-only unwind answers to String.
Thrown == IF hasValue THEN value ELSE Str
Taken == I!Taken(Last(Path).clauses, Thrown)

LastOf(js)  == I!Max(js)                                            \* mutant
FirstOf(js) == I!Min(js)

\* keal_unwind_take, keal_unwind_value_take.
Catch ==
    /\ out = "none" /\ label /\ Taken # {}
    /\ Goto(Append(Front(Path), I!Clause(Last(Path).clauses[FirstOf(Taken)])))
    /\ unwinding' = FALSE /\ hasValue' = FALSE /\ label' = FALSE
    /\ UNCHANGED <<depth, value, out>>

\* The check behind the last typed clause.
PassOn ==
    /\ out = "none" /\ label /\ Taken = {}
    /\ Goto(Front(Path))
    /\ label' = FALSE
    /\ UNCHANGED <<depth, unwinding, hasValue, value, out>>

Finish ==
    /\ Running /\ frames = << << >> >>
    /\ out' = "done"
    /\ UNCHANGED <<frames, depth, UnwindState>>

Next ==
    \/ \E cs \in ClauseLists : EnterTry(cs)
    \/ EnterLoop \/ CallFunction
    \/ EndTry \/ EndBlock \/ Return \/ Break \/ Continue
    \/ Panic \/ \E v \in Type \ {Str} : ThrowValue(v)
    \/ UnwindToCatch \/ UnwindFrame \/ Catch \/ PassOn \/ Finish
    \/ out # "none" /\ UNCHANGED vars

Spec == Init /\ [][Next]_vars

-------------------------------------------------------------------------------
\* "`try` blocks count themselves in and out" (src/runtime.c:394).
OpenTries == UNION {{<<f, k>> : k \in TriesIn(frames[f])} : f \in DOMAIN frames}
DepthCountsOpenTries ==
    out = "none" => depth = Cardinality(OpenTries) - (IF label THEN 1 ELSE 0)

\* "uncaught, it ends the program identically on all three engines": a
\* program that ends normally is not on its way out of a failure.
FailureIsTold == out = "done" => ~unwinding

\* The compiled program catches where the interpreter catches, with the same
\* clause, and ends the same way.
Flying == out = "none" /\ unwinding /\ ~label
InFlight == I!Innermost(Control(frames), {"try"})
Interp == INSTANCE TryInterp WITH
    ctl    <- IF out # "none" THEN << >>
              ELSE IF Flying THEN I!Upto(Control(frames), InFlight) ELSE Control(frames),
    mode   <- IF out # "none" \/ (Flying /\ InFlight = 0) THEN "over"
              ELSE IF unwinding THEN "clauses" ELSE "run",
    thrown <- IF unwinding /\ ~(Flying /\ InFlight = 0) THEN Thrown ELSE NoType,
    out    <- IF Flying /\ InFlight = 0 THEN "uncaught" ELSE out
ImplementsInterp == Interp!Spec
===============================================================================
