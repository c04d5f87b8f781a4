------------------------------- MODULE TryInterp -------------------------------
(***************************************************************************)
(* What `try`, `throw` and the jumps mean: the tree-walking interpreter of *)
(* src/interp.rs, which the other two engines promise to agree with.       *)
(*                                                                         *)
(* A program is where its control is: `ctl` is the stack of the calls,     *)
(* loops, `try` bodies and running `catch` clauses it is inside of.  What  *)
(* it does next -- open, leave, jump, fail -- is left open, so the model   *)
(* is every program at once.                                               *)
(***************************************************************************)
EXTENDS Naturals, Sequences, FiniteSetsExt

CONSTANTS Type,         \* what a thrown value can be an instance of
          Str,          \* String: what every built-in failure throws
          NoType,       \* the clause that names no type
          ClauseLists,  \* the clause lists programs write
          MaxNest       \* bound: calls and blocks open at once

TypesAssumption ==
    /\ Str \in Type /\ NoType \notin Type
    /\ ClauseLists \subseteq Seq(Type \cup {NoType})
    /\ MaxNest \in Nat

VARIABLES ctl,     \* open calls and blocks, innermost last
          mode,    \* "run", "clauses" (a failure has reached a try), "over"
          thrown,  \* the value in flight
          out      \* how the program ended

vars == <<ctl, mode, thrown, out>>

NoValue == NoType

Item(k, cs) == [kind |-> k, clauses |-> cs]
Call == Item("call", << >>)
Loop == Item("loop", << >>)
Try(cs) == Item("try", cs)
Clause(c) == Item("clause", <<c>>)
Items == [kind : {"call", "loop", "try", "clause"}, clauses : Seq(Type \cup {NoType})]

\* The innermost open item of one of these kinds, 0 if there is none.
Innermost(path, kinds) == Max({0} \cup {k \in DOMAIN path : path[k].kind \in kinds})
Upto(path, k) == SubSeq(path, 1, k)
Top(path) == path[Len(path)]

TypeOK ==
    /\ ctl \in Seq(Items)
    /\ mode \in {"run", "clauses", "over"}
    /\ thrown \in Type \cup {NoValue}
    /\ out \in {"none", "done", "uncaught"}

Init == ctl = << >> /\ mode = "run" /\ thrown = NoValue /\ out = "none"

Open(item) ==
    /\ mode = "run" /\ Len(ctl) < MaxNest
    /\ ctl' = Append(ctl, item)
    /\ UNCHANGED <<mode, thrown, out>>

\* A block ends after its last statement; a clause's end is its try's end.
EndBlock ==
    /\ mode = "run" /\ ctl # << >> /\ Top(ctl).kind # "call"
    /\ ctl' = Upto(ctl, Len(ctl) - 1)
    /\ UNCHANGED <<mode, thrown, out>>

\* Jumps pass through a try untouched: `Err(jump) => Err(jump)`.
Return ==
    /\ mode = "run" /\ Innermost(ctl, {"call"}) > 0
    /\ ctl' = Upto(ctl, Innermost(ctl, {"call"}) - 1)
    /\ UNCHANGED <<mode, thrown, out>>

InLoop(path) == Innermost(path, {"loop"}) > Innermost(path, {"call"})

Break ==
    /\ mode = "run" /\ InLoop(ctl)
    /\ ctl' = Upto(ctl, Innermost(ctl, {"loop"}) - 1)
    /\ UNCHANGED <<mode, thrown, out>>

Continue ==
    /\ mode = "run" /\ InLoop(ctl)
    /\ ctl' = Upto(ctl, Innermost(ctl, {"loop"}))
    /\ UNCHANGED <<mode, thrown, out>>

\* A failure goes up through every `?` to the nearest try, whatever is
\* between; with none, it is main's to report.
Raise(path, v) ==
    LET k == Innermost(path, {"try"})
    IN  /\ ctl' = Upto(path, k)
        /\ IF k = 0 THEN mode' = "over" /\ out' = "uncaught" /\ thrown' = NoValue
                    ELSE mode' = "clauses" /\ thrown' = v /\ UNCHANGED out

Throw(v) == mode = "run" /\ Raise(ctl, v)

\* The clauses in order: one that names a type takes that type, one that
\* names none takes anything.
Takes(c, v) == c = NoType \/ c = v
Taken(cs, v) == {j \in DOMAIN cs : Takes(cs[j], v)}

Catch ==
    /\ mode = "clauses" /\ Taken(Top(ctl).clauses, thrown) # {}
    /\ LET cs == Top(ctl).clauses
       IN  ctl' = Append(Upto(ctl, Len(ctl) - 1), Clause(cs[Min(Taken(cs, thrown))]))
    /\ mode' = "run" /\ thrown' = NoValue
    /\ UNCHANGED out

\* Nothing matched: it goes on unwinding, unchanged.
PassOn ==
    /\ mode = "clauses" /\ Taken(Top(ctl).clauses, thrown) = {}
    /\ Raise(Upto(ctl, Len(ctl) - 1), thrown)

Finish ==
    /\ mode = "run" /\ ctl = << >>
    /\ mode' = "over" /\ out' = "done"
    /\ UNCHANGED <<ctl, thrown>>

Next ==
    \/ Open(Call) \/ Open(Loop) \/ \E cs \in ClauseLists : Open(Try(cs))
    \/ EndBlock \/ Return \/ Break \/ Continue \/ Finish
    \/ \E v \in Type : Throw(v)
    \/ Catch \/ PassOn
    \/ mode = "over" /\ UNCHANGED vars

Spec == Init /\ [][Next]_vars
===============================================================================
