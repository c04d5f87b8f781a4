--------------------------------- MODULE TryVm ---------------------------------
(***************************************************************************)
(* `try` on the bytecode VM (src/compiler.rs, src/vm.rs).  The compiler    *)
(* knows which blocks an instruction is in, so a frame's instruction       *)
(* pointer is the path of its open blocks; what the machine keeps is a     *)
(* stack of handlers, pushed and popped by instructions, and the jumps     *)
(* compile to the pops they owe.  Built-ins that call back run a nested    *)
(* `execute`, which may only catch what belongs to its own frames.         *)
(***************************************************************************)
EXTENDS Naturals, FiniteSets, SequencesExt

CONSTANTS Type, Str, NoType, ClauseLists, MaxNest   \* as in TryInterp

VARIABLES frames,    \* one path of open blocks per frame, the running one last
          handlers,  \* Vm.handlers: [frames_len, target]
          depths,    \* the `depth` of each `execute` running, innermost last
          mode,      \* "run", "flying" (Err), "clauses", "over"
          thrown, out

vars == <<frames, handlers, depths, mode, thrown, out>>

I == INSTANCE TryInterp WITH ctl <- << >>   \* its operators on paths

Handler == [frames_len : Nat \ {0}, target : Seq(I!Items)]

TypeOK ==
    /\ frames \in Seq(Seq(I!Items))
    /\ handlers \in Seq(Handler)
    /\ depths \in Seq(Nat) /\ \A k \in DOMAIN depths : depths[k] < Len(frames)
    /\ mode \in {"run", "flying", "clauses", "over"}
    /\ thrown \in Type \cup {NoType}
    /\ out \in {"none", "done", "uncaught"}

Init ==
    /\ frames = << << >> >> /\ handlers = << >> /\ depths = <<0>>
    /\ mode = "run" /\ thrown = NoType /\ out = "none"

Path == Last(frames)
Goto(path) == frames' = [frames EXCEPT ![Len(frames)] = path]
\* The program's control as the interpreter sees it.
Control(fs) == FoldLeft(LAMBDA c, path : c \o <<I!Call>> \o path, fs[1], Tail(fs))
Room == Len(Control(frames)) < MaxNest

TriesIn(path) == {k \in DOMAIN path : path[k].kind = "try"}

EnterTry(cs) ==
    /\ mode = "run" /\ Room
    /\ Goto(Append(Path, I!Try(cs)))
    /\ handlers' = Append(handlers, [frames_len |-> Len(frames),
                                     target |-> Append(Path, I!Try(cs))])
    /\ UNCHANGED <<depths, mode, thrown, out>>

EnterLoop ==
    /\ mode = "run" /\ Room
    /\ Goto(Append(Path, I!Loop))
    /\ UNCHANGED <<handlers, depths, mode, thrown, out>>

\* PopHandler `n` times.
PopHandlers(n) == handlers' = SubSeq(handlers, 1, Len(handlers) - n)

EndTry ==
    /\ mode = "run" /\ Path # << >> /\ Last(Path).kind = "try"
    /\ Goto(Front(Path))
    /\ PopHandlers(1)
    /\ UNCHANGED <<depths, mode, thrown, out>>

EndBlock ==
    /\ mode = "run" /\ Path # << >> /\ Last(Path).kind # "try"
    /\ Goto(Front(Path))
    /\ UNCHANGED <<handlers, depths, mode, thrown, out>>

CallFunction ==
    /\ mode = "run" /\ Room
    /\ frames' = Append(frames, << >>)
    /\ UNCHANGED <<handlers, depths, mode, thrown, out>>

\* A built-in calls a function value: call_compiled, run_frames, execute.
CallBack ==
    /\ mode = "run" /\ Room
    /\ depths' = Append(depths, Len(frames))
    /\ frames' = Append(frames, << >>)
    /\ UNCHANGED <<handlers, mode, thrown, out>>

\* A `return` out of a try leaves its handlers behind; they die with the frame.
Outlive(n) == {i \in DOMAIN handlers : handlers[i].frames_len <= n}
FrameHandlersDie(n) == handlers' = SubSeq(handlers, 1, I!Max({0} \cup Outlive(n)))

ExecuteReturns(n) == n = Last(depths)

Return ==
    /\ mode = "run" /\ Len(frames) > 1
    /\ frames' = Front(frames)
    /\ FrameHandlersDie(Len(frames) - 1)
    /\ depths' = IF ExecuteReturns(Len(frames) - 1) THEN Front(depths) ELSE depths
    /\ UNCHANGED <<mode, thrown, out>>

\* pop_handlers_to_loop: one pop per try entered since the loop began.
Owed(path, k) == Cardinality({i \in TriesIn(path) : i > k})

LoopAt == I!Innermost(Path, {"loop"})

Break ==
    /\ mode = "run" /\ LoopAt > 0
    /\ Goto(I!Upto(Path, LoopAt - 1))
    /\ PopHandlers(Owed(Path, LoopAt))
    /\ UNCHANGED <<depths, mode, thrown, out>>

Continue ==
    /\ mode = "run" /\ LoopAt > 0
    /\ Goto(I!Upto(Path, LoopAt))
    /\ PopHandlers(Owed(Path, LoopAt))
    /\ UNCHANGED <<depths, mode, thrown, out>>

Throw(v) ==
    /\ mode = "run"
    /\ mode' = "flying" /\ thrown' = v
    /\ UNCHANGED <<frames, handlers, depths, out>>

OwnHandler == handlers # << >> /\ Last(handlers).frames_len > Last(depths)

\* execute's loop: three truncations and a jump.
Unwind ==
    /\ mode = "flying" /\ OwnHandler
    /\ LET h == Last(handlers)
       IN  frames' = Append(SubSeq(frames, 1, h.frames_len - 1), h.target)
    /\ handlers' = Front(handlers)
    /\ mode' = "clauses"
    /\ UNCHANGED <<depths, thrown, out>>

\* run_frames: a nested execute with no handler of its own truncates to its
\* depth and fails the built-in that called it.
LeaveExecute ==
    /\ mode = "flying" /\ ~OwnHandler /\ Len(depths) > 1
    /\ frames' = SubSeq(frames, 1, Last(depths))
    /\ depths' = Front(depths)
    /\ UNCHANGED <<handlers, mode, thrown, out>>

Uncaught ==
    /\ mode = "flying" /\ ~OwnHandler /\ Len(depths) = 1
    /\ mode' = "over" /\ out' = "uncaught" /\ thrown' = NoType
    /\ UNCHANGED <<frames, handlers, depths>>

Untested == DOMAIN Last(Path).clauses                               \* mutant
Taken == I!Taken(Last(Path).clauses, thrown)

\* Dup, IsType, JumpIfFalse, clause after clause.
Catch ==
    /\ mode = "clauses" /\ Taken # {}
    /\ Goto(Append(Front(Path), I!Clause(Last(Path).clauses[I!Min(Taken)])))
    /\ mode' = "run" /\ thrown' = NoType
    /\ UNCHANGED <<handlers, depths, out>>

\* The Throw behind the last clause.
PassOn ==
    /\ mode = "clauses" /\ Taken = {}
    /\ Goto(Front(Path))
    /\ mode' = "flying"
    /\ UNCHANGED <<handlers, depths, thrown, out>>

Finish ==
    /\ mode = "run" /\ frames = << << >> >>
    /\ mode' = "over" /\ out' = "done"
    /\ UNCHANGED <<frames, handlers, depths, thrown>>

Next ==
    \/ \E cs \in ClauseLists : EnterTry(cs)
    \/ EnterLoop \/ CallFunction \/ CallBack
    \/ EndTry \/ EndBlock \/ Return \/ Break \/ Continue
    \/ \E v \in Type : Throw(v)
    \/ Unwind \/ LeaveExecute \/ Uncaught \/ Catch \/ PassOn \/ Finish
    \/ mode = "over" /\ UNCHANGED vars

Spec == Init /\ [][Next]_vars

-------------------------------------------------------------------------------
\* The handlers the machine holds are the try bodies the program is in, each
\* with the frame it was entered in: what three kinds of instruction and two
\* kinds of unwinding push and pop never drifts from the source's nesting.
OpenTries == UNION {{<<f, k>> : k \in TriesIn(frames[f])} : f \in DOMAIN frames}
AtClauses(f, k) == mode = "clauses" /\ f = Len(frames) /\ k = Len(Path)
HandlersAreOpenTries ==
    mode # "over" =>
    {<<h.frames_len, Len(h.target)>> : h \in ToSet(handlers)}
        = {ft \in OpenTries : ~AtClauses(ft[1], ft[2])}

\* The VM catches where the interpreter catches, with the same clause, and
\* ends the same way.
InFlight == {k \in DOMAIN Control(frames) : Control(frames)[k].kind = "try"}
Interp == INSTANCE TryInterp WITH
    ctl  <- CASE mode = "flying" -> I!Upto(Control(frames), I!Innermost(Control(frames), {"try"}))
              [] mode = "over" -> << >>
              [] OTHER -> Control(frames),
    mode <- CASE mode = "flying" -> IF InFlight = {} THEN "over" ELSE "clauses"
              [] OTHER -> mode,
    thrown <- IF mode = "flying" /\ InFlight = {} THEN NoType ELSE thrown,
    out  <- IF mode = "flying" /\ InFlight = {} THEN "uncaught" ELSE out
ImplementsInterp == Interp!Spec
===============================================================================
