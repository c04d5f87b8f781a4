-------------------------------- MODULE MCTools --------------------------------
(* The tools around the compiler beside each other: runCommand, the loader,   *)
(* `keal fetch` and `keal test`.  A run is one tool's, and the others'        *)
(* variables stay as one state they may begin in; the paths to normalise are  *)
(* states of their own.                                                       *)
EXTENDS RunCommand, Loader, Fetch, TestRunner, TLC

CONSTANTS a, b, v1, v2   \* two packages, two tags

VARIABLE part

all == <<part, vars, loaderVars, fetchVars, testVars>>

\* b wants a back; its second commit wants another version of it.
MCWants == (a :> [n \in 0 .. 2 |-> IF n = 2 THEN {[name |-> b, at |-> v1]} ELSE {}])
        @@ (b :> [n \in 0 .. 2 |-> {[name |-> a, at |-> IF n = 2 THEN v2 ELSE v1]}])

Does(o, e, n) == [out |-> o, err |-> e, ends |-> n]
MCBuilds == {Does(0, 0, "ok"), Does(0, 2, "failure"), Does(0, 2, "never")}
MCRuns == {Does(0, 0, "ok"), Does(2, 2, "ok"), Does(2, 0, "failure"), Does(0, 2, "failure"),
           Does(2, 0, "never")}
MCPrograms == ("vm" :> MCRuns) @@ ("build" :> MCBuilds) @@ ("native" :> MCRuns)

QuietProgram == [c \in {"vm", "build", "native"} |-> Does(0, 0, "ok")]

MCCommands == <<"vm", "build", "native">>

ToolsInit ==
    /\ part \in {"command", "loader", "paths", "fetch", "test"}
    /\ part # "command" => left = [c \in Call |-> 0]
    /\ Init
    /\ part # "loader" => readable = File /\ imports = [f \in File |-> <<>>]
    /\ part # "paths" => path = <<>>
    /\ LInit
    /\ part # "fetch" => upstream = [p \in {a, b} |-> [t \in {v1, v2} |-> 0]]
    /\ FInit
    /\ part # "test" => update = FALSE /\ snapshot = Missing /\ program = QuietProgram
    /\ TInit

Calls(A) == part = "command" /\ A /\ UNCHANGED <<part, loaderVars, fetchVars, testVars>>
Loads(A) == part = "loader" /\ A /\ UNCHANGED <<part, vars, fetchVars, testVars>>
Fetches(A) == part = "fetch" /\ A /\ UNCHANGED <<part, vars, loaderVars, testVars>>
Tests(A) == part = "test" /\ A /\ UNCHANGED <<part, vars, loaderVars, fetchVars>>

\* Each tool's steps, and its fairness over them.
ToolsNext == \/ Calls(Next) \/ Loads(LNext)
             \/ Fetches(FNext) \/ Tests(TNext)
ToolsSpec ==
    /\ ToolsInit /\ [][ToolsNext]_all
    /\ \A c \in Call : WF_all(Calls(ParentStep(c))) /\ WF_all(Calls(KidStep(c)))
    /\ WF_all(Fetches(Sweep))
    /\ WF_all(Tests(RunnerStep)) /\ WF_all(Tests(ChildStep))
    /\ WF_all(Tests(HelperEnds)) /\ WF_all(Tests(Clock))

\* The tools come to an end: a call of runCommand returns, a fetch settles on a
\* lock or an error, and every round of the test runner has an outcome.
ToolsEnd == CallsReturn /\ FetchEnds /\ (part = "test" => RunnerReturns)
================================================================================
