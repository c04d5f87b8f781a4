------------------------------- MODULE TestRunner ------------------------------
(* `keal test` on one file (src/src/testrun.rs): each engine's command is run *)
(* under a deadline with its two streams drained by threads of their own      *)
(* (bounded, drain), the answers are compared (check_one), and `--update`     *)
(* writes the snapshot down.  A round is one `keal test`; a second one, which *)
(* does not update, follows a round that wrote a snapshot.                    *)
(*                                                                            *)
(* A text is its length.  A command is what it writes to each stream and how  *)
(* it ends, the same in every round; `keal build` leaves the C compiler it    *)
(* started holding the same streams when it is killed (nativebuild.rs).       *)
EXTENDS Naturals, Sequences, SequencesExt

CONSTANTS
    Commands,    \* the commands of a round, in order; "build" is not an engine
    Texts,       \* lengths a command writes to a stream
    Programs,    \* [Range(Commands) -> what each may be: [out, err, ends]]
    PipeSize,    \* what a pipe holds
    Missing      \* no snapshot, no verdict

Output == {"out", "err"}
Command == Range(Commands)
Behaviour == [out: Texts, err: Texts, ends: {"ok", "failure", "never"}]

\* What is built is run.
ASSUME TestAssumption ==
    /\ Commands \in Seq(Command) /\ Len(Commands) > 0 /\ Commands[Len(Commands)] # "build"
    /\ Texts \subseteq Nat /\ Missing \notin Texts /\ Missing \notin {"pass", "fail"}
    /\ Programs \in [Command -> SUBSET Behaviour]
    /\ PipeSize \in Nat

VARIABLES
    program,    \* [Command -> [out, err, ends]], ends "ok", "failure" or "never"
    snapshot,   \* the .expected file's text, or Missing
    update,     \* --update
    round,      \* rounds begun
    at,         \* where the runner is
    step,       \* the command it is at
    results,    \* the engines' answers so far
    child,      \* "none", "runs", "ended", "killed"
    helper,     \* the C compiler of a build still runs
    unsaid,     \* [Output -> what the child has yet to write]
    pipe,       \* [Output -> what it holds]
    drained,    \* [Output -> what its thread has read]
    draining,   \* the threads that have not seen the end of their stream
    late,       \* the deadline has passed
    verdict     \* "pass", "fail" or Missing

streams == <<unsaid, pipe, drained, draining>>
process == <<child, helper, late, streams>>
fixed == <<program, update>>
testVars == <<fixed, snapshot, round, at, step, results, process, verdict>>

TInit ==
    /\ program \in [Command -> UNION Range(Programs)]
    /\ \A c \in Command : program[c] \in Programs[c]
    /\ snapshot \in Texts \union {Missing}
    /\ update \in BOOLEAN
    /\ round = 1 /\ at = "spawn" /\ step = 1 /\ results = <<>>
    /\ child = "none" /\ helper = FALSE /\ late = FALSE
    /\ unsaid = [s \in Output |-> 0] /\ pipe = unsaid /\ drained = unsaid
    /\ draining = {}
    /\ verdict = Missing

Running == Commands[step]
--------------------------------------------------------------------------------
(* bounded                                                                    *)

Spawn ==
    /\ at = "spawn"
    /\ at' = "wait"
    /\ child' = "runs" /\ late' = FALSE
    /\ helper' \in (IF Running = "build" THEN BOOLEAN ELSE {FALSE})
    /\ unsaid' = [s \in Output |-> program[Running][s]]
    /\ pipe' = [s \in Output |-> 0] /\ drained' = pipe'
    /\ draining' = Output
    /\ UNCHANGED <<fixed, snapshot, round, step, results, verdict>>

\* The command runs.
ChildWrites(s) ==
    /\ child = "runs" /\ unsaid[s] > 0 /\ pipe[s] < PipeSize
    /\ unsaid' = [unsaid EXCEPT ![s] = @ - 1]
    /\ pipe' = [pipe EXCEPT ![s] = @ + 1]
    /\ UNCHANGED <<fixed, snapshot, round, at, step, results, child, helper, drained, draining, late, verdict>>

ChildEnds ==
    /\ child = "runs" /\ program[Running].ends # "never"
    /\ \A s \in Output : unsaid[s] = 0
    /\ ~helper
    /\ child' = "ended"
    /\ UNCHANGED <<fixed, snapshot, round, at, step, results, helper, streams, late, verdict>>

HelperEnds ==
    /\ helper /\ helper' = FALSE
    /\ UNCHANGED <<fixed, snapshot, round, at, step, results, child, streams, late, verdict>>

\* The drain threads: read_to_end.
Drain(s) ==
    /\ s \in draining /\ pipe[s] > 0
    /\ drained' = [drained EXCEPT ![s] = @ + pipe[s]]
    /\ pipe' = [pipe EXCEPT ![s] = 0]
    /\ UNCHANGED <<fixed, snapshot, round, at, step, results, child, helper, unsaid, draining, late, verdict>>

StreamEnds(s) == pipe[s] = 0 /\ child # "runs" /\ ~helper
DrainEnds(s) ==
    /\ s \in draining /\ StreamEnds(s)
    /\ draining' = draining \ {s}
    /\ UNCHANGED <<fixed, snapshot, round, at, step, results, child, helper, unsaid, pipe, drained, late, verdict>>

Clock ==
    /\ at = "wait" /\ ~late
    /\ late' = TRUE
    /\ UNCHANGED <<fixed, snapshot, round, at, step, results, child, helper, streams, verdict>>

\* try_wait: ended; or still running, and the deadline asked for next.
WaitReturns ==
    /\ at = "wait" /\ child = "ended"
    /\ at' = "join"
    /\ UNCHANGED <<fixed, snapshot, round, step, results, process, verdict>>

PastDeadline == late
WaitExpires ==
    /\ at = "wait" /\ child = "runs" /\ PastDeadline
    /\ at' = "kill"
    /\ UNCHANGED <<fixed, snapshot, round, step, results, process, verdict>>

\* It may have ended since; it is reported as stuck all the same.
Kill ==
    /\ at = "kill"
    /\ at' = "join stuck"
    /\ child' = IF child = "runs" THEN "killed" ELSE child
    /\ UNCHANGED <<fixed, snapshot, round, step, results, helper, streams, late, verdict>>

Joined == draining = {}

Ran == [ok: BOOLEAN, stuck: BOOLEAN, out: Nat, err: Nat]
Answer(ran) == IF ran.ok THEN ran.out ELSE ran.err

\* Both threads joined, the command's answer is added to the others'; a build
\* that failed is the file's failure, and one that did not is only a step.
Join ==
    /\ at \in {"join", "join stuck"} /\ Joined
    /\ LET stuck == at = "join stuck"
           ran == [ok |-> ~stuck /\ program[Running].ends = "ok", stuck |-> stuck,
                   out |-> drained["out"], err |-> drained["err"]]
           unbuilt == Running = "build" /\ ~ran.ok
       IN
       /\ results' = IF Running = "build" THEN results ELSE Append(results, ran)
       /\ verdict' = IF unbuilt THEN "fail" ELSE verdict
       /\ at' = IF unbuilt THEN "done" ELSE IF step = Len(Commands) THEN "judge" ELSE "spawn"
    /\ step' = step + 1
    /\ child' = "none"
    /\ UNCHANGED <<fixed, snapshot, round, helper, streams, late>>
--------------------------------------------------------------------------------
(* check_one                                                                  *)

AnyStuck == \E k \in DOMAIN results : results[k].stuck
Same(k) == results[k].ok = results[k + 1].ok /\ Answer(results[k]) = Answer(results[k + 1])
Agree == \A k \in 1 .. Len(results) - 1 : Same(k)
Said == Answer(results[1])

\* The snapshot is compared as it is read, its last newline included.
Trimmed == snapshot - 1                                            \* a mutant of Want
Want == snapshot

\* What the answer is, beside the snapshot: a pass, a failure, or a snapshot to
\* be written if the runner was asked to.
Judged ==
    IF AnyStuck \/ ~Agree THEN "fail"
    ELSE IF snapshot = Missing
         THEN IF ~results[1].ok THEN "fail" ELSE IF Said = 0 THEN "pass" ELSE "write"
         ELSE IF snapshot = 0 THEN "fail" ELSE IF Said = Want THEN "pass" ELSE "write"

Judge ==
    /\ at = "judge"
    /\ ~(Judged = "write" /\ update)
    /\ verdict' = IF Judged = "pass" THEN "pass" ELSE "fail"
    /\ at' = "done"
    /\ UNCHANGED <<fixed, snapshot, round, step, results, process>>

\* write_snapshot
WriteSnapshot ==
    /\ at = "judge"
    /\ Judged = "write" /\ update
    /\ snapshot' = Said /\ verdict' = "pass"
    /\ at' = "done"
    /\ UNCHANGED <<fixed, round, step, results, process>>

\* `keal test` once more, on what the first wrote down.
Wrote == at = "done" /\ verdict = "pass" /\ update
Again ==
    /\ Wrote /\ round = 1
    /\ round' = 2 /\ update' = FALSE
    /\ at' = "spawn" /\ step' = 1 /\ results' = <<>> /\ verdict' = Missing
    /\ UNCHANGED <<program, snapshot, process>>

RunnerStep ==
    \/ Spawn \/ WaitReturns \/ WaitExpires \/ Kill \/ Join \/ Judge \/ WriteSnapshot
    \/ \E s \in Output : Drain(s) \/ DrainEnds(s)

ChildStep == ChildEnds \/ \E s \in Output : ChildWrites(s)

TNext == RunnerStep \/ ChildStep \/ HelperEnds \/ Clock \/ Again
TSpec == TInit /\ [][TNext]_testVars

\* The runner's threads and its children are scheduled and time passes; a
\* compiler that lost its parent ends by itself.
FairTSpec == TSpec /\ WF_testVars(RunnerStep) /\ WF_testVars(ChildStep)
                 /\ WF_testVars(HelperEnds) /\ WF_testVars(Clock)
--------------------------------------------------------------------------------
TTypeOK ==
    /\ program \in [Command -> Behaviour]
    /\ snapshot \in Texts \union {Missing}
    /\ {update, helper, late} \subseteq BOOLEAN /\ round \in {1, 2}
    /\ at \in {"spawn", "wait", "kill", "join", "join stuck", "judge", "done"}
    /\ step \in 1 .. Len(Commands) + 1
    /\ results \in Seq(Ran)
    /\ \A k \in DOMAIN results : results[k].ok => ~results[k].stuck
    /\ child \in {"none", "runs", "ended", "killed"}
    /\ unsaid \in [Output -> Nat] /\ pipe \in [Output -> 0 .. PipeSize] /\ drained \in [Output -> Nat]
    /\ draining \subseteq Output
    /\ at \in {"spawn", "judge", "done"} => child = "none" /\ draining = {}
    /\ verdict \in {"pass", "fail", Missing}

Engines == Command \ {"build"}
Proper(c) == IF program[c].ends = "ok" THEN program[c].out ELSE program[c].err

\* The engines end, in the same way and with the same answer, which is the
\* snapshot's, or silence at zero.
Settled ==
    \A c, d \in Engines :
        /\ program[c].ends # "never"
        /\ program[c].ends = program[d].ends
        /\ Proper(c) = (IF snapshot = Missing THEN 0 ELSE snapshot)
        /\ snapshot = Missing => program[c].ends = "ok"

\* A verdict is about the programs, not about the run: a pass is of engines
\* that agree, however the streams and the deadline interleaved.
PassMeansAgreed == verdict = "pass" => Settled

\* What `--update` wrote down passes the next time, unless a program is stopped
\* or does not build then, or the snapshot written is an empty one.
UpdateSettles ==
    round = 2 /\ verdict = "fail" =>
        AnyStuck \/ step <= Len(Commands) \/ snapshot = 0

VerdictsAreTrue == PassMeansAgreed /\ UpdateSettles

\* "The one outcome a runner must never produce is no outcome": every round
\* ends, with programs that never do or that fill their pipes.
RunnerReturns == at = "spawn" ~> at = "done"
================================================================================
