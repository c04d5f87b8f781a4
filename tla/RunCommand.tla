------------------------------ MODULE RunCommand -------------------------------
(* `runCommand` in a compiled program on POSIX (keal_run_command in           *)
(* src/src/runtime.c): four pipes, a fork, one poll loop over the child's     *)
(* three streams, then the pipe that tells a failed exec, then waitpid.       *)
(*                                                                            *)
(* A pipe is an amount of data and whoever holds its ends.  The threads of    *)
(* the program share one table of descriptors; fork copies all of it, and     *)
(* exec keeps what is not close-on-exec.  The child is any filter: it answers *)
(* what it reads, on either stream, may speak before it has read, and ends at *)
(* end of file or earlier.                                                    *)
EXTENDS Naturals, FiniteSets

CONSTANTS
    Call,       \* the calls a run of the program makes
    AtOnce,     \* how many of them its threads may be inside at once
    MaxInput,   \* bound: units of input a call sends
    Capacity,   \* units a pipe holds
    MaxAhead    \* bound: units a child says before it has read

\* A pipe holds something, so the failed exec's message fits in it.
ASSUME RunCommandAssumption == Capacity \in Nat \ {0} /\ MaxInput \in Nat /\ MaxAhead \in Nat

Stream == {"out", "err"}
Pipe == {"out", "err", "in", "fail"}
Fd == Call \X Pipe \X {"r", "w"}

VARIABLES
    pc,        \* where each call is
    made,      \* pipes a call has opened
    open,      \* the program's descriptors
    cloexec,   \* those of them with FD_CLOEXEC
    kid,       \* each call's child: where it is, its descriptors, what it owes
    buf,       \* what each pipe holds
    left,      \* input a call has yet to send
    got,       \* what a call has read of its child's streams
    wrote,     \* history: what the child has written to them
    result

parentVars == <<made, open, cloexec, left, got, result>>
vars == <<pc, kid, buf, wrote, parentVars>>

NoKid == [at |-> "none", fds |-> {}, cloexec |-> {}, owes |-> "nothing", ahead |-> MaxAhead]

Init ==
    /\ pc = [c \in Call |-> "idle"]
    /\ made = [c \in Call |-> 0]
    /\ open = {} /\ cloexec = {}
    /\ kid = [c \in Call |-> NoKid]
    /\ buf = [c \in Call |-> [p \in Pipe |-> 0]]
    /\ left \in [Call -> 0 .. MaxInput]
    /\ got = [c \in Call |-> [s \in Stream |-> 0]]
    /\ wrote = got
    /\ result = [c \in Call |-> "none"]

Held(fd) == fd \in open \/ \E d \in Call : fd \in kid[d].fds
Room(c, p) == Capacity - buf[c][p]
Goto(c, at) == pc' = [pc EXCEPT ![c] = at]
Returns(c, what) == Goto(c, "done") /\ result' = [result EXCEPT ![c] = what]
--------------------------------------------------------------------------------
(* The call.                                                                  *)

Active == {c \in Call : pc[c] \notin {"idle", "done"}}

Start(c) == /\ pc[c] = "idle"
            /\ Cardinality(Active) < AtOnce
            /\ Goto(c, "pipes")
            /\ UNCHANGED <<kid, buf, wrote, parentVars>>

\* The pipes in the order they are made.
Order == <<"out", "err", "in", "fail">>
Ends(c, p) == {<<c, p, "r">>, <<c, p, "w">>}
OwnPipes(c) == UNION {Ends(c, Order[k]) : k \in 1 .. made[c]}

MakePipe(c) ==
    /\ pc[c] = "pipes" /\ made[c] < 4
    /\ made' = [made EXCEPT ![c] = @ + 1]
    /\ open' = open \union Ends(c, Order[made[c] + 1])
    /\ UNCHANGED <<pc, kid, buf, wrote, cloexec, left, got, result>>

\* A pipe or the fork cannot be had: what was opened is closed.
Abandoned(c) == {fd \in OwnPipes(c) : fd[2] # "in"}                \* a mutant of Cleaned
Cleaned(c) == OwnPipes(c)
GiveUp(c) ==
    /\ pc[c] = "pipes" \/ pc[c] = "fork"
    /\ open' = open \ Cleaned(c)
    /\ cloexec' = cloexec \ Cleaned(c)
    /\ Returns(c, "null")
    /\ UNCHANGED <<kid, buf, wrote, made, left, got>>

SetCloexec(c) ==
    /\ pc[c] = "pipes" /\ made[c] = 4
    /\ cloexec' = cloexec \union {<<c, "fail", "w">>}
    /\ Goto(c, "fork")
    /\ UNCHANGED <<kid, buf, wrote, made, open, left, got, result>>

Fork(c) ==
    /\ pc[c] = "fork"
    /\ kid' = [kid EXCEPT ![c] = [@ EXCEPT !.at = "forked", !.fds = open, !.cloexec = cloexec]]
    /\ Goto(c, "close")
    /\ UNCHANGED <<buf, wrote, parentVars>>

\* The child's ends, and the input's when there is none to send.
Close(c) ==
    /\ pc[c] = "close"
    /\ open' = open \ ({<<c, "out", "w">>, <<c, "err", "w">>, <<c, "fail", "w">>, <<c, "in", "r">>}
                       \union (IF left[c] = 0 THEN {<<c, "in", "w">>} ELSE {}))
    /\ cloexec' = cloexec \intersect open'
    /\ Goto(c, "drain")
    /\ UNCHANGED <<kid, buf, wrote, made, left, got, result>>

\* The streams the loop reads from, whatever is still to be sent.
OutFirst(c) == IF <<c, "out", "r">> \in open THEN {"out"} ELSE {"err"}  \* a mutant of Polled
Polled(c) == Stream

Read(c, s) ==
    /\ pc[c] = "drain" /\ s \in Polled(c)
    /\ <<c, s, "r">> \in open
    /\ buf[c][s] > 0
    /\ got' = [got EXCEPT ![c][s] = @ + buf[c][s]]
    /\ buf' = [buf EXCEPT ![c][s] = 0]
    /\ UNCHANGED <<pc, kid, wrote, made, open, cloexec, left, result>>

AtEnd(c, s) == buf[c][s] = 0 /\ ~Held(<<c, s, "w">>)
Eof(c, s) ==
    /\ pc[c] = "drain" /\ s \in Polled(c)
    /\ <<c, s, "r">> \in open
    /\ AtEnd(c, s)
    /\ open' = open \ {<<c, s, "r">>}
    /\ UNCHANGED <<pc, kid, buf, wrote, made, cloexec, left, got, result>>

\* What a write that does not block places.
Placed(c) == IF Room(c, "in") < left[c] THEN Room(c, "in") ELSE left[c]

Send(c) ==
    /\ pc[c] = "drain"
    /\ <<c, "in", "w">> \in open
    /\ Held(<<c, "in", "r">>) /\ Room(c, "in") > 0
    /\ buf' = [buf EXCEPT ![c]["in"] = @ + Placed(c)]
    /\ left' = [left EXCEPT ![c] = @ - Placed(c)]
    /\ open' = IF left'[c] = 0 THEN open \ {<<c, "in", "w">>} ELSE open
    /\ UNCHANGED <<pc, kid, wrote, made, cloexec, got, result>>

\* EPIPE, or POLLERR: a child that stopped reading is not a failure.
SendRefused(c) ==
    /\ pc[c] = "drain"
    /\ <<c, "in", "w">> \in open
    /\ ~Held(<<c, "in", "r">>)
    /\ open' = open \ {<<c, "in", "w">>}
    /\ UNCHANGED <<pc, kid, buf, wrote, made, cloexec, left, got, result>>

\* read(failp[0]): data is a failed exec, end of file a program that started.
ReadFail(c) ==
    /\ pc[c] = "drain"
    /\ {<<c, "out", "r">>, <<c, "err", "r">>, <<c, "in", "w">>} \intersect open = {}
    /\ buf[c]["fail"] > 0 \/ ~Held(<<c, "fail", "w">>)
    /\ open' = open \ {<<c, "fail", "r">>}
    /\ Goto(c, "wait")
    /\ UNCHANGED <<kid, buf, wrote, made, cloexec, left, got, result>>

Started(c) == buf[c]["fail"] = 0
Wait(c) ==
    /\ pc[c] = "wait"
    /\ kid[c].at \in {"unstarted", "ended"}
    /\ Returns(c, IF Started(c) THEN "ran" ELSE "null")
    /\ UNCHANGED <<kid, buf, wrote, made, open, cloexec, left, got>>
--------------------------------------------------------------------------------
(* The child.                                                                 *)

\* The copies the child closes before it execs, and those exec closes.
Inherited(c) == kid[c].fds \ ({<<c, "out", "r">>, <<c, "err", "r">>, <<c, "fail", "r">>, <<c, "in", "w">>}
                              \union kid[c].cloexec)
Exec(c) ==
    /\ kid[c].at = "forked"
    /\ kid' = [kid EXCEPT ![c] =
                 [@ EXCEPT !.at = "runs", !.fds = Inherited(c), !.cloexec = {}]]
    /\ UNCHANGED <<pc, buf, wrote, parentVars>>

Ended(c, at) == [kid EXCEPT ![c] = [@ EXCEPT !.at = at, !.fds = {}, !.cloexec = {}]]

ExecFails(c) ==
    /\ kid[c].at = "forked"
    /\ buf' = [buf EXCEPT ![c]["fail"] = 1]
    /\ kid' = Ended(c, "unstarted")
    /\ UNCHANGED <<pc, wrote, parentVars>>

KidReads(c, s) ==
    /\ kid[c].at = "runs"
    /\ kid[c].owes = "nothing"
    /\ buf[c]["in"] > 0
    /\ buf' = [buf EXCEPT ![c]["in"] = @ - 1]
    /\ kid' = [kid EXCEPT ![c].owes = s]
    /\ UNCHANGED <<pc, wrote, parentVars>>

Says(c, s) ==
    /\ Room(c, s) > 0
    /\ buf' = [buf EXCEPT ![c][s] = @ + 1]
    /\ wrote' = [wrote EXCEPT ![c][s] = @ + 1]

KidAnswers(c, s) ==
    /\ kid[c].at = "runs" /\ kid[c].owes = s
    /\ Says(c, s)
    /\ kid' = [kid EXCEPT ![c].owes = "nothing"]
    /\ UNCHANGED <<pc, parentVars>>

KidSpeaks(c, s) ==
    /\ kid[c].at = "runs" /\ kid[c].ahead > 0
    /\ Says(c, s)
    /\ kid' = [kid EXCEPT ![c].ahead = @ - 1]
    /\ UNCHANGED <<pc, parentVars>>

SeesEnd(c) == buf[c]["in"] = 0 /\ ~Held(<<c, "in", "w">>)
KidEnds(c) ==
    /\ kid[c].at = "runs" /\ kid[c].owes = "nothing" /\ SeesEnd(c)
    /\ kid' = Ended(c, "ended")
    /\ UNCHANGED <<pc, buf, wrote, parentVars>>

KidQuits(c) ==
    /\ kid[c].at = "runs"
    /\ kid' = Ended(c, "ended")
    /\ UNCHANGED <<pc, buf, wrote, parentVars>>
--------------------------------------------------------------------------------
ParentStep(c) ==
    \/ MakePipe(c) \/ SetCloexec(c) \/ Fork(c) \/ Close(c)
    \/ \E s \in Stream : Read(c, s) \/ Eof(c, s)
    \/ Send(c) \/ SendRefused(c) \/ ReadFail(c) \/ Wait(c)

\* What a filter does without being asked twice.
KidStep(c) ==
    \/ Exec(c) \/ KidEnds(c)
    \/ \E s \in Stream : KidReads(c, s) \/ KidAnswers(c, s)

Next == \E c \in Call :
    \/ Start(c) \/ GiveUp(c) \/ ParentStep(c)
    \/ KidStep(c) \/ ExecFails(c) \/ KidQuits(c)
    \/ \E s \in Stream : KidSpeaks(c, s)

Spec == Init /\ [][Next]_vars

\* The threads and the children are scheduled; nothing makes a child quit, or
\* speak before it has read.
FairSpec == Spec /\ \A c \in Call : WF_vars(ParentStep(c)) /\ WF_vars(KidStep(c))
--------------------------------------------------------------------------------
TypeOK ==
    /\ pc \in [Call -> {"idle", "pipes", "fork", "close", "drain", "wait", "done"}]
    /\ made \in [Call -> 0 .. 4]
    /\ open \subseteq Fd /\ cloexec \subseteq open
    /\ kid \in [Call -> [at: {"none", "forked", "runs", "unstarted", "ended"},
                         fds: SUBSET Fd, cloexec: SUBSET Fd,
                         owes: {"nothing", "out", "err"}, ahead: 0 .. MaxAhead]]
    /\ \A c \in Call, p \in Pipe : buf[c][p] \in 0 .. Capacity
    /\ left \in [Call -> 0 .. MaxInput]
    /\ result \in [Call -> {"none", "null", "ran"}]

\* What a call returns is all its child wrote, on both streams, whatever the
\* child had left to read; `null` is the program that could not be started, and
\* nothing else.
ResultIsTheChilds ==
    \A c \in Call : result[c] # "none" =>
        /\ result[c] = "ran" <=> kid[c].at = "ended"
        /\ result[c] = "ran" => got[c] = wrote[c]

\* A call that returned left no descriptor open and no child unwaited for, on
\* every path through its clean-ups.
CallsLeaveNothing ==
    \A c \in Call : pc[c] = "done" =>
        /\ open \intersect ({c} \X Pipe \X {"r", "w"}) = {}
        /\ kid[c].at \notin {"forked", "runs"}

\* RunCommand's safety: a call returns what its child said, all of it and
\* nothing else, and leaves no process and no descriptor behind.
CallsAreWhole == ResultIsTheChilds /\ CallsLeaveNothing

\* Every call returns: the loop that sends and receives together never waits
\* for a child that waits for it, and the child is given its end of file.
CallsReturn == \A c \in Call : pc[c] = "pipes" ~> pc[c] = "done"
================================================================================
