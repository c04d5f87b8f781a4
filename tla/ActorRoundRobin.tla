---------------------------- MODULE ActorRoundRobin ----------------------------
(***************************************************************************)
(* The interpreters' actor scheduler: ActorSystem in src/prelude.keal, run *)
(* as ordinary Keal code on one thread.  `run` goes over the mailboxes in  *)
(* spawn order, delivers at most one message to each, and goes round again *)
(* until a whole pass delivered nothing.  A handler's panic leaves `run`   *)
(* at once, the messages still queued staying where they are.              *)
(***************************************************************************)
EXTENDS Naturals, Sequences

CONSTANTS MaxActors,  \* bound: how many actors are spawned
          Msg,        \* message values
          NoMsg,
          MaxSends,   \* bound: sends by one handler call
          MaxBox,     \* bound: messages in one mailbox
          MaxRuns     \* bound: calls of `run`

ASSUME BoundsAssumption ==
    /\ MaxActors \in Nat /\ MaxSends \in Nat /\ MaxBox \in Nat /\ MaxRuns \in Nat
    /\ NoMsg \notin Msg

Actor == 0 .. MaxActors - 1

VARIABLES n,         \* handlers.size
          mailbox,   \* mailboxes
          pc,        \* where the one thread is
          i,         \* run's `i`
          progress,  \* run's `progress`
          msg,       \* the message in the handler's hands
          sends,     \* sends left to it
          runs, outcome

vars == <<n, mailbox, pc, i, progress, msg, sends, runs, outcome>>

Pcs == {"out", "pass", "deliver", "handler", "unwound", "thrown"}

TypeOK ==
    /\ n \in 0 .. MaxActors
    /\ mailbox \in [Actor -> Seq(Msg)]
    /\ pc \in Pcs
    /\ i \in Nat /\ i <= n /\ (pc \in {"handler", "unwound"} => i < n)
    /\ progress \in BOOLEAN
    /\ msg \in Msg \cup {NoMsg}
    /\ sends \in Nat
    /\ runs \in Nat
    /\ outcome \in {"none", "ok", "panic"}

Init ==
    /\ n = 0
    /\ mailbox = [a \in Actor |-> << >>]
    /\ pc = "out" /\ i = 0 /\ progress = TRUE
    /\ msg = NoMsg /\ sends = 0
    /\ runs = 0 /\ outcome = "none"

Spawned == 0 .. n - 1

Spawn ==
    /\ pc = "out" /\ n < MaxActors
    /\ n' = n + 1
    /\ UNCHANGED <<mailbox, pc, i, progress, msg, sends, runs, outcome>>

\* send: mailbox.add(copy(msg)), by the program or by a handler.
Send(a, m) ==
    /\ Len(mailbox[a]) < MaxBox
    /\ mailbox' = [mailbox EXCEPT ![a] = Append(@, m)]

MainSend(a, m) ==
    /\ pc = "out"
    /\ Send(a, m)
    /\ UNCHANGED <<n, pc, i, progress, msg, sends, runs, outcome>>

HandlerSend(a, m) ==
    /\ pc = "handler" /\ sends > 0
    /\ Send(a, m)
    /\ sends' = sends - 1
    /\ UNCHANGED <<n, pc, i, progress, msg, runs, outcome>>

\* Entering `run`, and every turn of its outer loop.
CallRun ==
    /\ pc = "out" /\ runs < MaxRuns
    /\ runs' = runs + 1
    /\ pc' = "pass"
    /\ progress' = TRUE
    /\ outcome' = "none"
    /\ UNCHANGED <<n, mailbox, i, msg, sends>>

StartPass ==
    /\ pc = "pass" /\ progress
    /\ progress' = FALSE
    /\ i' = 0
    /\ pc' = "deliver"
    /\ UNCHANGED <<n, mailbox, msg, sends, runs, outcome>>

RunReturns ==
    /\ pc = "pass" /\ ~progress
    /\ pc' = "out"
    /\ outcome' = "ok"
    /\ UNCHANGED <<n, mailbox, i, progress, msg, sends, runs>>

EndPass ==
    /\ pc = "deliver" /\ i = n
    /\ pc' = "pass"
    /\ UNCHANGED <<n, mailbox, i, progress, msg, sends, runs, outcome>>

SkipEmpty ==
    /\ pc = "deliver" /\ i < n
    /\ mailbox[i] = << >>
    /\ i' = i + 1
    /\ UNCHANGED <<n, mailbox, pc, progress, msg, sends, runs, outcome>>

Deliver ==
    /\ pc = "deliver" /\ i < n
    /\ mailbox[i] # << >>
    /\ msg' = Head(mailbox[i])
    /\ mailbox' = [mailbox EXCEPT ![i] = Tail(@)]
    /\ pc' = "handler"
    /\ sends' = MaxSends
    /\ UNCHANGED <<n, i, progress, runs, outcome>>

\* What a delivery does to `progress`, and where the pass goes next.
ProgressForgotten == UNCHANGED progress                             \* mutant
NoteProgress      == progress' = TRUE
StayOnActor       == UNCHANGED i                                    \* mutant
NextActor         == i' = i + 1

HandlerReturns ==
    /\ pc = "handler"
    /\ NoteProgress
    /\ NextActor
    /\ pc' = "deliver"
    /\ msg' = NoMsg
    /\ UNCHANGED <<n, mailbox, sends, runs, outcome>>

\* The panic passes through the handler's frame, then through `run`'s.
HandlerPanics ==
    /\ pc = "handler"
    /\ pc' = "unwound"
    /\ UNCHANGED <<n, mailbox, i, progress, msg, sends, runs, outcome>>

LeaveHandler ==
    /\ pc = "unwound"
    /\ pc' = "thrown"
    /\ msg' = NoMsg
    /\ UNCHANGED <<n, mailbox, i, progress, sends, runs, outcome>>

RunThrows ==
    /\ pc = "thrown"
    /\ pc' = "out"
    /\ outcome' = "panic"
    /\ UNCHANGED <<n, mailbox, i, progress, msg, sends, runs>>

RunStep ==
    \/ StartPass \/ EndPass \/ SkipEmpty \/ Deliver \/ RunReturns
    \/ HandlerReturns \/ LeaveHandler \/ RunThrows

Next ==
    \/ Spawn
    \/ CallRun
    \/ RunStep
    \/ HandlerPanics
    \/ \E a \in Spawned, m \in Msg : MainSend(a, m) \/ HandlerSend(a, m)
    \/ pc = "out" /\ runs = MaxRuns /\ UNCHANGED vars

Spec == Init /\ [][Next]_vars

\* One thread: what it can do it does, and a handler comes to its end.
FairSpec == Spec /\ WF_vars(RunStep)

-------------------------------------------------------------------------------
\* No starvation: whatever the actors keep sending, the oldest message of
\* each is delivered or the run ends in a panic.
NoActorStarves ==
    \A a \in Actor :
        (pc \notin {"out", "unwound", "thrown"} /\ mailbox[a] # << >>)
            ~> (pc \in {"unwound", "thrown"} \/ (pc = "handler" /\ i = a))

\* The prelude's scheduler is a legal schedule of the actor model
\* (docs/threads.md, "The load-bearing insight").
Model == INSTANCE ActorModel WITH
    inside <- [a \in Actor |->
                 IF pc \in {"handler", "unwound"} /\ i = a THEN msg ELSE NoMsg],
    phase  <- CASE pc = "out" -> "out"
                [] pc \in {"unwound", "thrown"} -> "failed"
                [] OTHER -> "running"
ImplementsModel == Model!ASpec
===============================================================================
