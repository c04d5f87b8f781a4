------------------------------- MODULE ActorPool -------------------------------
(***************************************************************************)
(* The native actor scheduler: the four method bodies the C backend        *)
(* generates for ActorSystem (src/cbackend.rs, actor_method_body) over the *)
(* mutex, the condition and the KealRunState of src/runtime.c.             *)
(*                                                                         *)
(* One mutex (keal_actor_mu) guards every mailbox and the run state; one   *)
(* condition (keal_actor_cv), only ever broadcast, is slept on by idle     *)
(* workers and by the thread inside `run`.  A critical section with no     *)
(* unlock in the middle is one action guarded by mu = Free; a worker's     *)
(* loop, which is entered with the mutex held from three places, and the   *)
(* waiting loop of `run` are split into steps that hold it.                *)
(*                                                                         *)
(* A handler is arbitrary user code: it sends at most MaxSends messages    *)
(* and then returns or panics.  Peers are threads outside this system that *)
(* hold one of its addresses: the handlers of another system, which is     *)
(* running while this system's `run` was called from one of ITS handlers.  *)
(***************************************************************************)
EXTENDS Naturals, Sequences, FiniteSets

CONSTANTS MaxActors,  \* bound: how many actors are spawned
          Workers,    \* the threads `run` may create
          Cores,      \* KEAL_ACTOR_WORKERS, else the machine's core count
          Msg,        \* message values
          NoMsg,
          Peers,      \* other threads that hold an ActorRef of this system
          Main, Free, \* the thread that spawns and runs; "nobody holds mu"
          CatchMode,  \* the program contains a `try` (catch_mode)
          DropMode,   \* the program declares a `deinit` (drop_mode)
          MaxSends,   \* bound: sends by one handler call, and by one sweep
          MaxBox,     \* bound: messages in one mailbox
          MaxRuns     \* bound: calls of `run`

ASSUME BoundsAssumption ==
    /\ MaxActors \in Nat /\ Cores \in Nat \ {0}
    /\ MaxSends \in Nat /\ MaxBox \in Nat /\ MaxRuns \in Nat
    /\ CatchMode \in BOOLEAN /\ DropMode \in BOOLEAN
ASSUME ThreadsAssumption ==
    /\ IsFiniteSet(Workers) /\ Main \notin Workers
    /\ Free \notin Workers \cup {Main}
    /\ NoMsg \notin Msg

Actor  == 0 .. MaxActors - 1
Thread == Workers \cup {Main}

VARIABLES
    alive,     \* the process has not exited
    n,         \* handlers.len: actors spawned so far
    mailbox,   \* [Actor -> Seq(Msg)]
    mu,        \* who holds keal_actor_mu
    asleep,    \* the threads in keal_actor_cv's wait set
    busy,      \* KealRunState.busy
    inflight,  \* KealRunState.workers: handlers in flight
    next,      \* KealRunState.next: where the next scan starts
    stop,      \* KealRunState.stop
    panicked,  \* KealRunState.panicked
    pc,        \* where each worker is
    idx,       \* the actor a worker has taken
    msg,       \* the message it is handling
    sends,     \* sends left to its handler or its sweep
    main,      \* where the thread that calls `run` is
    runs,      \* `run` calls so far
    outcome    \* how the last `run` came back

world == <<alive, n, runs, outcome>>
state == <<busy, inflight, next, stop, panicked>>
local == <<pc, idx, msg, sends>>
vars  == <<alive, n, mailbox, mu, asleep, busy, inflight, next, stop, panicked,
           pc, idx, msg, sends, main, runs, outcome>>

WorkerPcs == {"none", "start", "loop", "wait", "handler", "unwound", "sweep", "gone"}
MainPcs   == {"out", "begin", "create", "lock", "check", "wait", "join"}

TypeOK ==
    /\ alive \in BOOLEAN
    /\ n \in 0 .. MaxActors
    /\ mailbox \in [Actor -> Seq(Msg)]
    /\ mu \in Thread \cup {Free}
    /\ asleep \subseteq Thread
    /\ busy \in [Actor -> BOOLEAN]
    /\ inflight \in Nat
    /\ next \in Nat /\ (next = 0 \/ next < n)
    /\ stop \in BOOLEAN
    /\ panicked \in BOOLEAN
    /\ pc \in [Workers -> WorkerPcs]
    /\ idx \in [Workers -> Nat]
    /\ msg \in [Workers -> Msg \cup {NoMsg}]
    /\ sends \in [Workers -> Nat]
    /\ main \in MainPcs
    /\ runs \in Nat
    /\ outcome \in {"none", "ok", "panic"}

\* A worker that has taken an actor and not yet let go of it.
Inside(w) == pc[w] \in {"handler", "unwound", "sweep"}

\* The actors this `run` knows: n is read once, when it starts, and only the
\* thread that is inside `run` spawns.
Spawned == 0 .. n - 1

Init ==
    /\ alive = TRUE
    /\ n = 0
    /\ mailbox = [a \in Actor |-> << >>]
    /\ mu = Free
    /\ asleep = {}
    /\ busy = [a \in Actor |-> FALSE]
    /\ inflight = 0 /\ next = 0 /\ stop = FALSE /\ panicked = FALSE
    /\ pc = [w \in Workers |-> "none"]
    /\ idx = [w \in Workers |-> 0]
    /\ msg = [w \in Workers |-> NoMsg]
    /\ sends = [w \in Workers |-> 0]
    /\ main = "out" /\ runs = 0 /\ outcome = "none"

-------------------------------------------------------------------------------
\* keal_actor_signal wakes every sleeper.
WakesNobody == UNCHANGED asleep                                     \* mutant
Broadcast   == asleep' = {}

(* send: the copy is made outside the lock and reads only the sender's own  *)
(* values, so what another thread can see is the push, under the lock, and  *)
(* the broadcast.  A copy that unwinds is a panic of the handler.           *)
PushAtFront(a, m) ==                                                \* mutant
    /\ mu = Free /\ Len(mailbox[a]) < MaxBox
    /\ mailbox' = [mailbox EXCEPT ![a] = <<m>> \o @]
    /\ Broadcast

Push(a, m) ==
    /\ mu = Free
    /\ Len(mailbox[a]) < MaxBox
    /\ mailbox' = [mailbox EXCEPT ![a] = Append(@, m)]
    /\ Broadcast

\* spawn: the program adds an actor between two runs.
Spawn ==
    /\ main = "out"
    /\ n < MaxActors
    /\ n' = n + 1
    /\ UNCHANGED <<alive, runs, outcome, mailbox, mu, asleep, state, local, main>>

MainSend(a, m) ==
    /\ main = "out"
    /\ Push(a, m)
    /\ UNCHANGED <<world, mu, state, local, main>>

PeerSend(p, a, m) ==
    /\ Push(a, m)
    /\ UNCHANGED <<world, mu, state, local, main>>

-------------------------------------------------------------------------------
(* The worker, _actor_main.                                                 *)

\* keal_actor_lock(), or waking from keal_actor_wait() with the mutex back.
EnterLoop(w) ==
    /\ \/ pc[w] = "start"
       \/ pc[w] = "wait" /\ w \notin asleep
    /\ mu = Free
    /\ mu' = w
    /\ pc' = [pc EXCEPT ![w] = "loop"]
    /\ UNCHANGED <<world, mailbox, asleep, state, idx, msg, sends, main>>

\* The scan from `next`, round the list, for the first actor with a message
\* and nobody inside.
TakeableEvenBusy(i) == mailbox[i] # << >>                           \* mutant
Takeable(i) == ~busy[i] /\ mailbox[i] # << >>
Distance(i) == IF i >= next THEN i - next ELSE (i + n) - next
FirstTakeable(i) ==
    /\ Takeable(i)
    /\ \A j \in Spawned : Takeable(j) => Distance(i) <= Distance(j)
NothingToTake == \A i \in Spawned : ~Takeable(i)

\* What an idle worker takes for the end of the run.
NothingLeftToTake == NothingToTake                                  \* mutant
NothingLeft == NothingToTake /\ inflight = 0

\* Where the next scan starts: after the actor this one took.
ScanFromFirst(i) == 0                                               \* mutant
ScanAfter(i) == (i + 1) % n

Take(w, i) ==
    /\ pc[w] = "loop" /\ ~stop
    /\ FirstTakeable(i)
    /\ next' = ScanAfter(i)
    /\ mailbox' = [mailbox EXCEPT ![i] = Tail(@)]
    /\ busy' = [busy EXCEPT ![i] = TRUE]
    /\ inflight' = inflight + 1
    /\ mu' = Free
    /\ pc' = [pc EXCEPT ![w] = "handler"]
    /\ idx' = [idx EXCEPT ![w] = i]
    /\ msg' = [msg EXCEPT ![w] = Head(mailbox[i])]
    /\ sends' = [sends EXCEPT ![w] = MaxSends]
    /\ UNCHANGED <<world, asleep, stop, panicked, main>>

\* Told to stop, or nothing to take and no handler in flight: the thread ends.
Leave(w) ==
    /\ pc[w] = "loop"
    /\ stop \/ NothingLeft
    /\ pc' = [pc EXCEPT ![w] = "gone"]
    /\ Broadcast
    /\ mu' = Free
    /\ UNCHANGED <<world, mailbox, state, idx, msg, sends, main>>

Sleep(w) ==
    /\ pc[w] = "loop" /\ ~stop
    /\ NothingToTake /\ ~NothingLeft
    /\ pc' = [pc EXCEPT ![w] = "wait"]
    /\ asleep' = asleep \cup {w}
    /\ mu' = Free
    /\ UNCHANGED <<world, mailbox, state, idx, msg, sends, main>>

\* A handler sends; so may a `deinit` in the sweep after it.
HandlerSend(w, a, m) ==
    /\ pc[w] = "handler" \/ (pc[w] = "sweep" /\ DropMode)
    /\ sends[w] > 0
    /\ Push(a, m)
    /\ sends' = [sends EXCEPT ![w] = @ - 1]
    /\ UNCHANGED <<world, mu, state, pc, idx, msg, main>>

HandlerReturn(w) ==
    /\ pc[w] = "handler"
    /\ pc' = [pc EXCEPT ![w] = "sweep"]
    /\ sends' = [sends EXCEPT ![w] = MaxSends]
    /\ UNCHANGED <<world, mailbox, mu, asleep, state, idx, msg, main>>

\* Under catch_mode the worker is a `try`: the panic unwinds to it.
HandlerUnwinds(w) ==
    /\ CatchMode /\ pc[w] = "handler"
    /\ pc' = [pc EXCEPT ![w] = "unwound"]
    /\ UNCHANGED <<world, mailbox, mu, asleep, state, idx, msg, sends, main>>

\* A panic with no `try` active ends the process where it stands: in a
\* handler of a program without `try`, and in the sweep of any program, the
\* worker having left its own.
PanicExits(w) ==
    /\ \/ pc[w] = "handler" /\ ~CatchMode
       \/ pc[w] = "sweep" /\ DropMode
    /\ alive' = FALSE
    /\ UNCHANGED <<n, runs, outcome, mailbox, mu, asleep, state, local, main>>

\* The first panic of the run is kept and the others are told to stop; no
\* broadcast yet, the one after the handler does for both.
CarryPanic(w) ==
    /\ pc[w] = "unwound"
    /\ mu = Free
    /\ panicked' = TRUE
    /\ stop' = TRUE
    /\ pc' = [pc EXCEPT ![w] = "sweep"]
    /\ sends' = [sends EXCEPT ![w] = MaxSends]
    /\ UNCHANGED <<world, mailbox, mu, asleep, busy, inflight, next, idx, msg, main>>

LetGoUnlessStopped(a) ==                                            \* mutant
    /\ busy' = [busy EXCEPT ![a] = FALSE]
    /\ inflight' = IF stop THEN inflight ELSE inflight - 1
LetGo(a) ==
    /\ busy' = [busy EXCEPT ![a] = FALSE]
    /\ inflight' = inflight - 1

\* The actor is let go of and the loop goes round without letting go of mu.
Finish(w) ==
    /\ pc[w] = "sweep"
    /\ mu = Free
    /\ mu' = w
    /\ LetGo(idx[w])
    /\ Broadcast
    /\ pc' = [pc EXCEPT ![w] = "loop"]
    /\ msg' = [msg EXCEPT ![w] = NoMsg]
    /\ UNCHANGED <<world, mailbox, next, stop, panicked, idx, sends, main>>

-------------------------------------------------------------------------------
(* `run`, on the thread that called it.                                     *)

CallRun ==
    /\ main = "out" /\ runs < MaxRuns
    /\ runs' = runs + 1
    /\ main' = "begin"
    /\ outcome' = "none"
    /\ UNCHANGED <<alive, n, mailbox, mu, asleep, state, local>>

RunNobody ==
    /\ main = "begin" /\ n = 0
    /\ main' = "out"
    /\ outcome' = "ok"
    /\ UNCHANGED <<alive, n, runs, mailbox, mu, asleep, state, local>>

RunInit ==
    /\ main = "begin" /\ n > 0
    /\ inflight' = 0 /\ stop' = FALSE /\ panicked' = FALSE /\ next' = 0
    /\ busy' = [a \in Actor |-> FALSE]
    /\ main' = "create"
    /\ UNCHANGED <<world, mailbox, mu, asleep, local>>

\* keal_actor_worker_count: as many threads as cores, capped at the actors.
WorkerCount == IF Cores < n THEN Cores ELSE n
Created == {w \in Workers : pc[w] # "none"}

Create(w) ==
    /\ main = "create"
    /\ pc[w] = "none"
    /\ pc' = [pc EXCEPT ![w] = "start"]
    /\ main' = IF Cardinality(Created) + 1 = WorkerCount THEN "lock" ELSE "create"
    /\ UNCHANGED <<world, mailbox, mu, asleep, state, idx, msg, sends>>

\* pthread_create failed: keal_fatal, which no `try` catches.
CreateFails ==
    /\ main = "create"
    /\ alive' = FALSE
    /\ UNCHANGED <<n, runs, outcome, mailbox, mu, asleep, state, local, main>>

MainLock ==
    /\ \/ main = "lock"
       \/ main = "wait" /\ Main \notin asleep
    /\ mu = Free
    /\ mu' = Main
    /\ main' = "check"
    /\ UNCHANGED <<world, mailbox, asleep, state, local>>

Drained == \A a \in Spawned : mailbox[a] = << >>
RunOverWhenDrained == inflight = 0 /\ Drained                       \* mutant
RunOverWithHandlers == stop \/ Drained                              \* mutant
RunOver == inflight = 0 /\ (stop \/ Drained)

RunStops ==
    /\ main = "check" /\ RunOver
    /\ stop' = TRUE
    /\ Broadcast
    /\ mu' = Free
    /\ main' = "join"
    /\ UNCHANGED <<world, mailbox, busy, inflight, next, panicked, local>>

RunWaits ==
    /\ main = "check" /\ ~RunOver
    /\ asleep' = asleep \cup {Main}
    /\ mu' = Free
    /\ main' = "wait"
    /\ UNCHANGED <<world, mailbox, state, local>>

Joined == \A w \in Workers : pc[w] \in {"none", "gone"}

RunReturns ==
    /\ main = "join" /\ Joined /\ ~panicked
    /\ pc' = [w \in Workers |-> "none"]
    /\ main' = "out"
    /\ outcome' = "ok"
    /\ UNCHANGED <<alive, n, runs, mailbox, mu, asleep, state, idx, msg, sends>>

\* keal_panic on the caller's thread: its `try` catches it, or, if none is
\* active there, the process exits.
RunRethrows ==
    /\ main = "join" /\ Joined /\ panicked
    /\ \/ alive' = TRUE /\ main' = "out" /\ outcome' = "panic"
       \/ alive' = FALSE /\ UNCHANGED <<main, outcome>>
    /\ pc' = [w \in Workers |-> "none"]
    /\ UNCHANGED <<n, runs, mailbox, mu, asleep, state, idx, msg, sends>>

\* pthread_cond_wait may return with nobody having signalled.
SpuriousWake(t) ==
    /\ t \in asleep
    /\ asleep' = asleep \ {t}
    /\ UNCHANGED <<world, mailbox, mu, state, local, main>>

-------------------------------------------------------------------------------
WorkerStep(w) ==
    \/ EnterLoop(w)
    \/ \E i \in Spawned : Take(w, i)
    \/ Leave(w)
    \/ Sleep(w)
    \/ \E a \in Spawned, m \in Msg : HandlerSend(w, a, m)
    \/ HandlerReturn(w)
    \/ HandlerUnwinds(w)
    \/ PanicExits(w)
    \/ CarryPanic(w)
    \/ Finish(w)

MainStep ==
    \/ Spawn
    \/ \E a \in Spawned, m \in Msg : MainSend(a, m)
    \/ CallRun
    \/ RunNobody
    \/ RunInit
    \/ \E w \in Workers : Create(w)
    \/ CreateFails
    \/ MainLock
    \/ RunStops
    \/ RunWaits
    \/ RunReturns
    \/ RunRethrows

EnvStep ==
    \/ \E p \in Peers, a \in Spawned, m \in Msg : PeerSend(p, a, m)
    \/ \E t \in Thread : SpuriousWake(t)

\* The process is over: it exited, or the program has made its last run.
Over == ~alive \/ (main = "out" /\ runs = MaxRuns)

Next ==
    \/ alive /\ (MainStep \/ EnvStep \/ \E w \in Workers : WorkerStep(w))
    \/ Over /\ UNCHANGED vars

Spec == Init /\ [][Next]_vars

-------------------------------------------------------------------------------
(* Fairness.  The system keeps running a thread that can run, and does not  *)
(* keep one out of a mutex that is released again and again for ever (SF on *)
(* what waits for the mutex).  A handler, after finitely many sends, comes  *)
(* to its end.  Nothing makes a program spawn, send or call `run`, a peer   *)
(* send, a thread wake spuriously, or a handler panic.                      *)
Fairness ==
    /\ \A w \in Workers :
         /\ SF_vars(alive /\ EnterLoop(w))
         /\ WF_vars(alive /\ (Leave(w) \/ Sleep(w) \/ \E i \in Spawned : Take(w, i)))
         /\ WF_vars(alive /\ (HandlerReturn(w) \/ HandlerUnwinds(w)))
         /\ SF_vars(alive /\ CarryPanic(w))
         /\ SF_vars(alive /\ Finish(w))
    /\ WF_vars(alive /\ (RunNobody \/ RunInit \/ \E w \in Workers : Create(w)))
    /\ SF_vars(alive /\ MainLock)
    /\ WF_vars(alive /\ (RunStops \/ RunWaits \/ RunReturns \/ RunRethrows))

FairSpec == Spec /\ Fairness

-------------------------------------------------------------------------------
(* Properties.                                                              *)

\* An actor is never run by two workers at once, and the flag that keeps it
\* so says exactly whether somebody is inside (KealRunState.busy).
OneAtATime ==
    /\ \A w1, w2 \in Workers :
         Inside(w1) /\ Inside(w2) /\ idx[w1] = idx[w2] => w1 = w2
    /\ \A w \in Workers : Inside(w) => busy[idx[w]]

\* The count `run` and the idle workers judge quiescence by is the number of
\* workers inside a handler (KealRunState.workers).
InflightIsExact == inflight = Cardinality({w \in Workers : Inside(w)})

\* A worker that ended because it saw nothing to do was right for good: until
\* `run` stops the others too, nothing is queued and nobody can queue more.
\* Only a thread outside the system could, hence Peers.
LeftIsQuiescent ==
    (Peers = {} /\ ~stop /\ \E w \in Workers : pc[w] = "gone")
        => Drained /\ inflight = 0

\* Once `run` has decided it is over, no handler is running, and, unless one
\* panicked, everything sent to the system has been handled.
JoinIsQuiescent ==
    main = "join" =>
        /\ \A w \in Workers : ~Inside(w)
        /\ Peers = {} /\ ~panicked => Drained

\* A handler's panic that a worker caught ends the run and reaches the caller
\* of `run`, whatever the other actors keep sending each other.
PanicReachesCaller ==
    \A w \in Workers : pc[w] = "unwound" ~> (outcome = "panic" \/ ~alive)

\* Every `run` comes back, by return, panic or exit, if the handlers sooner
\* or later send nothing more: no wakeup is lost, no thread is left asleep.
Pushes == \E a \in Actor : Len(mailbox'[a]) > Len(mailbox[a])
RunEnds ==
    <>[][~Pushes]_vars => (main = "begin" ~> (main = "out" \/ ~alive))

\* A message waiting for an idle actor is taken whatever the other actors
\* keep sending themselves: the scan starts where the last one left off.
NoActorStarves ==
    \A a \in Actor :
        (mailbox[a] # << >> /\ ~busy[a] /\ main \in {"create", "lock", "check", "wait"})
            ~> (busy[a] \/ stop \/ ~alive)

\* The pool does what the actor model promises.
Handling(a) ==
    IF \E w \in Workers : Inside(w) /\ idx[w] = a
    THEN msg[CHOOSE w \in Workers : Inside(w) /\ idx[w] = a]
    ELSE NoMsg
Model == INSTANCE ActorModel WITH
    inside  <- [a \in Actor |-> Handling(a)],
    phase   <- CASE main \in {"out", "join"} -> "out"
                 [] main = "begin" -> "running"
                 [] OTHER -> IF panicked THEN "failed" ELSE "running",
    outcome <- IF main # "join" THEN outcome
               ELSE IF panicked THEN "panic" ELSE "ok"
ImplementsModel == Model!ASpec
===============================================================================
