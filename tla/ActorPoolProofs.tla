---------------------------- MODULE ActorPoolProofs ----------------------------
(***************************************************************************)
(* The safety of the native actor pool, for any number of actors, workers, *)
(* cores, messages and runs.                                               *)
(*                                                                         *)
(* None of the properties is inductive alone: that the in-flight count is  *)
(* exact rests on a taken actor being inside one worker, that nobody is    *)
(* inside when `run` joins rests on the count, and that RunInit may reset  *)
(* the busy flags rests on the workers of the run before being gone.  IInv *)
(* is their conjunction with who holds the mutex.                          *)
(***************************************************************************)
EXTENDS ActorPool, FiniteSetTheorems, TLAPS

InsideSet == {w \in Workers : Inside(w)}

\* Who is at a step that holds the mutex holds it, and nobody else does.
Holding ==
    /\ \A w \in Workers : pc[w] = "loop" => mu = w
    /\ main = "check" => mu = Main

\* Between two runs there is no worker.
NoWorkersOutside == main \in {"out", "begin"} => \A w \in Workers : pc[w] = "none"

\* Each worker inside is inside an actor of its own, flagged busy, and every
\* flag is somebody's.
BusyIsExact ==
    /\ \A w \in Workers : Inside(w) => idx[w] \in Spawned /\ busy[idx[w]]
    /\ \A w1, w2 \in Workers :
         Inside(w1) /\ Inside(w2) /\ idx[w1] = idx[w2] => w1 = w2
    /\ main \in {"create", "lock", "check", "wait", "join"} =>
         \A a \in Actor : busy[a] => \E w \in Workers : Inside(w) /\ idx[w] = a

Counted == inflight = Cardinality(InsideSet)

\* Once `run` has decided it is over, everybody is told and nobody is inside.
JoinIsOver ==
    main = "join" => /\ stop /\ inflight = 0
                     /\ Peers = {} /\ ~panicked => Drained

\* A worker that left by itself left nothing behind.
LeftNothing ==
    (Peers = {} /\ ~stop /\ \E w \in Workers : pc[w] = "gone")
        => Drained /\ inflight = 0

\* Before `run` decides, only a panic says stop.
StopMeansPanic ==
    main \in {"create", "lock", "check", "wait"} => (stop => panicked)

IInv ==
    /\ TypeOK
    /\ Holding
    /\ NoWorkersOutside
    /\ BusyIsExact
    /\ Counted
    /\ JoinIsOver
    /\ LeftNothing
    /\ StopMeansPanic

-------------------------------------------------------------------------------
LEMMA ModInRange ==
    ASSUME NEW i \in Nat, NEW k \in Nat, k > 0
    PROVE  (i + 1) % k \in 0 .. k - 1
  OBVIOUS

\* The wait set, the mailboxes and the sends left are no part of the count and
\* the flags: a push changes nothing that IInv says except Drained.
LEMMA InitIInv == Init => IInv
  <1> SUFFICES ASSUME Init PROVE IInv
    OBVIOUS
  <1>1. InsideSet = {}
    BY DEF Init, InsideSet, Inside
  <1>2. Counted
    BY <1>1, FS_EmptySet DEF Init, Counted
  <1>3. mailbox \in [Actor -> Seq(Msg)] /\ mu \in Thread \cup {Free}
    BY DEF Init, Thread
  <1>4. /\ pc \in [Workers -> WorkerPcs] /\ idx \in [Workers -> Nat]
        /\ msg \in [Workers -> Msg \cup {NoMsg}] /\ sends \in [Workers -> Nat]
    BY DEF Init, WorkerPcs
  <1>5. busy \in [Actor -> BOOLEAN] /\ n \in 0 .. MaxActors
    BY BoundsAssumption DEF Init
  <1>6. TypeOK
    BY <1>3, <1>4, <1>5 DEF Init, TypeOK, MainPcs
  <1> QED
    BY <1>2, <1>6, ThreadsAssumption
    DEF Init, IInv, Holding, NoWorkersOutside, BusyIsExact, JoinIsOver,
        LeftNothing, StopMeansPanic, Inside

\* What the count tells: it is zero exactly when nobody is inside.
LEMMA CountIsZero ==
    ASSUME IInv
    PROVE  inflight = 0 <=> \A w \in Workers : ~Inside(w)
  <1>1. IsFiniteSet(InsideSet)
    BY ThreadsAssumption, FS_Subset DEF InsideSet
  <1>2. inflight = 0 <=> InsideSet = {}
    BY <1>1, FS_EmptySet DEF IInv, Counted
  <1> QED
    BY <1>2 DEF InsideSet

LEMMA SpawnKeeps == IInv /\ Spawn => IInv'
  BY BoundsAssumption, ThreadsAssumption DEF Spawn, RunOver, Joined, Broadcast,
        IInv, TypeOK, Holding, NoWorkersOutside, BusyIsExact, Counted, JoinIsOver,
        LeftNothing, StopMeansPanic, InsideSet, Inside, Spawned, Drained, Actor,
        Thread, WorkerPcs, MainPcs, world, state, local

LEMMA CallRunKeeps == IInv /\ CallRun => IInv'
  BY BoundsAssumption, ThreadsAssumption DEF CallRun, RunOver, Joined, Broadcast,
        IInv, TypeOK, Holding, NoWorkersOutside, BusyIsExact, Counted, JoinIsOver,
        LeftNothing, StopMeansPanic, InsideSet, Inside, Spawned, Drained, Actor,
        Thread, WorkerPcs, MainPcs, world, state, local

LEMMA RunNobodyKeeps == IInv /\ RunNobody => IInv'
  BY BoundsAssumption, ThreadsAssumption DEF RunNobody, RunOver, Joined, Broadcast,
        IInv, TypeOK, Holding, NoWorkersOutside, BusyIsExact, Counted, JoinIsOver,
        LeftNothing, StopMeansPanic, InsideSet, Inside, Spawned, Drained, Actor,
        Thread, WorkerPcs, MainPcs, world, state, local

LEMMA RunInitKeeps == IInv /\ RunInit => IInv'
  <1> SUFFICES ASSUME IInv, RunInit PROVE IInv'
    OBVIOUS
  <1>1. TypeOK'
    BY DEF IInv, TypeOK, RunInit, world, local, Actor, Thread, MainPcs
  <1>2. \A w \in Workers : pc[w] = "none" /\ pc'[w] = "none"
    BY DEF RunInit, IInv, NoWorkersOutside, local
  <1>3. InsideSet' = {}
    BY <1>2 DEF InsideSet, Inside
  <1>4. Counted'
    BY <1>3, FS_EmptySet DEF Counted, RunInit
  <1> QED
    BY <1>1, <1>2, <1>4 DEF RunInit, IInv, Holding, NoWorkersOutside, BusyIsExact,
       JoinIsOver, LeftNothing, StopMeansPanic, Inside

LEMMA CreateFailsKeeps == IInv /\ CreateFails => IInv'
  <1> SUFFICES ASSUME IInv, CreateFails PROVE IInv'
    OBVIOUS
  <1>1. TypeOK'
    BY DEF IInv, TypeOK, CreateFails, world, state, local, Actor, Thread
  <1>2. InsideSet' = InsideSet /\ Drained' = Drained
    BY DEF CreateFails, InsideSet, Inside, Drained, Spawned, state, local
  <1> QED
    BY <1>1, <1>2 DEF CreateFails, IInv, Holding, NoWorkersOutside, BusyIsExact,
       Counted, JoinIsOver, LeftNothing, StopMeansPanic, Inside, Spawned,
       state, local

LEMMA MainLockKeeps == IInv /\ MainLock => IInv'
  BY BoundsAssumption, ThreadsAssumption DEF MainLock, RunOver, Joined, Broadcast,
        IInv, TypeOK, Holding, NoWorkersOutside, BusyIsExact, Counted, JoinIsOver,
        LeftNothing, StopMeansPanic, InsideSet, Inside, Spawned, Drained, Actor,
        Thread, WorkerPcs, MainPcs, world, state, local

LEMMA RunStopsKeeps == IInv /\ RunStops => IInv'
  BY BoundsAssumption, ThreadsAssumption DEF RunStops, RunOver, Joined, Broadcast,
        IInv, TypeOK, Holding, NoWorkersOutside, BusyIsExact, Counted, JoinIsOver,
        LeftNothing, StopMeansPanic, InsideSet, Inside, Spawned, Drained, Actor,
        Thread, WorkerPcs, MainPcs, world, state, local

LEMMA RunWaitsKeeps == IInv /\ RunWaits => IInv'
  BY BoundsAssumption, ThreadsAssumption DEF RunWaits, RunOver, Joined, Broadcast,
        IInv, TypeOK, Holding, NoWorkersOutside, BusyIsExact, Counted, JoinIsOver,
        LeftNothing, StopMeansPanic, InsideSet, Inside, Spawned, Drained, Actor,
        Thread, WorkerPcs, MainPcs, world, state, local

LEMMA RunReturnsKeeps == IInv /\ RunReturns => IInv'
  <1> SUFFICES ASSUME IInv, RunReturns PROVE IInv'
    OBVIOUS
  <1>1. TypeOK'
    BY DEF IInv, TypeOK, RunReturns, state, Actor, Thread, MainPcs, WorkerPcs
  <1>2. \A w \in Workers : ~Inside(w) /\ pc'[w] = "none"
    BY DEF RunReturns, Joined, Inside
  <1>3. InsideSet = {} /\ InsideSet' = {}
    BY <1>2 DEF InsideSet, Inside
  <1>4. Counted'
    BY <1>3 DEF Counted, RunReturns, IInv, state
  <1> QED
    BY <1>1, <1>2, <1>4 DEF RunReturns, IInv, Holding, NoWorkersOutside, BusyIsExact,
       JoinIsOver, LeftNothing, StopMeansPanic, Inside, Spawned, Drained, state

LEMMA RunRethrowsKeeps == IInv /\ RunRethrows => IInv'
  <1> SUFFICES ASSUME IInv, RunRethrows PROVE IInv'
    OBVIOUS
  <1>1. TypeOK'
    BY DEF IInv, TypeOK, RunRethrows, state, Actor, Thread, MainPcs, WorkerPcs
  <1>2. \A w \in Workers : ~Inside(w) /\ pc'[w] = "none"
    BY DEF RunRethrows, Joined, Inside
  <1>3. InsideSet = {} /\ InsideSet' = {}
    BY <1>2 DEF InsideSet, Inside
  <1>4. Counted'
    BY <1>3 DEF Counted, RunRethrows, IInv, state
  <1> QED
    BY <1>1, <1>2, <1>4 DEF RunRethrows, IInv, Holding, NoWorkersOutside, BusyIsExact,
       JoinIsOver, LeftNothing, StopMeansPanic, Inside, Spawned, Drained, state

LEMMA MainSendKeeps ==
    ASSUME NEW a \in Spawned, NEW mm \in Msg, IInv, MainSend(a, mm)
    PROVE  IInv'
  <1>1. TypeOK'
    BY BoundsAssumption
    DEF IInv, TypeOK, MainSend, Push, Broadcast, world, state, local, Spawned, Actor
  <1>2. /\ pc' = pc /\ idx' = idx /\ busy' = busy /\ inflight' = inflight /\ n' = n
        /\ mu' = mu /\ main' = main /\ stop' = stop /\ panicked' = panicked
    BY DEF MainSend, world, state, local
  <1>3. InsideSet' = InsideSet /\ \A v \in Workers : Inside(v)' = Inside(v)
    BY <1>2 DEF InsideSet, Inside
  <1>4. Counted' /\ Holding' /\ NoWorkersOutside' /\ StopMeansPanic'
    BY <1>2, <1>3 DEF IInv, Counted, Holding, NoWorkersOutside, StopMeansPanic
  <1>5. BusyIsExact'
    BY <1>2, <1>3 DEF IInv, BusyIsExact, Spawned
  <1>6. JoinIsOver' /\ LeftNothing'
    BY <1>2 DEF IInv, JoinIsOver, LeftNothing, NoWorkersOutside, MainSend
  <1> QED
    BY <1>1, <1>4, <1>5, <1>6 DEF IInv

LEMMA PeerSendKeeps ==
    ASSUME NEW p \in Peers, NEW a \in Spawned, NEW mm \in Msg, IInv,
           PeerSend(p, a, mm)
    PROVE  IInv'
  <1>1. TypeOK'
    BY BoundsAssumption
    DEF IInv, TypeOK, PeerSend, Push, Broadcast, world, state, local, Spawned, Actor
  <1>2. /\ pc' = pc /\ idx' = idx /\ busy' = busy /\ inflight' = inflight /\ n' = n
        /\ mu' = mu /\ main' = main /\ stop' = stop /\ panicked' = panicked
    BY DEF PeerSend, world, state, local
  <1>3. InsideSet' = InsideSet /\ \A v \in Workers : Inside(v)' = Inside(v)
    BY <1>2 DEF InsideSet, Inside
  <1>4. Counted' /\ Holding' /\ NoWorkersOutside' /\ StopMeansPanic'
    BY <1>2, <1>3 DEF IInv, Counted, Holding, NoWorkersOutside, StopMeansPanic
  <1>5. BusyIsExact'
    BY <1>2, <1>3 DEF IInv, BusyIsExact, Spawned
  <1>6. JoinIsOver' /\ LeftNothing'
    BY <1>2 DEF IInv, JoinIsOver, LeftNothing
  <1> QED
    BY <1>1, <1>4, <1>5, <1>6 DEF IInv

LEMMA SpuriousWakeKeeps ==
    ASSUME NEW t \in Thread, IInv, SpuriousWake(t) PROVE IInv'
  BY BoundsAssumption, ThreadsAssumption DEF SpuriousWake,
        IInv, TypeOK, Holding, NoWorkersOutside, BusyIsExact, Counted, JoinIsOver,
        LeftNothing, StopMeansPanic, InsideSet, Inside, Spawned, Drained, Actor,
        Thread, WorkerPcs, MainPcs, world, state, local

LEMMA EnterLoopKeeps ==
    ASSUME NEW w \in Workers, IInv, EnterLoop(w)
    PROVE  IInv'
  <1>1. TypeOK'
    BY ThreadsAssumption, BoundsAssumption
    DEF IInv, TypeOK, EnterLoop, world, state, local, Spawned, Actor, Thread,
        WorkerPcs, MainPcs
  <1>2. /\ \A v \in Workers : Inside(v)' = Inside(v)
        /\ idx' = idx /\ busy' = busy /\ inflight' = inflight /\ n' = n
    BY DEF IInv, TypeOK, EnterLoop, Inside, world, state, local
  <1>3. InsideSet' = InsideSet
    BY <1>2 DEF InsideSet
  <1>4. Counted'
    BY <1>2, <1>3 DEF IInv, Counted
  <1>5. Holding'
    BY ThreadsAssumption
    DEF IInv, TypeOK, Holding, EnterLoop, state, local
  <1>6. NoWorkersOutside'
    BY DEF IInv, TypeOK, NoWorkersOutside, EnterLoop, local, Inside
  <1>7. BusyIsExact'
    BY <1>2 DEF IInv, TypeOK, BusyIsExact, EnterLoop, Spawned, MainPcs
  <1>8. JoinIsOver' /\ StopMeansPanic'
    BY <1>2 DEF IInv, TypeOK, JoinIsOver, StopMeansPanic, EnterLoop, Drained,
       Spawned, state, NoWorkersOutside
  <1>9. LeftNothing'
    BY <1>2 DEF IInv, TypeOK, LeftNothing, BusyIsExact, NoWorkersOutside, EnterLoop,
       Drained, Spawned, Actor, state, local
  <1> QED
    BY <1>1, <1>4, <1>5, <1>6, <1>7, <1>8, <1>9 DEF IInv

LEMMA LeaveKeeps ==
    ASSUME NEW w \in Workers, IInv, Leave(w)
    PROVE  IInv'
  <1>1. TypeOK'
    BY ThreadsAssumption, BoundsAssumption
    DEF IInv, TypeOK, Leave, NothingLeft, NothingToTake, Takeable, Broadcast, world, state, local, Spawned, Actor, Thread,
        WorkerPcs, MainPcs
  <1>2. /\ \A v \in Workers : Inside(v)' = Inside(v)
        /\ idx' = idx /\ busy' = busy /\ inflight' = inflight /\ n' = n
    BY DEF IInv, TypeOK, Leave, NothingLeft, NothingToTake, Takeable, Broadcast, Inside, world, state, local
  <1>3. InsideSet' = InsideSet
    BY <1>2 DEF InsideSet
  <1>4. Counted'
    BY <1>2, <1>3 DEF IInv, Counted
  <1>5. Holding'
    BY ThreadsAssumption
    DEF IInv, TypeOK, Holding, Leave, NothingLeft, NothingToTake, Takeable, Broadcast, state, local
  <1>6. NoWorkersOutside'
    BY DEF IInv, TypeOK, NoWorkersOutside, Leave, NothingLeft, NothingToTake, Takeable, Broadcast, local, Inside
  <1>7. BusyIsExact'
    BY <1>2 DEF IInv, TypeOK, BusyIsExact, Leave, NothingLeft, NothingToTake, Takeable, Broadcast, Spawned, MainPcs
  <1>8. JoinIsOver' /\ StopMeansPanic'
    BY <1>2 DEF IInv, TypeOK, JoinIsOver, StopMeansPanic, Leave, NothingLeft, NothingToTake, Takeable, Broadcast, Drained,
       Spawned, state, NoWorkersOutside
  <1>9. ASSUME ~stop PROVE Drained /\ inflight = 0
    <2>1. NothingToTake /\ inflight = 0
      BY <1>9 DEF Leave, NothingLeft
    <2>2. main \in {"create", "lock", "check", "wait", "join"}
      BY DEF IInv, TypeOK, MainPcs, NoWorkersOutside, Leave
    <2>3. \A a \in Actor : ~busy[a]
      BY <2>1, <2>2, CountIsZero DEF IInv, BusyIsExact
    <2>4. Spawned \subseteq Actor
      BY BoundsAssumption DEF IInv, TypeOK, Spawned, Actor
    <2> QED
      BY <2>1, <2>3, <2>4 DEF NothingToTake, Takeable, Drained
  <1>10. LeftNothing'
    BY <1>2, <1>9 DEF LeftNothing, Leave, Drained, Spawned, state
  <1> QED
    BY <1>1, <1>4, <1>5, <1>6, <1>7, <1>8, <1>10 DEF IInv

LEMMA SleepKeeps ==
    ASSUME NEW w \in Workers, IInv, Sleep(w)
    PROVE  IInv'
  <1>1. TypeOK'
    BY ThreadsAssumption, BoundsAssumption
    DEF IInv, TypeOK, Sleep, NothingLeft, world, state, local, Spawned, Actor, Thread,
        WorkerPcs, MainPcs
  <1>2. /\ \A v \in Workers : Inside(v)' = Inside(v)
        /\ idx' = idx /\ busy' = busy /\ inflight' = inflight /\ n' = n
    BY DEF IInv, TypeOK, Sleep, NothingLeft, Inside, world, state, local
  <1>3. InsideSet' = InsideSet
    BY <1>2 DEF InsideSet
  <1>4. Counted'
    BY <1>2, <1>3 DEF IInv, Counted
  <1>5. Holding'
    BY ThreadsAssumption
    DEF IInv, TypeOK, Holding, Sleep, NothingLeft, state, local
  <1>6. NoWorkersOutside'
    BY DEF IInv, TypeOK, NoWorkersOutside, Sleep, NothingLeft, local, Inside
  <1>7. BusyIsExact'
    BY <1>2 DEF IInv, TypeOK, BusyIsExact, Sleep, NothingLeft, Spawned, MainPcs
  <1>8. JoinIsOver' /\ StopMeansPanic'
    BY <1>2 DEF IInv, TypeOK, JoinIsOver, StopMeansPanic, Sleep, NothingLeft, Drained,
       Spawned, state, NoWorkersOutside
  <1>9. LeftNothing'
    BY <1>2 DEF IInv, TypeOK, LeftNothing, BusyIsExact, NoWorkersOutside, Sleep, NothingLeft,
       Drained, Spawned, Actor, state, local
  <1> QED
    BY <1>1, <1>4, <1>5, <1>6, <1>7, <1>8, <1>9 DEF IInv

LEMMA HandlerReturnKeeps ==
    ASSUME NEW w \in Workers, IInv, HandlerReturn(w)
    PROVE  IInv'
  <1>1. TypeOK'
    BY ThreadsAssumption, BoundsAssumption
    DEF IInv, TypeOK, HandlerReturn, world, state, local, Spawned, Actor, Thread,
        WorkerPcs, MainPcs
  <1>2. /\ \A v \in Workers : Inside(v)' = Inside(v)
        /\ idx' = idx /\ busy' = busy /\ inflight' = inflight /\ n' = n
    BY DEF IInv, TypeOK, HandlerReturn, Inside, world, state, local
  <1>3. InsideSet' = InsideSet
    BY <1>2 DEF InsideSet
  <1>4. Counted'
    BY <1>2, <1>3 DEF IInv, Counted
  <1>5. Holding'
    BY ThreadsAssumption
    DEF IInv, TypeOK, Holding, HandlerReturn, state, local
  <1>6. NoWorkersOutside'
    BY DEF IInv, TypeOK, NoWorkersOutside, HandlerReturn, local, Inside
  <1>7. BusyIsExact'
    BY <1>2 DEF IInv, TypeOK, BusyIsExact, HandlerReturn, Spawned, MainPcs
  <1>8. JoinIsOver' /\ StopMeansPanic'
    BY <1>2 DEF IInv, TypeOK, JoinIsOver, StopMeansPanic, HandlerReturn, Drained,
       Spawned, state, NoWorkersOutside
  <1>9. LeftNothing'
    BY <1>2 DEF IInv, TypeOK, LeftNothing, BusyIsExact, NoWorkersOutside, HandlerReturn,
       Drained, Spawned, Actor, state, local
  <1> QED
    BY <1>1, <1>4, <1>5, <1>6, <1>7, <1>8, <1>9 DEF IInv

LEMMA HandlerUnwindsKeeps ==
    ASSUME NEW w \in Workers, IInv, HandlerUnwinds(w)
    PROVE  IInv'
  <1>1. TypeOK'
    BY ThreadsAssumption, BoundsAssumption
    DEF IInv, TypeOK, HandlerUnwinds, world, state, local, Spawned, Actor, Thread,
        WorkerPcs, MainPcs
  <1>2. /\ \A v \in Workers : Inside(v)' = Inside(v)
        /\ idx' = idx /\ busy' = busy /\ inflight' = inflight /\ n' = n
    BY DEF IInv, TypeOK, HandlerUnwinds, Inside, world, state, local
  <1>3. InsideSet' = InsideSet
    BY <1>2 DEF InsideSet
  <1>4. Counted'
    BY <1>2, <1>3 DEF IInv, Counted
  <1>5. Holding'
    BY ThreadsAssumption
    DEF IInv, TypeOK, Holding, HandlerUnwinds, state, local
  <1>6. NoWorkersOutside'
    BY DEF IInv, TypeOK, NoWorkersOutside, HandlerUnwinds, local, Inside
  <1>7. BusyIsExact'
    BY <1>2 DEF IInv, TypeOK, BusyIsExact, HandlerUnwinds, Spawned, MainPcs
  <1>8. JoinIsOver' /\ StopMeansPanic'
    BY <1>2 DEF IInv, TypeOK, JoinIsOver, StopMeansPanic, HandlerUnwinds, Drained,
       Spawned, state, NoWorkersOutside
  <1>9. LeftNothing'
    BY <1>2 DEF IInv, TypeOK, LeftNothing, BusyIsExact, NoWorkersOutside, HandlerUnwinds,
       Drained, Spawned, Actor, state, local
  <1> QED
    BY <1>1, <1>4, <1>5, <1>6, <1>7, <1>8, <1>9 DEF IInv

LEMMA PanicExitsKeeps ==
    ASSUME NEW w \in Workers, IInv, PanicExits(w)
    PROVE  IInv'
  <1>1. TypeOK'
    BY ThreadsAssumption, BoundsAssumption
    DEF IInv, TypeOK, PanicExits, world, state, local, Spawned, Actor, Thread,
        WorkerPcs, MainPcs
  <1>2. /\ \A v \in Workers : Inside(v)' = Inside(v)
        /\ idx' = idx /\ busy' = busy /\ inflight' = inflight /\ n' = n
    BY DEF IInv, TypeOK, PanicExits, Inside, world, state, local
  <1>3. InsideSet' = InsideSet
    BY <1>2 DEF InsideSet
  <1>4. Counted'
    BY <1>2, <1>3 DEF IInv, Counted
  <1>5. Holding'
    BY ThreadsAssumption
    DEF IInv, TypeOK, Holding, PanicExits, state, local
  <1>6. NoWorkersOutside'
    BY DEF IInv, TypeOK, NoWorkersOutside, PanicExits, local, Inside
  <1>7. BusyIsExact'
    BY <1>2 DEF IInv, TypeOK, BusyIsExact, PanicExits, Spawned, MainPcs
  <1>8. JoinIsOver' /\ StopMeansPanic'
    BY <1>2 DEF IInv, TypeOK, JoinIsOver, StopMeansPanic, PanicExits, Drained,
       Spawned, state, NoWorkersOutside
  <1>9. LeftNothing'
    BY <1>2 DEF IInv, TypeOK, LeftNothing, BusyIsExact, NoWorkersOutside, PanicExits,
       Drained, Spawned, Actor, state, local
  <1> QED
    BY <1>1, <1>4, <1>5, <1>6, <1>7, <1>8, <1>9 DEF IInv

LEMMA CarryPanicKeeps ==
    ASSUME NEW w \in Workers, IInv, CarryPanic(w)
    PROVE  IInv'
  <1>1. TypeOK'
    BY ThreadsAssumption, BoundsAssumption
    DEF IInv, TypeOK, CarryPanic, world, state, local, Spawned, Actor, Thread,
        WorkerPcs, MainPcs
  <1>2. /\ \A v \in Workers : Inside(v)' = Inside(v)
        /\ idx' = idx /\ busy' = busy /\ inflight' = inflight /\ n' = n
    BY DEF IInv, TypeOK, CarryPanic, Inside, world, state, local
  <1>3. InsideSet' = InsideSet
    BY <1>2 DEF InsideSet
  <1>4. Counted'
    BY <1>2, <1>3 DEF IInv, Counted
  <1>5. Holding'
    BY ThreadsAssumption
    DEF IInv, TypeOK, Holding, CarryPanic, state, local
  <1>6. NoWorkersOutside'
    BY DEF IInv, TypeOK, NoWorkersOutside, CarryPanic, local, Inside
  <1>7. BusyIsExact'
    BY <1>2 DEF IInv, TypeOK, BusyIsExact, CarryPanic, Spawned, MainPcs
  <1>8. JoinIsOver' /\ StopMeansPanic'
    BY <1>2 DEF IInv, TypeOK, JoinIsOver, StopMeansPanic, CarryPanic, Drained,
       Spawned, state, NoWorkersOutside
  <1>9. LeftNothing'
    BY <1>2 DEF IInv, TypeOK, LeftNothing, BusyIsExact, NoWorkersOutside, CarryPanic,
       Drained, Spawned, Actor, state, local
  <1> QED
    BY <1>1, <1>4, <1>5, <1>6, <1>7, <1>8, <1>9 DEF IInv

LEMMA CreateKeeps ==
    ASSUME NEW w \in Workers, IInv, Create(w)
    PROVE  IInv'
  <1>1. TypeOK'
    BY ThreadsAssumption, BoundsAssumption
    DEF IInv, TypeOK, Create, world, state, local, Spawned, Actor, Thread,
        WorkerPcs, MainPcs
  <1>2. /\ \A v \in Workers : Inside(v)' = Inside(v)
        /\ idx' = idx /\ busy' = busy /\ inflight' = inflight /\ n' = n
    BY DEF IInv, TypeOK, Create, Inside, world, state, local
  <1>3. InsideSet' = InsideSet
    BY <1>2 DEF InsideSet
  <1>4. Counted'
    BY <1>2, <1>3 DEF IInv, Counted
  <1>5. Holding'
    BY ThreadsAssumption
    DEF IInv, TypeOK, Holding, Create, state, local
  <1>6. NoWorkersOutside'
    BY DEF IInv, TypeOK, NoWorkersOutside, Create, local, Inside
  <1>7. BusyIsExact'
    BY <1>2 DEF IInv, TypeOK, BusyIsExact, Create, Spawned, MainPcs
  <1>8. JoinIsOver' /\ StopMeansPanic'
    BY <1>2 DEF IInv, TypeOK, JoinIsOver, StopMeansPanic, Create, Drained,
       Spawned, state, NoWorkersOutside
  <1>9. LeftNothing'
    BY <1>2 DEF IInv, TypeOK, LeftNothing, BusyIsExact, NoWorkersOutside, Create,
       Drained, Spawned, Actor, state, local
  <1> QED
    BY <1>1, <1>4, <1>5, <1>6, <1>7, <1>8, <1>9 DEF IInv

LEMMA HandlerSendKeeps ==
    ASSUME NEW w \in Workers, NEW a \in Spawned, NEW mm \in Msg, IInv, HandlerSend(w, a, mm)
    PROVE  IInv'
  <1>1. TypeOK'
    BY ThreadsAssumption, BoundsAssumption
    DEF IInv, TypeOK, HandlerSend, Push, Broadcast, world, state, local, Spawned, Actor, Thread,
        WorkerPcs, MainPcs
  <1>2. /\ \A v \in Workers : Inside(v)' = Inside(v)
        /\ idx' = idx /\ busy' = busy /\ inflight' = inflight /\ n' = n
    BY DEF IInv, TypeOK, HandlerSend, Push, Broadcast, Inside, world, state, local
  <1>3. InsideSet' = InsideSet
    BY <1>2 DEF InsideSet
  <1>4. Counted'
    BY <1>2, <1>3 DEF IInv, Counted
  <1>5. Holding'
    BY ThreadsAssumption
    DEF IInv, TypeOK, Holding, HandlerSend, Push, Broadcast, state, local
  <1>6. NoWorkersOutside'
    BY DEF IInv, TypeOK, NoWorkersOutside, HandlerSend, Push, Broadcast, local, Inside
  <1>7. BusyIsExact'
    BY <1>2 DEF IInv, TypeOK, BusyIsExact, HandlerSend, Push, Broadcast, Spawned, MainPcs
  <1>a. inflight # 0
    BY CountIsZero DEF HandlerSend, Inside
  <1>8. JoinIsOver' /\ StopMeansPanic'
    BY <1>2, <1>a DEF IInv, TypeOK, JoinIsOver, StopMeansPanic, HandlerSend, Push, Broadcast, Drained,
       Spawned, state, NoWorkersOutside
  <1>9. LeftNothing'
    BY <1>2, <1>a DEF IInv, TypeOK, LeftNothing, BusyIsExact, NoWorkersOutside, HandlerSend, Push, Broadcast,
       Drained, Spawned, Actor, state, local
  <1> QED
    BY <1>1, <1>4, <1>5, <1>6, <1>7, <1>8, <1>9 DEF IInv

LEMMA FinishKeeps ==
    ASSUME NEW w \in Workers, IInv, Finish(w)
    PROVE  IInv'
  <1>1. /\ Inside(w) /\ ~Inside(w)' /\ idx' = idx /\ n' = n /\ main' = main
        /\ \A v \in Workers \ {w} : Inside(v)' = Inside(v)
    BY DEF IInv, TypeOK, Finish, Inside, world
  <1>2. InsideSet' = InsideSet \ {w} /\ w \in InsideSet
    BY <1>1 DEF InsideSet
  <1>3. IsFiniteSet(InsideSet)
    BY ThreadsAssumption, FS_Subset DEF InsideSet
  <1>4. Cardinality(InsideSet') = Cardinality(InsideSet) - 1
    BY <1>2, <1>3, FS_RemoveElement
  <1>5. inflight # 0
    BY <1>1, CountIsZero
  <1>6. Counted' /\ inflight' \in Nat
    BY <1>4, <1>5 DEF IInv, TypeOK, Counted, Finish, LetGo
  <1>7. TypeOK'
    BY <1>6 DEF IInv, TypeOK, Finish, LetGo, Broadcast, world, Thread, WorkerPcs
  <1>8. Holding' /\ NoWorkersOutside'
    BY <1>1, ThreadsAssumption
    DEF IInv, TypeOK, Holding, NoWorkersOutside, Finish, Inside
  <1>9. BusyIsExact'
    <2>1. /\ busy \in [Actor -> BOOLEAN]
          /\ \A a \in Actor : busy'[a] = IF a = idx[w] THEN FALSE ELSE busy[a]
      BY DEF IInv, TypeOK, Finish, LetGo
    <2>2. Spawned' = Spawned /\ Spawned \subseteq Actor
      BY <1>1, BoundsAssumption DEF IInv, TypeOK, Spawned, Actor
    <2>3. \A v \in Workers \ {w} : Inside(v) => idx[v] # idx[w]
      BY <1>1 DEF IInv, BusyIsExact
    <2>4. \A v \in Workers : Inside(v)' => idx'[v] \in Spawned' /\ busy'[idx'[v]]
      BY <1>1, <2>1, <2>2, <2>3 DEF IInv, BusyIsExact
    <2>5. \A v1, v2 \in Workers :
            Inside(v1)' /\ Inside(v2)' /\ idx'[v1] = idx'[v2] => v1 = v2
      BY <1>1 DEF IInv, BusyIsExact
    <2>6. ASSUME main' \in {"create", "lock", "check", "wait", "join"},
                 NEW a \in Actor, busy'[a]
          PROVE  \E v \in Workers : Inside(v)' /\ idx'[v] = a
      <3>1. a # idx[w] /\ busy[a]
        BY <2>1, <2>6
      <3>2. PICK v \in Workers : Inside(v) /\ idx[v] = a
        BY <3>1, <2>6, <1>1 DEF IInv, BusyIsExact
      <3> QED
        BY <3>1, <3>2, <1>1
    <2> QED
      BY <2>4, <2>5, <2>6 DEF BusyIsExact
  <1>10. JoinIsOver' /\ StopMeansPanic' /\ LeftNothing'
    BY <1>1, <1>5 DEF IInv, TypeOK, JoinIsOver, StopMeansPanic, LeftNothing,
       Finish, LetGo, Drained, Spawned, Inside
  <1> QED
    BY <1>6, <1>7, <1>8, <1>9, <1>10 DEF IInv

LEMMA TakeKeeps ==
    ASSUME NEW w \in Workers, NEW i \in Spawned, IInv, Take(w, i)
    PROVE  IInv'
  <1>1. /\ ~Inside(w) /\ Inside(w)' /\ idx' = [idx EXCEPT ![w] = i]
        /\ n' = n /\ main' = main /\ n \in Nat /\ n > 0 /\ i \in Nat
        /\ \A v \in Workers \ {w} : Inside(v)' = Inside(v)
    BY BoundsAssumption DEF IInv, TypeOK, Take, Inside, world, Spawned
  <1>2. InsideSet' = InsideSet \cup {w} /\ w \notin InsideSet
    BY <1>1 DEF InsideSet
  <1>3. IsFiniteSet(InsideSet)
    BY ThreadsAssumption, FS_Subset DEF InsideSet
  <1>4. Cardinality(InsideSet') = Cardinality(InsideSet) + 1
    BY <1>2, <1>3, FS_AddElement
  <1>5. Counted'
    BY <1>4 DEF IInv, Counted, Take
  <1>6. i \in Actor /\ mailbox[i] \in Seq(Msg) /\ mailbox[i] # << >> /\ ~busy[i]
    BY BoundsAssumption DEF IInv, TypeOK, Spawned, Actor, Take, FirstTakeable, Takeable
  <1>7. next' \in Nat /\ next' < n
    BY <1>1, ModInRange DEF Take, ScanAfter
  <1>8. TypeOK'
    BY <1>1, <1>6, <1>7, BoundsAssumption
    DEF IInv, TypeOK, Take, world, Thread, WorkerPcs
  <1>9. Holding' /\ NoWorkersOutside'
    BY <1>1, ThreadsAssumption
    DEF IInv, TypeOK, Holding, NoWorkersOutside, Take, Inside
  <1>10. BusyIsExact'
    <2>1. \A a \in Actor : busy'[a] = IF a = i THEN TRUE ELSE busy[a]
      BY DEF IInv, TypeOK, Take
    <2>2. Spawned' = Spawned /\ Spawned \subseteq Actor
      BY <1>1, BoundsAssumption DEF IInv, TypeOK, Spawned, Actor
    <2>3. \A v \in Workers \ {w} : idx'[v] = idx[v] /\ (Inside(v) => idx[v] # i)
      BY <1>1, <1>6 DEF IInv, TypeOK, BusyIsExact
    <2>4. idx'[w] = i
      BY <1>1 DEF IInv, TypeOK
    <2>5. \A v \in Workers : Inside(v)' => idx'[v] \in Spawned' /\ busy'[idx'[v]]
      <3>1. i \in Spawned' /\ busy'[i]
        BY <1>6, <2>1, <2>2
      <3>2. \A v \in Workers \ {w} : Inside(v)' => idx[v] \in Spawned /\ busy[idx[v]]
        BY <1>1 DEF IInv, BusyIsExact
      <3> QED
        BY <3>1, <3>2, <2>1, <2>2, <2>3, <2>4
    <2>6. \A v1, v2 \in Workers :
            Inside(v1)' /\ Inside(v2)' /\ idx'[v1] = idx'[v2] => v1 = v2
      BY <1>1, <2>3, <2>4 DEF IInv, BusyIsExact
    <2>7. ASSUME main' \in {"create", "lock", "check", "wait", "join"},
                 NEW a \in Actor, busy'[a]
          PROVE  \E v \in Workers : Inside(v)' /\ idx'[v] = a
      <3>1. CASE a = i
        BY <3>1, <1>1, <2>4
      <3>2. CASE a # i
        <4>1. PICK v \in Workers : Inside(v) /\ idx[v] = a
          BY <3>2, <2>1, <2>7, <1>1 DEF IInv, BusyIsExact
        <4> QED
          BY <4>1, <3>2, <1>1, <2>3
      <3> QED
        BY <3>1, <3>2
    <2> QED
      BY <2>5, <2>6, <2>7 DEF BusyIsExact
  <1>11. JoinIsOver' /\ StopMeansPanic' /\ LeftNothing'
    BY <1>1, <1>6 DEF IInv, TypeOK, JoinIsOver, StopMeansPanic, LeftNothing,
       Take, Drained, Inside
  <1> QED
    BY <1>5, <1>8, <1>9, <1>10, <1>11 DEF IInv

-------------------------------------------------------------------------------
LEMMA StutterKeeps == IInv /\ UNCHANGED vars => IInv'
  BY DEF IInv, TypeOK, Holding, NoWorkersOutside, BusyIsExact, Counted, JoinIsOver,
     LeftNothing, StopMeansPanic, InsideSet, Inside, Spawned, Drained, vars

LEMMA NextKeeps == IInv /\ [Next]_vars => IInv'
  <1> SUFFICES ASSUME IInv, [Next]_vars PROVE IInv'
    OBVIOUS
  <1>1. CASE MainStep
    BY <1>1, SpawnKeeps, MainSendKeeps, CallRunKeeps, RunNobodyKeeps, RunInitKeeps,
       CreateKeeps, CreateFailsKeeps, MainLockKeeps, RunStopsKeeps, RunWaitsKeeps,
       RunReturnsKeeps, RunRethrowsKeeps
    DEF MainStep
  <1>2. CASE EnvStep
    BY <1>2, PeerSendKeeps, SpuriousWakeKeeps DEF EnvStep
  <1>3. ASSUME NEW w \in Workers, WorkerStep(w) PROVE IInv'
    BY <1>3, EnterLoopKeeps, TakeKeeps, LeaveKeeps, SleepKeeps, HandlerSendKeeps,
       HandlerReturnKeeps, HandlerUnwindsKeeps, PanicExitsKeeps, CarryPanicKeeps,
       FinishKeeps
    DEF WorkerStep
  <1>4. CASE UNCHANGED vars
    BY <1>4, StutterKeeps
  <1> QED
    BY <1>1, <1>2, <1>3, <1>4 DEF Next

THEOREM InvariantHolds == Spec => []IInv
  BY InitIInv, NextKeeps, PTL DEF Spec

\* The types of the scheduler's state, whatever the number of actors,
\* workers and cores.
THEOREM TypeCorrect == Spec => []TypeOK
  <1>1. IInv => TypeOK
    BY DEF IInv
  <1> QED
    BY <1>1, InvariantHolds, PTL

\* No two workers are ever inside one actor: the promise the whole model
\* rests on (docs/threads.md, "A pool, not a thread per actor").
THEOREM NeverTwoInOneActor == Spec => []OneAtATime
  <1>1. IInv => OneAtATime
    BY DEF IInv, BusyIsExact, OneAtATime
  <1> QED
    BY <1>1, InvariantHolds, PTL

\* KealRunState.workers counts the handlers in flight.
THEOREM InflightCounts == Spec => []InflightIsExact
  <1>1. IInv => InflightIsExact
    BY DEF IInv, Counted, InsideSet, InflightIsExact
  <1> QED
    BY <1>1, InvariantHolds, PTL

\* A worker that ends on its own was right to: with nobody outside the
\* system sending, nothing is queued and no handler is in flight.
THEOREM WorkersLeaveInQuiescence == Spec => []LeftIsQuiescent
  <1>1. IInv => LeftIsQuiescent
    BY DEF IInv, LeftNothing, LeftIsQuiescent
  <1> QED
    BY <1>1, InvariantHolds, PTL

\* `run` joins only when no handler is running and, unless one panicked,
\* every message was handled.
THEOREM RunJoinsInQuiescence == Spec => []JoinIsQuiescent
  <1>1. IInv => JoinIsQuiescent
    BY CountIsZero DEF IInv, JoinIsOver, JoinIsQuiescent
  <1> QED
    BY <1>1, InvariantHolds, PTL
-------------------------------------------------------------------------------
(* The pool implements ActorModel.  Every step of it is a step of the model *)
(* or none, in the states where, besides IInv, a worker inside an actor has *)
(* a message in its hands, a panic has told the others to stop, and actors  *)
(* that are not there yet have no mail.                                     *)
InHand == \A w \in Workers : Inside(w) => msg[w] \in Msg
PanicStops == main \in {"create", "lock", "check", "wait", "join"} => (panicked => stop)
OnlySpawnedHaveMail == \A a \in Actor : a \notin Spawned => mailbox[a] = << >>

RInv == IInv /\ InHand /\ PanicStops /\ OnlySpawnedHaveMail

LEMMA InitRInv == Init => RInv
  BY InitIInv DEF Init, RInv, InHand, PanicStops, OnlySpawnedHaveMail, Inside

\* A worker gets its message with its actor, and keeps it as long.
LEMMA InHandKeeps == RInv /\ [Next]_vars => InHand'
  <1> SUFFICES ASSUME RInv, [Next]_vars PROVE InHand'
    OBVIOUS
  <1> USE DEF RInv, IInv, TypeOK, InHand, Inside
  <1>1. ASSUME MainStep \/ EnvStep \/ UNCHANGED vars PROVE InHand'
    BY <1>1 DEF MainStep, EnvStep, Spawn, MainSend, CallRun, RunNobody, RunInit, Create,
       CreateFails, MainLock, RunStops, RunWaits, RunReturns, RunRethrows, PeerSend,
       SpuriousWake, local, vars
  <1>2. ASSUME NEW w \in Workers, NEW i \in Spawned, Take(w, i) PROVE InHand'
    <2>1. mailbox[i] \in Seq(Msg) /\ mailbox[i] # << >>
      BY <1>2, BoundsAssumption DEF Take, FirstTakeable, Takeable, Spawned, Actor
    <2>2. Head(mailbox[i]) \in Msg
      BY <2>1
    <2> QED
      BY <1>2, <2>2 DEF Take
  <1>3. ASSUME NEW w \in Workers,
               \/ EnterLoop(w) \/ Leave(w) \/ Sleep(w) \/ HandlerReturn(w)
               \/ HandlerUnwinds(w) \/ PanicExits(w) \/ CarryPanic(w) \/ Finish(w)
               \/ \E a \in Spawned, m \in Msg : HandlerSend(w, a, m)
        PROVE InHand'
    BY <1>3 DEF EnterLoop, Leave, Sleep, HandlerReturn, HandlerUnwinds, PanicExits,
       CarryPanic, Finish, HandlerSend, local
  <1> QED
    BY <1>1, <1>2, <1>3 DEF Next, WorkerStep

LEMMA PanicStopsKeeps == RInv /\ [Next]_vars => PanicStops'
  <1> SUFFICES ASSUME RInv, [Next]_vars PROVE PanicStops'
    OBVIOUS
  <1> USE DEF RInv, PanicStops
  <1>1. ASSUME MainStep \/ EnvStep \/ UNCHANGED vars PROVE PanicStops'
    BY <1>1 DEF MainStep, EnvStep, Spawn, MainSend, CallRun, RunNobody, RunInit, Create,
       CreateFails, MainLock, RunStops, RunWaits, RunReturns, RunRethrows, PeerSend,
       SpuriousWake, state, vars
  <1>2. ASSUME NEW w \in Workers, WorkerStep(w) PROVE PanicStops'
    BY <1>2 DEF WorkerStep, EnterLoop, Take, Leave, Sleep, HandlerReturn, HandlerUnwinds,
       PanicExits, CarryPanic, Finish, HandlerSend, state
  <1> QED
    BY <1>1, <1>2 DEF Next

\* A push goes to an actor that is there, and a delivery takes from one.
LEMMA MailKeeps == RInv /\ [Next]_vars => OnlySpawnedHaveMail'
  <1> SUFFICES ASSUME RInv, [Next]_vars PROVE OnlySpawnedHaveMail'
    OBVIOUS
  <1> USE DEF RInv, IInv, TypeOK, OnlySpawnedHaveMail, Spawned
  <1>1. ASSUME MainStep \/ EnvStep \/ UNCHANGED vars PROVE OnlySpawnedHaveMail'
    BY <1>1, BoundsAssumption DEF MainStep, EnvStep, Spawn, MainSend, CallRun, RunNobody,
       RunInit, Create, CreateFails, MainLock, RunStops, RunWaits, RunReturns,
       RunRethrows, PeerSend, Push, SpuriousWake, world, vars, Actor
  <1>2. ASSUME NEW w \in Workers, WorkerStep(w) PROVE OnlySpawnedHaveMail'
    BY <1>2, BoundsAssumption DEF WorkerStep, EnterLoop, Take, Leave, Sleep, HandlerReturn,
       HandlerUnwinds, PanicExits, CarryPanic, Finish, HandlerSend, Push, world, Actor
  <1> QED
    BY <1>1, <1>2 DEF Next

LEMMA NextKeepsR == RInv /\ [Next]_vars => RInv'
  BY NextKeeps, InHandKeeps, PanicStopsKeeps, MailKeeps DEF RInv

THEOREM RInvHolds == Spec => []RInv
  BY InitRInv, NextKeepsR, PTL DEF Spec

\* What is handled in an actor is the message of the worker inside it.
HandlingIsHis ==
    \A a \in Actor, w \in Workers : Inside(w) /\ idx[w] = a => Handling(a) = msg[w]
HandlingNobody ==
    \A a \in Actor : (\A w \in Workers : Inside(w) => idx[w] # a) => Handling(a) = NoMsg

LEMMA HandlingTells == IInv => HandlingIsHis /\ HandlingNobody
  <1> SUFFICES ASSUME IInv PROVE HandlingIsHis
    BY DEF HandlingNobody, Handling
  <1> SUFFICES ASSUME NEW a \in Actor, NEW w \in Workers, Inside(w), idx[w] = a
               PROVE  Handling(a) = msg[w]
    BY DEF HandlingIsHis
  <1>1. \A v \in Workers : Inside(v) /\ idx[v] = a <=> v = w
    BY DEF IInv, BusyIsExact
  <1>2. (CHOOSE v \in Workers : Inside(v) /\ idx[v] = a) = w
    BY <1>1
  <1> QED
    BY <1>2 DEF Handling

LEMMA HandlingTellsNext == IInv' => HandlingIsHis' /\ HandlingNobody'
  BY HandlingTells, PTL

\* What is handled stays, but by the worker whose step it is.
LEMMA HandlingElsewhere ==
    ASSUME IInv, IInv', NEW a \in Actor,
           \A w \in Workers : (Inside(w) /\ idx[w] = a) <=> (Inside(w)' /\ idx'[w] = a),
           \A w \in Workers : Inside(w) /\ idx[w] = a => msg'[w] = msg[w]
    PROVE  Handling(a)' = Handling(a)
  <1>1. CASE \E w \in Workers : Inside(w) /\ idx[w] = a
    <2>1. PICK w \in Workers : Inside(w) /\ idx[w] = a
      BY <1>1
    <2>2. Inside(w)' /\ idx'[w] = a /\ msg'[w] = msg[w]
      BY <2>1
    <2> QED
      BY <2>1, <2>2, HandlingTells, HandlingTellsNext DEF HandlingIsHis
  <1>2. CASE \A w \in Workers : ~(Inside(w) /\ idx[w] = a)
    BY <1>2, HandlingTells, HandlingTellsNext DEF HandlingNobody
  <1> QED
    BY <1>1, <1>2

\* Steps that take up no message and put none down.
Kept == /\ \A w \in Workers : Inside(w)' = Inside(w)
        /\ idx' = idx /\ msg' = msg
LEMMA HandlingKept ==
    ASSUME IInv, IInv', Kept
    PROVE  \A a \in Actor : Handling(a)' = Handling(a)
  BY HandlingElsewhere DEF Kept

\* The model's other two variables.
Phase == CASE main \in {"out", "join"} -> "out"
           [] main = "begin" -> "running"
           [] OTHER -> IF panicked THEN "failed" ELSE "running"
Told == IF main # "join" THEN outcome ELSE IF panicked THEN "panic" ELSE "ok"

(* Step by step.  A step of the pool that the model does not see: *)
LEMMA Unseen ==
    ASSUME IInv, IInv', Kept, mailbox' = mailbox, Phase' = Phase, Told' = Told
    PROVE  UNCHANGED Model!avars
  BY HandlingKept DEF Model!avars, Phase, Told

LEMMA Pushed ==
    ASSUME IInv, IInv', Kept, Phase' = Phase, Told' = Told,
           NEW a \in Spawned, NEW m \in Msg, Push(a, m)
    PROVE  Model!ANext
  <1>1. a \in Actor
    BY BoundsAssumption DEF IInv, TypeOK, Spawned, Actor
  <1>2. Model!Send(a, m)
    BY HandlingKept DEF Model!Send, Push, Phase, Told
  <1> QED
    BY <1>1, <1>2 DEF Model!ANext, Actor

LEMMA MainIsQuiet ==
    ASSUME RInv, RInv',
           \/ Spawn \/ RunInit \/ CreateFails \/ MainLock \/ RunWaits \/ RunReturns
           \/ RunRethrows \/ \E w \in Workers : Create(w)
    PROVE  UNCHANGED Model!avars
  <1>1. Kept
    <2>1. CASE RunReturns \/ RunRethrows
      BY <2>1 DEF Kept, Inside, RunReturns, RunRethrows, Joined
    <2>2. CASE \E w \in Workers : Create(w)
      <3>1. pc \in [Workers -> WorkerPcs]
        BY DEF RInv, IInv, TypeOK
      <3> QED
        BY <2>2, <3>1 DEF Kept, Inside, Create
    <2>3. CASE Spawn \/ RunInit \/ CreateFails \/ MainLock \/ RunWaits
      BY <2>3 DEF Kept, Inside, Spawn, RunInit, CreateFails, MainLock, RunWaits, local
    <2> QED
      BY <2>1, <2>2, <2>3
  <1>2. mailbox' = mailbox
    BY DEF Spawn, RunInit, CreateFails, MainLock, RunWaits, RunReturns, RunRethrows, Create
  <1>3. Phase' = Phase
    BY DEF Phase, Spawn, RunInit, CreateFails, MainLock, RunWaits, RunReturns, RunRethrows,
       Create, state
  <1>4. Told' = Told
    BY DEF Told, Spawn, RunInit, CreateFails, MainLock, RunWaits, RunReturns, RunRethrows,
       Create, state, world
  <1> QED
    BY <1>1, <1>2, <1>3, <1>4, Unseen DEF RInv

\* `run` is called, and comes back with everything handled or with a panic.
LEMMA CallRunBegins == ASSUME RInv, RInv', CallRun PROVE Model!RunBegins
  <1>1. Kept
    BY DEF Kept, Inside, CallRun, local
  <1> QED
    BY <1>1, HandlingKept DEF RInv, Model!RunBegins, CallRun

\* Nobody is inside an actor: the model is idle, and stays so.
LEMMA NobodyIsIdle ==
    ASSUME RInv, \A w \in Workers : ~Inside(w)
    PROVE  Model!Idle
  BY HandlingTells DEF RInv, HandlingNobody, Model!Idle

LEMMA RunNobodyReturns == ASSUME RInv, RInv', RunNobody PROVE Model!RunReturns
  <1>1. Kept
    BY DEF Kept, Inside, RunNobody, local
  <1>2. \A w \in Workers : ~Inside(w)
    BY DEF RInv, IInv, NoWorkersOutside, RunNobody, Inside
  <1>3. \A a \in Actor : mailbox[a] = << >>
    BY DEF RInv, OnlySpawnedHaveMail, RunNobody, Spawned
  <1>4. Model!Quiescent
    BY <1>2, <1>3, NobodyIsIdle DEF Model!Quiescent
  <1> QED
    BY <1>1, <1>4, HandlingKept DEF RInv, Model!RunReturns, RunNobody

LEMMA RunStopsReturns ==
    ASSUME RInv, RInv', RunStops PROVE Model!RunReturns \/ Model!RunRethrows
  <1>1. Kept
    BY DEF Kept, Inside, RunStops, local
  <1>2. \A w \in Workers : ~Inside(w)
    BY CountIsZero DEF RInv, RunStops, RunOver
  <1>3. Model!Idle
    BY <1>2, NobodyIsIdle
  <1>4. CASE panicked
    BY <1>1, <1>3, <1>4, HandlingKept DEF RInv, Model!RunRethrows, RunStops
  <1>5. CASE ~panicked
    <2>1. Drained
      BY <1>5 DEF RInv, IInv, StopMeansPanic, RunStops, RunOver
    <2>2. \A a \in Actor : mailbox[a] = << >>
      BY <2>1 DEF Drained, RInv, OnlySpawnedHaveMail
    <2>3. Model!Quiescent
      BY <1>3, <2>2 DEF Model!Quiescent
    <2> QED
      BY <1>1, <1>5, <2>3, HandlingKept DEF RInv, Model!RunReturns, RunStops
  <1> QED
    BY <1>4, <1>5 DEF RInv, IInv, TypeOK

\* A worker inside an actor means that the run is on.
LEMMA InsideIsOn ==
    ASSUME RInv, NEW w \in Workers, pc[w] # "none", Inside(w) \/ ~stop
    PROVE  main \in {"create", "lock", "check", "wait"}
  <1>1. Inside(w) => inflight # 0
    BY CountIsZero DEF RInv
  <1> QED
    BY <1>1 DEF RInv, IInv, TypeOK, MainPcs, NoWorkersOutside, JoinIsOver

LEMMA WorkerIsQuiet ==
    ASSUME RInv, RInv', NEW w \in Workers,
           \/ EnterLoop(w) \/ Leave(w) \/ Sleep(w) \/ HandlerReturn(w)
           \/ HandlerUnwinds(w) \/ PanicExits(w)
    PROVE  UNCHANGED Model!avars
  <1>1. Kept
    <2>1. pc \in [Workers -> WorkerPcs]
      BY DEF RInv, IInv, TypeOK
    <2> QED
      BY <2>1 DEF Kept, Inside, EnterLoop, Leave, Sleep, HandlerReturn, HandlerUnwinds,
         PanicExits, local
  <1>2. mailbox' = mailbox
    BY DEF EnterLoop, Leave, Sleep, HandlerReturn, HandlerUnwinds, PanicExits
  <1>3. Phase' = Phase /\ Told' = Told
    BY DEF Phase, Told, EnterLoop, Leave, Sleep, HandlerReturn, HandlerUnwinds, PanicExits,
       state, world
  <1> QED
    BY <1>1, <1>2, <1>3, Unseen DEF RInv

\* A delivery: the worker takes the oldest message of an actor nobody is inside.
LEMMA TakeBegins ==
    ASSUME RInv, RInv', NEW w \in Workers, NEW i \in Spawned, Take(w, i)
    PROVE  Model!Begin(i)
  <1>1. i \in Actor /\ mailbox[i] # << >> /\ ~busy[i]
    BY BoundsAssumption
    DEF RInv, IInv, TypeOK, Spawned, Actor, Take, FirstTakeable, Takeable
  <1>2. main \in {"create", "lock", "check", "wait"} /\ ~stop
    BY InsideIsOn DEF Take
  <1>3. ~panicked
    BY <1>2 DEF RInv, PanicStops
  <1>4. Phase = "running" /\ Phase' = Phase /\ Told' = Told
    BY <1>2, <1>3 DEF Take, Phase, Told, world
  <1>5. /\ ~Inside(w) /\ Inside(w)' /\ idx'[w] = i /\ msg'[w] = Head(mailbox[i])
        /\ \A v \in Workers \ {w} :
              Inside(v)' = Inside(v) /\ idx'[v] = idx[v] /\ msg'[v] = msg[v]
    BY DEF RInv, IInv, TypeOK, Take, Inside
  <1>6. Handling(i) = NoMsg
    <2>1. \A v \in Workers : Inside(v) => idx[v] # i
      BY <1>1 DEF RInv, IInv, BusyIsExact
    <2> QED
      BY <1>1, <2>1, HandlingTells DEF RInv, HandlingNobody
  <1>7. Handling(i)' = Head(mailbox[i])
    BY <1>1, <1>5, HandlingTellsNext DEF RInv, HandlingIsHis
  <1>8. ASSUME NEW a \in Actor, a # i PROVE Handling(a)' = Handling(a)
    BY <1>5, <1>8, HandlingElsewhere DEF RInv
  <1>9. [a \in Actor |-> Handling(a)'] = [[a \in Actor |-> Handling(a)] EXCEPT ![i] = Head(mailbox[i])]
    BY <1>1, <1>7, <1>8
  <1> QED
    BY <1>1, <1>4, <1>6, <1>9 DEF Model!Begin, Phase, Told, Take

\* The actor is let go of.
LEMMA FinishEnds ==
    ASSUME RInv, RInv', NEW w \in Workers, Finish(w)
    PROVE  Model!End(idx[w]) /\ idx[w] \in Actor
  <1>1. /\ Inside(w) /\ ~Inside(w)'
        /\ \A v \in Workers \ {w} :
              Inside(v)' = Inside(v) /\ idx'[v] = idx[v] /\ msg'[v] = msg[v]
    BY DEF RInv, IInv, TypeOK, Finish, Inside
  <1>2. idx[w] \in Actor
    BY <1>1, BoundsAssumption DEF RInv, IInv, TypeOK, BusyIsExact, Spawned, Actor
  <1>3. Phase' = Phase /\ Told' = Told /\ mailbox' = mailbox
    BY DEF Finish, Phase, Told, world
  <1>4. Handling(idx[w]) # NoMsg
    BY <1>1, <1>2, HandlingTells, ThreadsAssumption DEF RInv, InHand, HandlingIsHis
  <1>5. ASSUME NEW a \in Actor, a = idx[w] PROVE Handling(a)' = NoMsg
    <2>1. \A v \in Workers : Inside(v)' => idx'[v] # a
      BY <1>1, <1>5 DEF RInv, IInv, BusyIsExact
    <2> QED
      BY <2>1, HandlingTellsNext DEF RInv, HandlingNobody
  <1>6. ASSUME NEW a \in Actor, a # idx[w] PROVE Handling(a)' = Handling(a)
    BY <1>1, <1>6, HandlingElsewhere DEF RInv
  <1>7. [a \in Actor |-> Handling(a)'] = [[a \in Actor |-> Handling(a)] EXCEPT ![idx[w]] = NoMsg]
    BY <1>2, <1>5, <1>6
  <1> QED
    BY <1>2, <1>3, <1>4, <1>7 DEF Model!End, Phase, Told

\* The first panic of a run ends deliveries; a second is not seen.
LEMMA CarryPanicFails ==
    ASSUME RInv, RInv', NEW w \in Workers, CarryPanic(w)
    PROVE  Model!Panic \/ UNCHANGED Model!avars
  <1>1. Kept
    BY DEF Kept, Inside, CarryPanic, RInv, IInv, TypeOK
  <1>2. Inside(w) /\ main \in {"create", "lock", "check", "wait"}
    BY InsideIsOn DEF CarryPanic, Inside
  <1>3. idx[w] \in Actor
    BY <1>2, BoundsAssumption DEF RInv, IInv, TypeOK, BusyIsExact, Spawned, Actor
  <1>4. Handling(idx[w]) # NoMsg
    BY <1>2, <1>3, HandlingTells, ThreadsAssumption DEF RInv, InHand, HandlingIsHis
  <1>5. ~Model!Idle
    BY <1>3, <1>4 DEF Model!Idle
  <1>6. mailbox' = mailbox /\ Told' = Told /\ Phase' = "failed"
    BY <1>2 DEF CarryPanic, Phase, Told, world
  <1>7. CASE panicked
    <2>1. Phase' = Phase
      BY <1>2, <1>6, <1>7 DEF Phase
    <2> QED
      BY <1>1, <1>6, <2>1, Unseen DEF RInv
  <1>8. CASE ~panicked
    <2>1. Phase = "running"
      BY <1>2, <1>8 DEF Phase
    <2> QED
      BY <1>1, <1>5, <1>6, <2>1, HandlingKept DEF RInv, Model!Panic, Phase, Told
  <1> QED
    BY <1>7, <1>8 DEF RInv, IInv, TypeOK

LEMMA SendsSend ==
    ASSUME RInv, RInv', NEW a \in Spawned, NEW m \in Msg,
           \/ MainSend(a, m) \/ \E p \in Peers : PeerSend(p, a, m)
           \/ \E w \in Workers : HandlerSend(w, a, m)
    PROVE  Model!ANext
  <1>1. Push(a, m)
    BY DEF MainSend, PeerSend, HandlerSend
  <1>2. Kept /\ Phase' = Phase /\ Told' = Told
    BY DEF Kept, Inside, Phase, Told, MainSend, PeerSend, HandlerSend, local, state, world
  <1> QED
    BY <1>1, <1>2, Pushed DEF RInv

LEMMA StepRefines == RInv /\ RInv' /\ [Next]_vars => [Model!ANext]_Model!avars
  <1> SUFFICES ASSUME RInv, RInv', [Next]_vars PROVE Model!ANext \/ UNCHANGED Model!avars
    OBVIOUS
  <1>1. CASE MainStep
    BY <1>1, MainIsQuiet, SendsSend, CallRunBegins, RunNobodyReturns, RunStopsReturns
    DEF MainStep, Model!ANext
  <1>2. CASE EnvStep
    <2>1. ASSUME NEW t \in Thread, SpuriousWake(t) PROVE UNCHANGED Model!avars
      <3>1. Kept /\ mailbox' = mailbox /\ Phase' = Phase /\ Told' = Told
        BY <2>1 DEF SpuriousWake, Kept, Inside, Phase, Told, local, state, world
      <3> QED
        BY <3>1, Unseen DEF RInv
    <2> QED
      BY <1>2, <2>1, SendsSend DEF EnvStep
  <1>3. ASSUME NEW w \in Workers, WorkerStep(w)
        PROVE  Model!ANext \/ UNCHANGED Model!avars
    <2>1. Spawned \subseteq Actor
      BY BoundsAssumption DEF RInv, IInv, TypeOK, Spawned, Actor
    <2>2. ASSUME NEW i \in Spawned, Take(w, i) PROVE Model!ANext
      BY <2>1, <2>2, TakeBegins DEF Model!ANext
    <2>3. Finish(w) => Model!ANext
      BY FinishEnds DEF Model!ANext
    <2> QED
      BY <1>3, <2>2, <2>3, WorkerIsQuiet, CarryPanicFails, SendsSend
      DEF WorkerStep, Model!ANext
  <1>4. CASE UNCHANGED vars
    <2>1. Kept /\ mailbox' = mailbox /\ Phase' = Phase /\ Told' = Told
      BY <1>4 DEF vars, Kept, Inside, Phase, Told
    <2> QED
      BY <2>1, Unseen DEF RInv
  <1> QED
    BY <1>1, <1>2, <1>3, <1>4 DEF Next

LEMMA InitIsIdle == Init => Model!AInit
  <1>1. ASSUME Init PROVE \A a \in Actor : Handling(a) = NoMsg
    BY <1>1 DEF Init, Handling, Inside
  <1> QED
    BY <1>1 DEF Init, Model!AInit

\* The pool keeps the promises of the actor model: each message is delivered
\* once, to its actor, one at a time and in the order of arrival, and `run`
\* comes back in quiescence or with a panic, for any number of actors, workers
\* and messages (docs/threads.md, "The load-bearing insight").
THEOREM PoolImplementsActorModel == Spec => ImplementsModel
  BY InitIsIdle, RInvHolds, StepRefines, PTL DEF Spec, ImplementsModel, Model!ASpec
===============================================================================
