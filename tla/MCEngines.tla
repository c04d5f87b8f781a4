------------------------------- MODULE MCEngines -------------------------------
(* What the engines must agree on, beside each other: `try` as the VM and as  *)
(* compiled programs do it, Int arithmetic, and what a name means; and the    *)
(* thread pool, which must agree with the actors of the interpreters.  A run  *)
(* is one part's, and the others' variables stay as they began.               *)
EXTENDS TryNative

CONSTANTS
    VmClauses, Rec,                                              \* TryVm's lists; a record type
    Width, PowCap, FloatGap, AtEdges,                            \* Arithmetic
    Data, Fun, Global, MaxText, Turns, MaxCalls,                 \* Names
    FunsInBlocks, OwnNames, Rebinding, KeptCallers,
    MaxActors, Workers, Cores, Msg, NoMsg, Peers, Main, Free,    \* ActorPool
    CatchMode, DropMode, MaxSends, MaxBox, MaxRuns

\* An Int has a sign and at least one bit besides, and a float near it.
ASSUME WidthAssumption == Width \in Nat /\ Width >= 2 /\ FloatGap \in Nat
ASSUME ListsAssumption == VmClauses \subseteq Seq(Type \cup {NoType})

VARIABLES part,
          vframes, vhandlers, vdepths, vmode, vthrown, vout,
          op, a, b, answer,
          prog, code, scopes, closures, cells, nframes, called, clock, last,
          alive, n, mailbox, mu, asleep, busy, inflight, next, stop, panicked,
          pc, idx, msg, sends, main, runs, poutcome

MCClauses == {<<NoType>>, <<Rec, NoType>>, <<Rec>>}
MCVmClauses == {<<Rec>>, <<Rec, NoType>>, <<Str, Rec>>}

vmVars == <<vframes, vhandlers, vdepths, vmode, vthrown, vout>>
sumVars == <<op, a, b, answer>>
nameVars == <<prog, code, scopes, closures, cells, nframes, called, clock, last>>
poolVars == <<alive, n, mailbox, mu, asleep, busy, inflight, next, stop, panicked,
              pc, idx, msg, sends, main, runs, poutcome>>
all == <<part, vars, vmVars, sumVars, nameVars, poolVars>>

V == INSTANCE TryVm WITH ClauseLists <- VmClauses,
         frames <- vframes, handlers <- vhandlers, depths <- vdepths,
         mode <- vmode, thrown <- vthrown, out <- vout
A == INSTANCE Arithmetic
N == INSTANCE Names WITH frames <- nframes
P == INSTANCE ActorPool WITH outcome <- poutcome

ASSUME PoolAssumption == P!BoundsAssumption /\ P!ThreadsAssumption

Symmetry == Permutations(Workers)

EnginesInit ==
    /\ part \in {"native try", "vm try", "arithmetic", "names", "pool"}
    /\ part # "arithmetic" => op = "add" /\ a = 0 /\ b = 0
    /\ Init /\ V!Init /\ A!Init /\ N!Init /\ P!Init

NativeNext == part = "native try" /\ Next /\ UNCHANGED <<part, vmVars, sumVars, nameVars, poolVars>>
VmNext == part = "vm try" /\ V!Next /\ UNCHANGED <<part, vars, sumVars, nameVars, poolVars>>
SumNext == part = "arithmetic" /\ A!Next /\ UNCHANGED <<part, vars, vmVars, nameVars, poolVars>>
NameNext == part = "names" /\ N!Next /\ UNCHANGED <<part, vars, vmVars, sumVars, poolVars>>
PoolNext == part = "pool" /\ P!Next /\ UNCHANGED <<part, vars, vmVars, sumVars, nameVars>>

EnginesSpec ==
    EnginesInit /\ [][NativeNext \/ VmNext \/ SumNext \/ NameNext \/ PoolNext]_all

\* Both count the tries that are open: compiled programs in the number that
\* decides between an end and an unwinding, the VM in its handlers.
TriesAreCounted == DepthCountsOpenTries /\ V!HandlersAreOpenTries

\* The VM catches where the interpreter does (TryVm!ImplementsInterp, over the
\* steps of its part: in the others' its variables stay).
VmImplementsInterp ==
    V!Interp!Init /\ [][part = "vm try" => [V!Interp!Next]_(V!Interp!vars)]_all

\* A compiled program catches where the interpreter does, in the same way.
NativeImplementsInterp ==
    Interp!Init /\ [][part = "native try" => [Interp!Next]_(Interp!vars)]_all

\* Arithmetic's: the engines give one answer, and it is the number or an error.
EnginesAreExact == part = "arithmetic" => A!EnginesAgree /\ A!AnswersAreExact

\* Names's: a use is of the binding the checker read, on the VM and on the
\* tree-walker.
NamesOnVm == N!VmKeepsMeaning
NamesInWalker == N!WalkerKeepsMeaning

\* ActorPool's: the pool is a schedule of the actor model, with a thread outside
\* the system, over two runs.
PoolImplementsModel ==
    P!Model!AInit /\ [][part = "pool" => [P!Model!ANext]_(P!Model!avars)]_all
================================================================================
