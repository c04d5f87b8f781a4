# Keal in TLA+

Models of what Keal promises and a test hardly reaches: that its three engines give a program one
meaning, that the memory of compiled programs balances on every way out of every block, that what
the checker accepts is safe to run, that actors on threads are still actors, and that the tools
around the language say what is true. TLC checks each model on small instances. TLAPS proves, for
every size, the actor system, the counts and lifetimes of objects, `try` on both compiled engines, Int
arithmetic, what a name means on the VM, the language server, and the four tools: `runCommand`, the
loader, `keal fetch` and `keal test`.

Source paths are relative to the repository (`src/cbackend.rs`, `docs/threads.md`);
`PROJECT.json` adds one directory in front. It maps every definition to the lines it translates,
and lists the runs, the mutation each property was seen to catch, the hazards, the findings and
the theorems.

Contents: [The system](#the-system) · [Modules](#modules) · [Runs](#runs) · [Bounds](#bounds) ·
[Fairness](#fairness) · [Proofs](#proofs) · [Findings](#findings) ·
[Left out by a constant](#left-out-by-a-constant) · [Not modelled](#what-is-not-modelled) ·
[Plan](#plan)

## The system

Keal is one language with three engines. `lexer.rs`, `parser.rs` and `macros.rs` make a tree,
`checker.rs` types it and rewrites names and constants in it (`constfold.rs` evaluates those), and
then one of three things runs it: the tree-walker (`interp.rs`), the bytecode compiler and VM
(`compiler.rs`, `bytecode.rs`, `vm.rs`), or the C backend (`cbackend.rs`), whose output is compiled
with `runtime.c`. Part of the language is written in Keal (`prelude.keal`) and runs on whichever
engine runs the program. Around them are the tools of the `keal` command.

| Component | State it keeps | Operations | What makes it correct |
|---|---|---|---|
| Native actor scheduler (`cbackend.rs` 1885–2070, `runtime.c`) | mailboxes, busy flags, handlers in flight, scan start, stop and panic flags; one mutex, one condition | spawn, send, run; a worker's scan, take, handle, let go, leave; sleep and broadcast | one handler of an actor at a time; `run` ends exactly at quiescence; no lost wakeup; no starvation; a panic reaches the caller; FIFO per actor |
| Prelude actor system (`prelude.keal` 869–951) | mailboxes, pass position, progress | the same, on one thread | the same model, by another schedule |
| Outbox (`prelude.keal` 885–903, `cbackend.rs` 1885–1924) | a list under the actors' mutex | post, drain | nothing in the box is shared; every call comes back |
| Spawned handlers (`checker.rs` 4622–4858, `native.rs`) | what a handler reaches | accept or refuse; copy | two actors never change the same thing |
| Tree-walker (`interp.rs`, `value.rs`) | scopes, values | every statement and expression | the reference for the other two |
| Compiler and VM (`compiler.rs`, `vm.rs`) | slots, cells, captures; frames, operand stack, handlers | compile, run, unwind, call back | the same meaning; handlers are the open tries; nothing left on the stack |
| C backend and runtime (`cbackend.rs`, `runtime.c`) | what each block owns, labels; counts, `keal_try_depth`, `keal_unwinding` | emit; retain, release, panic, unwind | the same meaning; references balance; nothing runs while a failure unwinds |
| Objects (`cbackend.rs`, `runtime.c`; `value.rs`, `runtime.rs`) | strong and weak counts, drop queue | retain, release, weak reads, boundaries, deinit | counts are the owners; nothing freed is used; only cycles leak; each deinit once |
| Int arithmetic (all engines) | none | every operator | one answer on every engine, the exact number or an error |
| Checker (`checker.rs`, `types.rs`) | scopes with types, narrowings, loans | check statement, expression, arm, call | what it accepts misuses no value and changes nothing lent |
| Names between files (`checker.rs` 376–649) | unique names, visibility, aliases | plan, resolve, assign, guard | a use reaches the declaration it means, and no two share a name |
| Constant folder (`constfold.rs`) | scopes, budget, depth | evaluate, write back | a program with its constants folded does what it did |
| Lexer and parser (`lexer.rs`, `parser.rs`) | tokens, position | end a statement, read operators | one reading of a text, or none |
| REPL (`repl.rs`) | a checker, globals and memory that live on | check, compile and run an entry; fail at each | what is read has the type it was given |
| Language server (`lsp.rs`, `loader.rs`) | open texts, what was published | open, change, save, close; analyse, publish | a file analysed since a text changed shows what one of those analyses found in it |
| Loader (`loader.rs`) | files seen, items, edges | load a file, its imports, resolve a path | each file once, imports first, one file per path |
| Fetch (`fetch.rs`) | work list, `.keal/deps`, `keal.lock` | clone or update, queue, lock | the lock names one closed set of versions; it ends |
| Test runner (`testrun.rs`) | children, two reading threads, snapshot | spawn, wait, kill, join, compare, update | a pass means the engines agreed on whole output |
| `runCommand` (`runtime.c` 3612–3777) | up to eight descriptors, two output buffers | pipe, fork, exec, poll, wait | whole output; no hang; nothing left open |

**How they interact.** The checker hands the engines a tree in which names are unique, constants
are literals and types are settled, so a mistake of it is a mistake of all three. The engines share
the native library (`native.rs`, `runtime.rs`), which calls back into closures; a compiled program
has its own. A handler in a worker thread sends (shared mailboxes, under one mutex), panics
(thread-local unwind state, carried to the thread inside `run`), and releases objects (which may
queue deinits that send again). `fork` in one thread copies descriptors that belong to others. The
language server and the REPL keep the loader's overlay and the checker alive between texts. `keal
test` starts `keal` and built programs and reads both streams on threads of its own.

**What is hard here.** Interleavings around one mutex and decisions read from several pieces of
state; unwinding out of any nesting by four routes (end, jump, failure, return), in C written by a
compiler that must have put the same releases on each of them; reference counts that change in the
middle of a cascade; death and resurrection; a narrowed type that an assignment or a way round the
test makes stale; three implementations of each name, operator and construct; pipes of bounded
size; a deadline racing an answer; sessions that go on after a failure. `PROJECT.json` lists forty
such hazards at their lines.

## Modules

`A → B` reads "A is shown to implement B". An operator that evaluates a tree has one dispatcher
per evaluator (`Emit`, `Compile`, `Exec`, `Check`, `Folded`), as the code has.

**Actors**

| Module | Models | Correspondence |
|---|---|---|
| `ActorModel` | what an actor system promises: a queue per actor, one message at a time, `run` from quiescence to quiescence, or a panic | the specification both schedulers are compared with |
| `ActorPool` → `ActorModel` | the native scheduler | a critical section is one action guarded by `mu = Free`; the loops that sleep in the middle are steps that hold `mu`. `Take` is the scan and everything up to the handler; `HandlerReturn`, `HandlerUnwinds`, `PanicExits` are the ways a handler ends; `Finish` lets the actor go |
| `ActorRoundRobin` → `ActorModel` | the prelude's `run` | `i`, `progress` and the pass are the variables of the loop; a handler's panic leaves it in the middle |
| `ActorOutbox` | post and drain on several threads | objects have identities and contents, so that sharing shows |
| `SpawnRule` | `check_spawn_handler`, then actors that run what it let through | a change is a read and a write; `Uncopied` is what `copy_closure` refuses |

**Engines**

| Module | Models | Correspondence |
|---|---|---|
| `Syntax` | statements and expressions after the checker | one record per node; what a call answers is a choice of the environment, taken from one sequence in the order the program asks |
| `Natives` | list and string methods of the interpreters | shared by the walker and the VM, as in the code |
| `Walk` | `interp.rs`: what a body means | recursive over the tree, as `exec_stmt` and `eval` are; the reference |
| `Bytecode` | `compiler.rs`; `execute` | slots by count, patches and handler stack as the compiler keeps them; one operation is one step |
| `Emission` | `cbackend.rs`: a body as C | one instruction is one emitted line that moves a reference, jumps, calls or can fail; `scopes`, `targets`, `marks` are the emitter's own stacks |
| `CMachine` | that C on `runtime.c` | variables are garbage until set; an object is a count and contents; `bad` collects what no C program may do |
| `TryInterp`; `TryVm` → `TryInterp`; `TryNative` → `TryInterp` | try, jumps and failures alone, over any nesting | handlers, frames and nested executes; `keal_try_depth` and labels |
| `Names` | uses of names in a body: checker, compiler, VM, tree-walker | the text is one token per binding, use and bracket; it is run three ways in step, with `Scope::close` on Rust's counts |
| `Arithmetic` | nine operators and four unary ones on four engines | Int is `Width` bits; each engine's arm is its own operator; a root begins at any estimate a float may give, a first root's up to `FloatGap` off (512 in the code) |
| `Lifetimes`; `NativeHeap` → `Lifetimes` | objects with strong and weak fields and deinits | the C statements a release runs are a stack, executed one at a time |

**Before a program runs**

| Module | Models | Correspondence |
|---|---|---|
| `Operators` | where a newline ends a statement, `binary` down to `primary`, assignments, `is_incomplete` | one function per function of the parser, with its minimum level and the operator before; the rules of `docs/language.md` are written a second time, as the trees a text may be (`Readings`) |
| `Types` | `types.rs`: assignability and joins | a type is a name and its parts |
| `Checker` | statements, expressions, arms, calls of `checker.rs` | `k` is the checker: scopes, errors, the narrowing a guard leaves behind |
| `ConstFold` | `constfold.rs` and the write-back in `checker.rs` | its lists are values; what it does not know it refuses |
| `Resolution`, `Namespaces` | unique names, visibility, aliases, guards between files | `PlanNamespaces` and `ResolveGlobal` |
| `Repl` | a session | an entry is refused, does not compile, fails, or runs; each leaves what the code leaves |
| `LanguageServer` | `lsp.rs` over the loader's overlay | messages wait in order; `Publish` is the whole of `publish`; what an analysis from a file finds, by file, is a parameter, and `MCFrontEnd` gives the one of its run: `load`, with `call_main`, and the names looked up in all it loaded |

**Tools**: `Loader` (`load_file` over every import graph, and `normalise` of one path), `Fetch` (git is
what the code asks of it), `RunCommand` (descriptors are a table that fork copies), `TestRunner`
(one file of `keal test`, twice when it updates).

`MCActorParts`, `MCEngines`, `MCTools` and `MCFrontEnd` put components side by side in one run: a
variable says whose behaviour this is, the variables of the others stay as they began, and every
property is the components' own. Components that are extended together have a letter or a word
before `Init`, `Next`, `Spec` and `TypeOK` (`BoxSpec`, `LSpec`, `FSpec`, `TSpec`). `MCBodies`,
`MCChecker`, `MCConstFold` and `MCNativeHeap` make the programs and the sets TLC is given.

What composes interacting parts: the pool and the round robin with `ActorModel`; the backend with
the runtime, the compiler with the VM, and both with the walker (`MCBodies`); the checker with the
walker (`MCChecker`), the folder with the walker (`MCConstFold`); the spawn rule with running
actors; the REPL's checker, compiler and VM; the server with the loader and the analysis.

## Runs

Each run is `tlc -config <cfg> <module>`, within minutes on two workers.

| Run | Config | Shows |
|---|---|---|
| `pool_live` | `ActorPool_live.cfg` | an actor is inside one worker, the in-flight count is exact; a worker leaves and `run` joins only at quiescence; `run` comes back once handlers fall silent; a waiting message is taken though the others never stop; a panic reaches the caller |
| `actor_parts` | `ActorParts.cfg` | the round robin is a schedule of the model and starves nobody; the outbox hands out copies of what was posted, and every call ends |
| `engines` | `Engines.cfg` | handlers and `keal_try_depth` are the open tries; VM and compiled programs catch where the walker does; Int answers are equal and exact; a use of a name is of the binding the checker read, on the VM (`NamesOnVm`) and in the walker (`NamesInWalker`); every step of the pool, with senders outside the system and deinit sweeps, is one of the model |
| `heap` | `NativeHeap.cfg` | both counts at every C statement, no use after free, leaks only on cycles, deinits as promised |
| `bodies` | `Bodies.cfg` | fifty bodies in nine contexts left in six ways, with and without a `try` and a `deinit` in the program, compiled to C and to bytecode and run with every choice: nothing dead is used, nothing runs while a failure unwinds, references balance, and three engines show and return the same |
| `front_end` | `FrontEnd.cfg` | functions the checker accepts misuse no value and leave what they are lent; accepted handlers share nothing that changes; folding is exact; a name in one of three files reaches what it means and collides with nothing; a session reads what its checker promised; the editor shows, of every file analysed since a text changed, what one of those analyses found in it; a text of operators has the one reading of the rules, or is refused |
| `tools` | `Tools.cfg` | `runCommand` returns all its child wrote, leaves nothing open and ends; every import graph loads whole, once, in order; a normalised path is the same file; the lock is closed; a pass means agreement; rounds and fetches end |
| `callbacks_unwinding`, `checker_guard`, `fold_shadowed`, `names_qualified`, `repl_sees` | one property each | [Findings](#findings) |

## Bounds

Each is the smallest at which the interesting cases meet; raising one by one did not change an
answer where it was affordable.

- *Pool.* Two workers are what a race needs. The pool in `engines` has two actors, two messages (so
  that order shows), two messages a mailbox, two runs, panics, sweeps that send, and a sender
  outside the system. `pool_live` has three actors: one that neither worker is inside is what
  starvation needs. The theorems have none of these bounds.
- *Round robin and outbox.* Three actors, one before and one behind the one a handler sends to; two
  runs, so that a panic leaves messages for the next. Two threads, two posts, two values.
- *Try.* `MaxNest = 5`: a try in a loop in a function called from a try is four. Two value types,
  and clause lists that take one, the other, both or all in either order.
- *Arithmetic.* Every pair of 4-bit Ints: MIN, -1, 0, the width and the cap of an exponent are the
  only values the code looks at. `FloatGap = 2`: the estimate of a first root is up to two off, so that it
  is climbed, or come down from, twice; the two Ints whose float is no Int (`BeyondFloats`) are not asked for.
- *Names.* Texts of cost six (a binding or use is one, a bracket two): three nested functions, or a
  loop with a closure in it and two bindings. Loops have two turns, calls are three deep.
- *Heap.* Three objects, two with a deinit, make every cycle of one to three, with a tail.
- *Bodies.* Each combines a use of a counted value, a context around it and a way out of it, between
  values that were owned before and are used after. `MaxChoices = 3` answers are free, the rest are
  the default ones, which end every loop.
- *Checker.* Every condition of one or two tests under each of seven connectives, negated or not, in
  nineteen places, before four uses that rely on it. Handlers are up to three statements over every kind of
  global and capture; two actors run each.
- *Folder.* Some twenty functions at four arguments, in every place a constant may stand, with a budget
  and a depth that some of them exhaust.
- *Files.* Three, in three directories or two, each importing earlier ones, bare or by alias, with
  every visibility and a name that looks like a minted one.
- *REPL.* Four entries: declare, re-declare or fail, use, use again. *Server.* Two files, two messages waiting, four
  texts: one imports the other file and uses a name it does not declare, one hides and uses its own, one
  does not parse, one has a `main` that cannot be called. Both ways in which a file's diagnostics depend on
  the file asked about happen among them.
- *Operators.* Texts of seven tokens, five when one is a bracket, a newline, `not`, `==`, `!!` or
  `=`: three operators in a row, which is one more than any rule looks at.
- *Tools.* A pipe of capacity one with inputs up to two fills on all three streams. Three files with
  two imports make every cycle, self-import and diamond. Paths of five parts over two names. Two
  packages that want each other at two versions.

`CHECK_DEADLOCK FALSE` is set where a program, a session or a text ends: its end is the last state.
`NativeHeap.cfg` and `Engines.cfg` (over workers) use symmetry, and check no liveness.

## Fairness

A liveness property holds under what the code and its host provide, and no more.

- *Pool.* A thread that can step does (WF). A thread that wants the mutex gets it eventually
  though others keep taking it (SF on `EnterLoop`, `CarryPanic`, `Finish`, `MainLock`): pthread
  mutexes promise no order, but the holder sleeps or runs a handler without it. A handler returns
  after finitely many sends; without that no scheduler could promise anything. Nothing makes a
  program send, spawn, call `run` or panic, and nothing wakes a sleeper but a broadcast.
- *Round robin.* One thread, and a handler comes back (WF on the loop's steps).
- *Outbox.* A call once made goes on (WF), and gets the mutex (SF).
- *runCommand.* The parent and the child are scheduled; a child need never speak before it has read
  and need never quit early.
- *Fetch.* The work list goes on; nothing makes a tag move or a manifest change.
- *Test runner.* Its threads and children are scheduled, time passes, and a C compiler that lost
  its parent ends by itself, so a stream it holds closes.

`MCActorParts` and `MCTools` state the same fairness over all variables of the run.

## Proofs

| Module | Theorem | States |
|---|---|---|
| `ActorPoolProofs` | `TypeCorrect` | `Spec => []TypeOK`; the scan start stays among the actors of the run |
| | `NeverTwoInOneActor` | `Spec => []OneAtATime` |
| | `InflightCounts` | `Spec => []InflightIsExact` |
| | `WorkersLeaveInQuiescence` | `Spec => []LeftIsQuiescent` |
| | `RunJoinsInQuiescence` | `Spec => []JoinIsQuiescent` |
| | `PoolImplementsActorModel` | `Spec => ImplementsModel`: every step of the pool is one of `ActorModel`, or is not seen by it |
| `ActorPartsProofs` | `RoundRobinImplementsModel` | the same of the round robin |
| | `CopiesStayWhatWasPosted` | `BoxSpec => []CopiesOfWhatWasPosted` |
| | `OutboxTypes` | `BoxSpec => []BoxTypeOK` |
| `LanguageServerProofs` | `FreshIsAlwaysShown` | `LSPSpec => []FreshIsShown`, for any files, texts and analysis |
| `NativeHeapProofs` | `CountsAlwaysAreOwners` | `Spec => []CountsAreOwners`, for any number of objects |
| | `NothingFreedIsUsed` | `Spec => []NoUseAfterFree` |
| | `OnlyCyclesEverLeak` | `Spec => []OnlyCyclesLeak` |
| | `CountsGiveLifetimes` | `Spec => DeinitsAsPromised`: every C statement is a step of `Lifetimes`, or is not seen by it |
| | `HeapTypesHold` | `Spec => []TypeOK` |
| `ChildrenProofs` | `CallsAreAlwaysWhole` | `Spec => []CallsAreWhole`, with any number of calls at once |
| | `RunCommandTypes` | `Spec => []TypeOK` |
| | `VerdictsAreAlwaysTrue` | `TSpec => []VerdictsAreTrue`, for any programs, texts and pipes |
| | `TestTypes` | `TSpec => []TTypeOK` |
| `SourcesProofs` | `ProgramIsAlwaysWhole` | `LSpec => []ProgramIsWhole`, for every import graph |
| | `NormalisedIsTheSame` | `Follow(Normalise(parts)) = Follow(parts)`, for a path of any length that climbs at most one level |
| | `PathsAlwaysKept` | `LSpec => []NormaliseKeepsTheFile`, of such paths |
| | `LockIsAlwaysClosed` | `FSpec => []LockIsClosed` |
| | `FetchTypes` | `FSpec => []FTypeOK` |
| `EnginesProofs` | `HandlersAlwaysOpenTries` | `V!Spec => []V!HandlersAreOpenTries`: `TryVm`, for any types, clauses and nesting |
| | `DepthAlwaysCounts` | `Spec => []DepthCountsOpenTries`: `TryNative`, of programs that do not jump out of a `try` |
| | `TriesAlwaysCounted` | `EnginesSpec => []TriesAreCounted`, the two together as the run has them |
| | `VmAlwaysAsInterp` | `V!Spec => V!ImplementsInterp`: the VM's `try` is the interpreter's |
| | `NativeAlwaysAsInterp` | `Spec => ImplementsInterp`: so is a compiled program's, of the programs named below |
| | `VmImplementsAlways`, `NativeImplementsAlways` | the two refinements as the run has them, beside the other parts |
| | `VmTypesAlways`, `NativeTypesAlways` | `[]TypeOK` of each |
| | `EnginesAlwaysExact` | `EnginesSpec => []EnginesAreExact`: `Arithmetic`, for Ints of any width |
| | `NamesOnVmAlways` | `EnginesSpec => []NamesOnVm`: what a name means on the VM, as the run has it |
| | `PoolImplementsAlways` | `EnginesSpec => PoolImplementsModel`: the pool once more, as the run of the engines has it |
| `NamesProofs` | `SlotsApart` | two bindings of a function that are in scope together share no slot, in any text |
| | `NamesKeepTheirMeaning` | `Spec => []VmKeepsMeaning`: on the VM a use is of the binding the checker read, for any names, text and run |

**Assumptions.** `BoundsAssumption` (bounds are naturals, there is a core) and `ThreadsAssumption`
(finitely many workers; `Main`, `Free`, `NoMsg` are other values) for the actors. The server's theorem
assumes nothing of what an analysis finds. `RunCommandAssumption` for `runCommand`: a pipe holds at least one unit.
`HeapAssumption` for objects: the names of a block are a finite list without repetition, apart from
finitely many outer ones, and null is no object. There may be any number of objects, infinitely
many included; that those made are finitely many is part of the invariant. `OutboxAssumption`: the
threads can begin with an object each, and the free mutex is no thread. `LoaderAssumption`: there is
a file to begin with, and the bounds are naturals. `PoolAssumption`: the first two, for the pool in the run of the engines. `FetchAssumption`: finitely many packages and tags, a manifest for every
commit, and "none" is neither a row, a clone nor a fetch. `TestAssumption`: a build is followed by
what it built, and "no snapshot" is no text. `ProgramsAssumption` and `ListsAssumption` for `try`: strings
are a type, "no type" is none, and a clause list is a sequence of types. Five theorems of `EnginesProofs` have
`~JumpsLeaveTries` as a hypothesis besides: generated code does not count a `try` out when a `return`,
`break` or `continue` leaves its body ([below](#left-out-by-a-constant)), and the count is wrong after it.
The VM's theorems have no such hypothesis; it pops what it owes. `NativeAlwaysAsInterp` has `~TypedOutermost` too, that
a failure finds a clause at the latest at the outermost `try`; where it finds none, generated code goes on as if
nothing had happened and the interpreter ends the program. `PathsAlwaysKept` has `MaxClimb <= 1`: from `../..` on, `PathBuf::pop`
takes one `..` for the other, and the property is false.
`NamesKeepTheirMeaning` has `~FunsInBlocks` and `~OwnNames` as hypotheses: a `fun` in a block of an expression and a
function that names itself are where the compiler departs ([below](#left-out-by-a-constant)). The two cases in which
only the tree-walker departs, `Rebinding` and `KeptCallers`, are in the theorem, up to the use at which it departs: a run ends
where the engines disagree. `Data \cap Fun = {}` says that
the names of values and of functions are told apart by a text, as the two sets of the run are.
`WidthAssumption`: an Int has a sign and one bit more, and the float nearest to it is within `FloatGap`. `EnginesAlwaysExact` has the hypothesis `~AtEdges`, that
programs keep off the inputs on which the engines differ. TLC evaluates each on the run of its component.

**The pool's safety.** None of the five is inductive by itself. `IInv` is their conjunction with
what each rests on: `Holding` (who is at a step that holds the mutex holds it), `NoWorkersOutside`
(between runs there is no worker, so `RunInit` may clear the flags), `BusyIsExact` (a worker inside
is inside an actor of its own that is flagged, and every flag is somebody's, so a scan that skips
flagged actors never enters an occupied one), `Counted` (the count is the size of the set of
workers inside; `FiniteSetTheorems`), and `JoinIsOver`, `LeftNothing`, `StopMeansPanic` (what the
two quiescence decisions established stays true, since with nobody inside and nothing queued nobody
can send, and `stop` before the decision comes only from a panic). One lemma per action shows
`IInv /\ [Next]_vars => IInv'`. The theorems hold with peers too: there `WorkersLeaveInQuiescence`
and the second half of `RunJoinsInQuiescence` say nothing (`Peers = {}` is their hypothesis),
because they are false.

**The two refinements.** The pool's `RInv` adds to `IInv` that a worker keeps the message it took
with its actor (`InHand`), that a panic stops the run (`PanicStops`) and that only spawned actors
have mail. The abstract `handling` is then whatever the worker inside an actor holds
(`HandlingTells`); `Take` is the model's delivery, `Finish` its end, `CarryPanic` its panic, a push
its send, and `run`'s decision its return. All other steps leave the mapped variables alone, which
is one lemma for the main thread and one for the workers. The round robin's `RInv` says that a pass
without a delivery leaves the mailboxes it has been over empty, though a handler may send behind
it; that is what makes its return one from quiescence. Both schedulers implement one model, so a
program cannot tell them apart by more than the order between actors.

**runCommand.** The run has one call at a time; the theorem has any number, whose forks copy each
other's descriptors. That is what makes end of file uncertain: a stream is at its end only when no
writing end is left anywhere. `RInv` is one invariant per call. `HoldsItsOwn` is what of its own
ends it may hold at each place (all of them when it forks, so its child has them too; none once it
waits), `KidCanSpeak` that a living child holds the writing ends of both its streams (an exec closes
only what `OnlyFailCloses` allows), `KidFollows` that place, child, exec pipe and result agree.
With them `NothingIsLost` is inductive: end of file on a stream means the child is gone and the pipe
empty, so what was read is what was written. A step is one call's (`StepOf`): it touches no other
call's ends, and `OneCallIsEnough` leaves each action its own call to show. What copied descriptors
can do is delay, never lose: `ToolsEnd` fails with two calls at once
([below](#left-out-by-a-constant)), `CallsAreWhole` does not.

**Objects.** The exact counts are stated over every owner there is: names, fields, the queue, the
object in its deinit, and the C statements still to execute. They are not inductive by themselves.
`HInv` adds `Closed` and `Spotless` (no pointer to an object not made, and nothing known of it),
`FieldsOnce` (a field's release is pending at most once, and only for a dead object, so the field
stops owning when its release starts), `Guarded` (a pending field release has the object's own weak
reference pending behind it, which is why a cascade cannot free the header it will come back to) and
`FreedIsDead`. A step moves at most one owner of each kind from one place to another; one lemma per
kind says by how much its number of owners changes, and a lemma per action adds them up. The end of
a block is the one step that moves many: `OwedAreTheLocals` matches the releases it owes with the
names it clears. `NoUseAfterFree` follows: whoever points at an object is one of its owners, or
stands before a release that is. For the refinement, `QueuedOnce` says that what is queued has died
once and waits in one place. A release that finds a count of one is the abstract death, and its
object *goes* only because the count is exact: nothing else can still hold it. That only cycles
leak needs one thing more, `DeadAreHeld`: a dead object that is not freed has a weak count. When nothing is pending,
its weak owner is a living object's field. Living objects that no name and no cycle lead to would each be held by another
of them, and a finite set like that has one on a cycle after all, the one the fewest lead to
(`HeldAmongThemselves`). `Reach` is a least set, as `Reaches` is below.

**Outbox.** Sharing is a matter of who can reach an object, so the invariant lists every place there
is: the box, what each thread holds, a copy between its making and its push (`CopiesAreApart`), the
list a drain is building. A post copies *before* it takes the mutex, so several such copies exist at
once; that a new object is in no place at all is `AllMade`, and that only one list is being built is
`DrainsLocked`. The audit plays no part: it can make a call wait, never share.

**Loader.** The stack of a depth-first walk tells the whole story. `LInv` says that each file is on
the stack or done, once (`EachOnce`), that a done file's imports have been seen (`EdgesAreDone`), that each
activation was called by the import its caller stands at (`CalledByImport`), so that everything
seen is reached from the entry (`FromEntry`) and all below reach what is above (`CallersReach`). `EndedInside` is
what makes "imports first" inductive: what a done file imports is done before it, or was on the stack
when it ended, and then reaches it, on a cycle. `Reaches` is the least set closed under importing, so that a proof
need not follow paths; a walk that is over has seen a closed set (`WholeAtEnd`).

**Paths.** `Normalise` and `Follow` are folds over the components of a path, one that keeps a list, one that walks. What
a fold is after each component is an equation that must be earned, from the set it folds over, largest element first
(`LargestPart`, `FollowGoes`, `NormaliseGoes`). Then both are walked side by side (`KeepsUp`): while the walk is not above
where it began, the list is the names it is below; once it is one level above, the list is a `..` and those names. A
`..` takes the last name off both, and off an empty list of names it climbs, which `NamesAbove` says happens once at most.
Normalising what is left again changes nothing (`FollowsNames`).

**Lock.** A row's commit is a checkout's, of a fetch that may be over, of a tag that may have moved.
So `FetchInv` speaks of the fetch that runs: one tag a name (`OneVersion`), its commit checked out
(`CheckedOut`), and, unless something failed, whatever that commit wants resolved or still on the
list (`NothingForgotten`). An empty list then makes it closed, and a failure writes nothing. That
`HEAD` stays where it was put needs that a name is fetched once, which is `OneVersion` again.

**Test runner.** Three things make a verdict one about the programs. `StreamsAreWhole`: what a child
writes is still to come, in a pipe, or read, and a reading thread ends only when nothing can come,
so a command that ended by itself was read whole, and one that did not is marked as stuck
(`JoinedIsWhole`). `EnginesAnswered` and `AnswersAreWhole`: unless one is stuck, the answers are the
engines', each of them, and nobody else's, though a build among the commands has none.
`AgreeWithFirst`: `check_one` compares neighbours, so that all agree is carried along as the answers
arrive, and needs no induction over the list afterwards. A pass then settles the file
(`PassSettles`), and a settled file passes again (`SettledPasses`).

**Try.** Both engines keep a copy of what the source's nesting says: a number in compiled programs, a
stack in the VM. `NInv` is inductive with one thing more, that generated code stands at a `catch` label only with the
block of that `try` innermost (`LabelIsATry`), since there alone is the number one below the open tries. The VM's
`VInv` says where each handler is: `Match` puts the handlers in the order of the tries they guard, by
frame and then by depth in it, so that what a jump or a return leaves, a set of tries, is a suffix of the stack,
and popping as many as were left pops the right ones (`LastHandlersGo`); and it says that the blocks a handler
remembers are still those around its `try`, so that unwinding to it cuts the frame and never rebuilds it
(`UnwoundTo`). `Executes` keeps the nested executes in order: what an execute may not catch lies below its first
frame. While the clauses are tested the innermost `try` has no handler any more (`Guarded`), which is what a failure
in a clause needs. A `return` pops from the end while handlers are of its frame; that these are all of
that frame is the order again.

That each engine *implements* the interpreter is a statement about one path of blocks, where the engines have a stack of
frames. The mapping lays the frames end to end with a call between them, by a fold (`Control`), and the lemmas before
`VmMeans` say what each move of the stack does to it: a block more or less, the innermost path cut, a frame more
(`ControlOfMore`) or less. `Flat` is why nothing is read twice: no frame holds a call itself. A failure is the hard part.
The interpreter drops all blocks up to the innermost `try` in one step; the engines leave one frame at a time. So a
failure in flight is mapped to where it will land (`Lands`, `Landing`), which is the same before and after a frame is
left; that step is a stutter, and the interpreter's step was the one that failed. For the VM that is also where its
innermost handler points (`VInv`), an execute in between included. For compiled programs `Caught` says that every `try`
has a clause for everything at it or around it, so that while a failure unwinds there is a place to land (`NRef`); a body
entered keeps it by `EnterTry`'s guard, a block left because it speaks of what is further out.

The pool is one of the five parts of run `engines`, which steps one part at a time. `ActorPoolProofs` is instantiated
(`PP`) with the run's names; a line for each definition says that it is the one the run means, and the proofs there
apply as they stand.

**Int arithmetic.** TLC asks every pair of 4-bit Ints; the theorem is for any width, 64 included. What the engines write
differently is shown to be one thing: the wrapping negation and the word arithmetic of `abs`, the shifts through
words with the sign carried in, and division towards zero, from the uniqueness of quotient and remainder
(`DivModIs`). `keal_int_pow` stops at the first power that does not fit where Rust multiplies on, and
`SizeGrows` is why that is the same. The root is the one number whose power fits while the next one's does not
(`RootIs`), so climbing and coming down end at it from any estimate (`ClimbIs`, `DownIs`). `Power` and both
loops are recursive functions, of which an equation must be earned: that one exists is shown by giving it (for
`Power`, from its finite beginnings), and that there is no other by induction. The induction theorems of the library
take an operator; `Induction` here takes a set, and rests on the well-foundedness of the naturals.

**Names.** The VM keeps no scopes: it has slots by count, cells, and what each closure captured. What a name *means* is
said in scopes. The proof has two halves. The first is about a text alone: brackets close what they open
(`EndsClose`), what a place sees is what is bound before it in the brackets around it (`Seen`), a binding is in a
slot of its function above all that live with it (`SlotsApart`, from the number of locals that were declared and
not given back), a function holds a cell of whatever a use in it captures (`UseCaptures`), and the place the compiler
resolves a use to is the place of the binding the checker reads (`UsesMean`). The second is about a run. It
gives every scope of the tree-walker an *instance*: `t[k]` is the bracket that scope `k` is one of, `e[k]` the
instance that each bracket around it has in its chain, `h[<<k, d>>]` the cell of the boxed binding `d` in
instance `k`. `Sound` says that there are such `t`, `e` and `h` for which a cell says what its binding says
(`CellsOK`), a closure holds the cells of its own instances (`ClosuresOK`), and a frame's slots, cells and captures
are those of what its place sees (`FrameOK`). They exist only in the proof; each step extends them (`Grows`): a block, a
call and a turn of a loop make an instance, and a binding in a loop makes a new cell because the instance is
new, which is why a closure of an earlier turn keeps its own. A frame whose scope ended goes on as it was, since
nothing it holds was given back that is still seen. `VmInv` is this with the text growing and being compiled before,
and `VmKeeps` shows it inductive, an action at a time. In the run of the engines the definitions have two names,
those of the run and those of the proof, and a lemma for each says that they are one.

**Only model-checked.** Liveness and everything else in the other modules. `ENABLED` and fairness
are outside the prover. `Walk`, `Bytecode`, `Emission`, `Checker`, `ConstFold` and `Operators`
have RECURSIVE operators over trees, which the provers here cannot use; that takes in the invariants of the runs `bodies`
and `front_end`. `Resolution` has one too (`Reached`), and mints unique names as strings, of which the provers know
only whether they are equal: that two mints differ is a computation, which TLC does. Of names in a
body the VM's half is proved; the tree-walker's, `NamesInWalker`, stays with TLC: which scopes are still alive is
a least fixed point of Rust's counts, cycles of closures included, and a scope that is closed takes names away from
copies that were made of it. The run asks it over all programs of its bounds.

## Findings

Five, a run each, end in a violation of what a comment or document says; `PROJECT.json` quotes it.

- `callbacks_unwinding`: the C written for `forEach`, `filter`, `fold`, `any`, `all` and `find` does
  not test for a failure after it called the closure, which is called again for the next element
  while the failure is still looking for its catch.
- `checker_guard`: `if c { } else if p == null { return }` narrows `p` for what follows, though `c`
  may have held. A use of `p` as a `String` is accepted and meets null.
- `fold_shadowed`: a local or a parameter with the name of a `constexpr` becomes the constant.
- `names_qualified`: `alias.name` is rewritten to the unique name and then resolved again as if it
  had been written in the importing file; a nearer declaration of that spelling is what it reaches.
- `repl_sees`: a REPL entry's declaration without a modifier is private to that entry, and one
  declared again is minted a new name, so that later entries read neither.

## Left out by a constant

Where the code departs from the reference, the passing runs leave the case out. Each such case has
a constant that admits it, with which the property named is violated.

| Constant | Case | Property |
|---|---|---|
| `JumpsLeaveTries` | `return`, `break`, `continue` out of a compiled `try` leave `keal_try_depth` up (`cbackend.rs` 2780); a later uncaught failure ends the program silently with status 0 | `TriesAreCounted` |
| `TypedOutermost` | a failure no clause of the outermost compiled `try` takes is neither caught nor told (2776) | `NativeImplementsInterp` |
| `Audit` | with `--audit`, `drain` copies under the mutex that counts each object born (`runtime.c` 274) | `CallsEnd` |
| `AtOnce` | two `runCommand` at once: each child holds the other's input open (`runtime.c` 3647) | `ToolsEnd` |
| `MaxClimb` | `../..` becomes the working directory (`loader.rs` 340) | `NormaliseKeepsTheFile` |
| `AtEdges` | `MIN % -1`, `-MIN` and `(-1) ** n` past 32 bits stop on the interpreters and have a value in a compiled program (`runtime.c` 3886, `cbackend.rs` 3082) | `EnginesAreExact` |
| `FunsInBlocks` | a `fun` in a block of an `if` or `when` is not seen by the pass that decides what to box (`compiler.rs` 1749) | `NamesOnVm` |
| `KeptCallers` | a scope that ends with two local functions, one calling the other, drops both names though a caller took them (`value.rs` 664) | `NamesInWalker` |
| `OwnNames` | a local function's own name in its body is a global on the VM (`compiler.rs` 664) | `NamesOnVm` |
| `Rebinding` | a name bound again around or in a lambda that uses it (`cbackend.rs` 8338) | `NamesInWalker` |
| `Aliasing` | a compiled `for` over a list that its body shrinks reads an element after it was freed (`runtime.c` 1419) | `NothingDeadIsUsed` |
| `FailingCallbacks` | the finding `callbacks_unwinding` | `NothingRunsUnwinding` |
| `ElseIfGuards` | the finding `checker_guard`; a ternary's branch does the same | `AcceptedIsSafe` |
| `Aliases` | a lent parameter changed through a local alias, a loop variable or a function value (`docs/language.md` 779–801) | `LentIsUntouched` |
| `Escaping` | a handler that calls a function which changes a global, holds a closure that does, or names what only a branch bound (`checker.rs` 4682, `cbackend.rs` 8345) | `HandlersAreApart` |
| `Differing` | folding: the finding `fold_shadowed`; lists that are shared; a negative index; the order of `x += e`; `nand`, `nor`, `implies`, which do not short-circuit there; an Int where a Float is declared | `FoldingIsExact` |
| `Form` | names: the finding `names_qualified`; assignment targets, which are never resolved (`checker.rs` 3855); a name nothing visible declares, which is looked up as written; a name re-declared by a top-level guard, which loses its file | `NamesMeanOneThing` |
| `Mishaps` | an entry that fails while it runs leaves Unit under the names it declared, and a narrowing that did not hold | `NothingMisread` |
| `Signed` | `a band -b ** c` and `-a ** b band c` are accepted, where the rules ask for brackets | `TextsReadOneWay` |

Met while reading, without a case in a model:

- *Engines.* A compiled `when` evaluates every candidate of an arm, and its guard, before it tests
  the first (6059–6121). A default argument of a compiled call can see a caller's local of the same
  name. `break` and `continue` inside a `when` arm are C `break`s of the arm's own loop (2779, 5830).
  A slot of a branch that was never filled is released (6711). For loops over maps and strings have
  no drain between statements. The VM's count of supplied arguments has 64 bits. A `deinit` does not
  see the slots of a `for` or `when` of the VM cleared. The native list methods call a closure on a
  copy of the receiver made before.
- *Checker.* `is List` narrows to a list of anything; `[]` without a type is a `List<Never>` that may
  be shared; `x is Null` is false at run time; a name cannot be declared again after a guard narrowed
  it; `docs/language.md` 175 promises more of `Any` than is accepted.
- *REPL and server.* A refused entry's declarations stay in the checker. When an imported file
  changes, its importers are not analysed again; the diagnostics of a file no longer imported stay.
  What an analysis finds in a file depends on the file it was asked about. The entry's `main` alone is judged,
  and one that cannot be called ends the load (`loader.rs` 84, 100–133); a name that no import brings is
  looked up as written among all that was loaded (`checker.rs` 2491–2508), so a private `x` of the importer
  turns "cannot find `x`" into "`x` is private". After `didSave lib` and `didSave main` the editor can show for `lib`
  what was found on the way to `main`, which is not what `keal check lib` says, though `docs/language.md` 2115
  says the server checks "exactly as `keal check` does". `FreshIsShown` asks for less: the list is of one of the
  analyses of the present texts, and the file's own where those agree. Both ways are in the run.
- *Parser.* `a ? b ? c : d : e` is refused. Two statements on one line need no separator.
- *Actors and objects.* A send from outside after the last worker left makes `run` wait for ever
  (`RunEnds` needs `Peers = {}`). An object that waits for its deinit can be read through a weak
  reference.
- *Tools.* `keal.lock` is written and never read.

## What is not modelled

- *Data beyond what a property tells apart.* Messages, values and texts are model values or sizes.
- *Classes as the compilers lay them out,* generics, traits and dispatch, overloads, inference of
  type arguments, maps, Floats, boxed `Any` values and destructuring in loops. Bodies have strings,
  Ints, Bools, lists, closures and one class.
- *Strings, lists and closures in `NativeHeap`.* They count like its objects; `bodies` has them.
- *Declarations in the parser, and macros.* `Operators` has expressions and assignments.
- *The loader's generators* (`jbind`, `kealsql`) and the manifest's text.
- *The kernel.* `poll` and `waitpid` do not fail; `pipe` and `fork` do.
- *Which of several panics the caller of `run` gets.* The first one recorded under the mutex (`cbackend.rs` 1993);
  `PanicReachesCaller` says that one does.
- *Named arguments* in `Operators`: an argument is an expression (`parser.rs` 1505–1512 takes `name = e` too; a call
  with one has more tokens than the texts of the run).
- *A command of `keal test` that cannot be spawned,* and a `try_wait` that fails (`testrun.rs` 377–387, 408): the
  first reads as a run that failed with the system's message, the second as one that was stopped.
- *Text in, text out:* tokens, layout, bindings, documentation, hover and completion.
- *The build driver, command line and registry*: no state that outlives a call.
- *`selfhost/` and `lib/`*: Keal programs. `selfhost/` repeats the front end in Keal, and
  differential tests keep it equal.

## Plan

Done: actors (model, two schedulers, outbox, spawn rule), try, names in a body and between files,
Int arithmetic, bodies on three engines, objects, checker, folder, operators, REPL, language
server, loader, fetch, tests, `runCommand`. By how much depends on it, next would be:

1. The insertion-ordered map, twice (`value.rs`, `runtime.c`), against a sequence of pairs.
2. Classes: construction, `init` that fails, virtual calls, on the bodies of `Syntax`.
3. `when` with destructuring, default arguments and methods in `Names`.
4. The type lattice for every type: assignability as a preorder, joins as least bounds.
5. Macro expansion and its hygiene.
6. The pool composed with `CMachine`: a thrown value carried to the caller, a sweep after a handler.

Proofs, in order: `NamesInWalker`, from the instances of `NamesProofs`; `NothingMisread` of a session, with `Reached` as a least set.
