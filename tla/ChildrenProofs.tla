---------------------------- MODULE ChildrenProofs -----------------------------
(* Proofs about what starts other programs and reads what they write: a       *)
(* program's `runCommand`, and `keal test`.                                   *)
EXTENDS RunCommand, TestRunner, SequenceTheorems, TLAPS

(***************************************************************************)
(* `runCommand`, for any number of calls at once, pipes of any size and    *)
(* children that say anything: the calls share one table of descriptors,   *)
(* and every fork copies what the others have open.                        *)
(***************************************************************************)
\* The invariant, in parts.  The variables have their types, and the
\* histories theirs.
KidRecord == [at: {"none", "forked", "runs", "unstarted", "ended"},
              fds: SUBSET Fd, cloexec: SUBSET Fd,
              owes: {"nothing", "out", "err"}, ahead: 0 .. MaxAhead]
RTypes ==
    /\ pc \in [Call -> {"idle", "pipes", "fork", "close", "drain", "wait", "done"}]
    /\ made \in [Call -> 0 .. 4]
    /\ open \subseteq Fd
    /\ kid \in [Call -> KidRecord]
    /\ buf \in [Call -> [Pipe -> 0 .. Capacity]]
    /\ left \in [Call -> 0 .. MaxInput]
    /\ got \in [Call -> [Stream -> Nat]]
    /\ wrote \in [Call -> [Stream -> Nat]]
    /\ result \in [Call -> {"none", "null", "ran"}]

Alive(c) == kid[c].at \in {"forked", "runs"}

\* All the ends a call's pipes have, and those it reads and writes itself.
Own(c) == {c} \X Pipe \X {"r", "w"}
Kept(c) == {<<c, "out", "r">>, <<c, "err", "r">>, <<c, "in", "w">>, <<c, "fail", "r">>}

\* The ends a call may hold at each of its places: it has all of its pipes
\* when it forks, its own ends while it drains, and none in the end.
HoldsItsOwn(c) ==
    /\ pc[c] = "idle" => made[c] = 0
    /\ pc[c] \in {"idle", "wait", "done"} => open \intersect Own(c) = {}
    /\ pc[c] = "fork" => made[c] = 4
    /\ pc[c] = "pipes" => open \intersect Own(c) = OwnPipes(c)
    /\ pc[c] \in {"fork", "close"} => Own(c) \subseteq open
    /\ pc[c] = "drain" => open \intersect Own(c) \subseteq Kept(c)

\* A child that lives holds the writing end of both its streams.
KidCanSpeak(c) == Alive(c) => \A s \in Stream : <<c, s, "w">> \in kid[c].fds

\* Where a call is says whether it has a child, and the pipe whether it began.
KidFollows(c) ==
    /\ pc[c] \in {"idle", "pipes", "fork"} => kid[c].at = "none"
    /\ pc[c] \in {"close", "drain", "wait"} => kid[c].at # "none"
    /\ buf[c]["fail"] = IF kid[c].at = "unstarted" THEN 1 ELSE 0
    /\ pc[c] = "done" => ~Alive(c)
    /\ result[c] = "none" <=> pc[c] # "done"
    /\ result[c] = "ran" <=> pc[c] = "done" /\ kid[c].at = "ended"

\* What was said is in the pipe or with the call, and a stream the call has
\* closed is empty and will stay so.
NothingIsLost(c) ==
    \A s \in Stream :
        /\ wrote[c][s] = got[c][s] + buf[c][s]
        /\ pc[c] \in {"drain", "wait"} /\ <<c, s, "r">> \notin open => buf[c][s] = 0 /\ ~Alive(c)
        /\ result[c] = "ran" => buf[c][s] = 0

CallInv(c) == HoldsItsOwn(c) /\ KidCanSpeak(c) /\ KidFollows(c) /\ NothingIsLost(c)

\* Only the ends that tell of a failed exec are closed by one.
FailEnds == {<<c, "fail", "w">> : c \in Call}
OnlyFailCloses ==
    /\ cloexec \subseteq FailEnds \intersect open
    /\ \A c \in Call : kid[c].cloexec \subseteq FailEnds

RInv == RTypes /\ OnlyFailCloses /\ \A c \in Call : CallInv(c)
--------------------------------------------------------------------------------
(* The pipes a call has made.                                              *)

LEMMA PipesAreOwn ==
    ASSUME NEW c \in Call, made[c] \in 0 .. 4
    PROVE  OwnPipes(c) \subseteq Own(c)
<1>1. \A k \in 1 .. 4 : Order[k] \in Pipe
    BY DEF Order, Pipe
<1>2. \A k \in 1 .. made[c] : Ends(c, Order[k]) \subseteq Own(c)
    BY <1>1 DEF Ends, Own
<1> QED BY <1>2 DEF OwnPipes

LEMMA AllPipesMade ==
    ASSUME NEW c \in Call, made[c] = 4
    PROVE  OwnPipes(c) = Own(c)
<1>1. ASSUME NEW p \in Pipe PROVE \E k \in 1 .. 4 : Order[k] = p
    BY DEF Order, Pipe
<1>2. \A p \in Pipe : Ends(c, p) \subseteq OwnPipes(c)
    BY <1>1 DEF OwnPipes
<1>3. ASSUME NEW fd \in Own(c) PROVE fd \in OwnPipes(c)
    <2>1. PICK p \in Pipe, e \in {"r", "w"} : fd = <<c, p, e>>
        BY DEF Own
    <2>2. fd \in Ends(c, p)
        BY <2>1 DEF Ends
    <2> QED BY <1>2, <2>2
<1> QED BY <1>3, PipesAreOwn

LEMMA OneMorePipe ==
    ASSUME NEW c \in Call, made[c] \in 0 .. 3, made'[c] = made[c] + 1
    PROVE  OwnPipes(c)' = OwnPipes(c) \union Ends(c, Order[made[c] + 1])
<1>1. 1 .. made'[c] = (1 .. made[c]) \union {made[c] + 1}
    OBVIOUS
<1> QED BY DEF OwnPipes
--------------------------------------------------------------------------------
(* A step is one call's: it leaves what the others have made, and their ends  *)
(* of the table, and so what holds of them.                                   *)

StepOf(c) ==
    /\ \A d \in Call \ {c} :
           /\ pc'[d] = pc[d] /\ made'[d] = made[d] /\ kid'[d] = kid[d] /\ buf'[d] = buf[d]
           /\ got'[d] = got[d] /\ wrote'[d] = wrote[d] /\ result'[d] = result[d]
    /\ open' \ Own(c) = open \ Own(c)

LEMMA OthersKeep ==
    ASSUME NEW c \in Call, NEW d \in Call \ {c}, StepOf(c), CallInv(d)
    PROVE  CallInv(d)'
<1>1. \A fd \in Own(d) : fd \in open' <=> fd \in open
    BY DEF StepOf, Own
<1>2. OwnPipes(d)' = OwnPipes(d)
    BY DEF StepOf, OwnPipes
<1>3. HoldsItsOwn(d)'
    BY <1>1, <1>2 DEF StepOf, CallInv, HoldsItsOwn
<1>4. KidCanSpeak(d)'
    BY DEF StepOf, CallInv, KidCanSpeak, Alive
<1>5. KidFollows(d)'
    BY DEF StepOf, CallInv, KidFollows, Alive
<1>6. ASSUME NEW s \in Stream
      PROVE  <<d, s, "r">> \in Own(d)
    BY DEF Own, Stream, Pipe
<1>7. NothingIsLost(d)'
    BY <1>1, <1>6 DEF StepOf, CallInv, NothingIsLost, Alive
<1> QED BY <1>3, <1>4, <1>5, <1>7 DEF CallInv

\* So a step keeps the invariant when it does so for its own call.
LEMMA OneCallIsEnough ==
    ASSUME RInv, NEW c \in Call, StepOf(c), RTypes', OnlyFailCloses', CallInv(c)'
    PROVE  RInv'
BY OthersKeep DEF RInv
--------------------------------------------------------------------------------
(* The steps, one lemma each.                                              *)

LEMMA NextPipe ==
    ASSUME NEW c \in Call, made[c] \in 0 .. 3
    PROVE  Ends(c, Order[made[c] + 1]) \subseteq Own(c)
<1>1. Order[made[c] + 1] \in Pipe
    BY DEF Order, Pipe
<1> QED BY <1>1 DEF Ends, Own

LEMMA Amounts ==
    ASSUME RTypes, NEW c \in Call, NEW s \in Stream
    PROVE  buf[c][s] \in Nat /\ got[c][s] \in Nat /\ wrote[c][s] \in Nat
<1>1. s \in Pipe
    BY DEF Stream, Pipe
<1>2. buf[c][s] \in 0 .. Capacity
    BY <1>1 DEF RTypes
<1> QED BY <1>2 DEF RTypes

LEMMA KidRecords ==
    ASSUME NEW k \in KidRecord
    PROVE  /\ \A p \in {"none", "forked", "runs", "unstarted", "ended"}, fds \in SUBSET Fd, cl \in SUBSET Fd :
                [k EXCEPT !.at = p, !.fds = fds, !.cloexec = cl] \in KidRecord
           /\ \A s \in {"nothing", "out", "err"} : [k EXCEPT !.owes = s] \in KidRecord
           /\ k.ahead > 0 => [k EXCEPT !.ahead = @ - 1] \in KidRecord
<1>1. k = [at |-> k.at, fds |-> k.fds, cloexec |-> k.cloexec, owes |-> k.owes, ahead |-> k.ahead]
    BY DEF KidRecord
<1>2. /\ k.at \in {"none", "forked", "runs", "unstarted", "ended"} /\ k.fds \in SUBSET Fd
      /\ k.cloexec \in SUBSET Fd /\ k.owes \in {"nothing", "out", "err"} /\ k.ahead \in 0 .. MaxAhead
    BY DEF KidRecord
<1>3. ASSUME NEW p \in {"none", "forked", "runs", "unstarted", "ended"}, NEW fds \in SUBSET Fd, NEW cl \in SUBSET Fd
      PROVE  [k EXCEPT !.at = p, !.fds = fds, !.cloexec = cl] \in KidRecord
    BY DEF KidRecord
<1>4. ASSUME NEW s \in {"nothing", "out", "err"}
      PROVE  [k EXCEPT !.owes = s] \in KidRecord
    BY DEF KidRecord
<1>5. k.ahead > 0 => [k EXCEPT !.ahead = @ - 1] \in KidRecord
    BY RunCommandAssumption DEF KidRecord
<1> QED BY <1>3, <1>4, <1>5

LEMMA StartKeeps ==
    ASSUME RInv, NEW c \in Call, Start(c)
    PROVE  RInv'
<1>1. RTypes /\ OnlyFailCloses /\ HoldsItsOwn(c) /\ KidCanSpeak(c) /\ KidFollows(c) /\ NothingIsLost(c)
    BY DEF RInv, CallInv
<1>2. RTypes'
    BY <1>1 DEF RTypes, parentVars, Start, Goto
<1>3. StepOf(c)
    BY DEF StepOf, parentVars, Start, Goto
<1>4. OnlyFailCloses'
    BY <1>1 DEF OnlyFailCloses, parentVars, Start
<1>5. HoldsItsOwn(c)'
    BY <1>1 DEF HoldsItsOwn, OwnPipes, parentVars, Start, Goto
<1>6. KidCanSpeak(c)'
    BY <1>1 DEF KidCanSpeak, Alive, Start
<1>7. KidFollows(c)'
    BY <1>1 DEF KidFollows, parentVars, Start, Goto
<1>8. NothingIsLost(c)'
    BY <1>1 DEF NothingIsLost, parentVars, Start, Goto
<1> QED BY <1>2, <1>3, <1>4, <1>5, <1>6, <1>7, <1>8, OneCallIsEnough DEF CallInv

LEMMA MakePipeKeeps ==
    ASSUME RInv, NEW c \in Call, MakePipe(c)
    PROVE  RInv'
<1>1. RTypes /\ OnlyFailCloses /\ HoldsItsOwn(c) /\ KidCanSpeak(c) /\ KidFollows(c) /\ NothingIsLost(c)
    BY DEF RInv, CallInv
<1>2. RTypes'
    <2>1. made[c] \in 0 .. 3
        BY <1>1 DEF RTypes, MakePipe
    <2>2. Ends(c, Order[made[c] + 1]) \subseteq Fd
        BY <2>1, NextPipe DEF Own, Fd
    <2>3. made' \in [Call -> 0 .. 4]
        BY <1>1, <2>1 DEF RTypes, MakePipe
    <2> QED BY <1>1, <2>2, <2>3 DEF RTypes, MakePipe
<1>3. StepOf(c)
    <2>1. made[c] \in 0 .. 3
        BY <1>1 DEF RTypes, MakePipe
    <2>2. Ends(c, Order[made[c] + 1]) \subseteq Own(c)
        BY <2>1, NextPipe
    <2> QED BY <2>2 DEF StepOf, MakePipe
<1>4. OnlyFailCloses'
    BY <1>1 DEF OnlyFailCloses, MakePipe
<1>5. HoldsItsOwn(c)'
    <2>1. made[c] \in 0 .. 3 /\ made'[c] = made[c] + 1
        BY <1>1 DEF RTypes, MakePipe
    <2>2. OwnPipes(c)' = OwnPipes(c) \union Ends(c, Order[made[c] + 1])
        BY <2>1, OneMorePipe
    <2> QED BY <1>1, <2>1, <2>2, NextPipe DEF HoldsItsOwn, MakePipe
<1>6. KidCanSpeak(c)'
    BY <1>1 DEF KidCanSpeak, Alive, MakePipe
<1>7. KidFollows(c)'
    BY <1>1 DEF KidFollows, MakePipe
<1>8. NothingIsLost(c)'
    BY <1>1 DEF NothingIsLost, MakePipe
<1> QED BY <1>2, <1>3, <1>4, <1>5, <1>6, <1>7, <1>8, OneCallIsEnough DEF CallInv

LEMMA GiveUpKeeps ==
    ASSUME RInv, NEW c \in Call, GiveUp(c)
    PROVE  RInv'
<1>1. RTypes /\ OnlyFailCloses /\ HoldsItsOwn(c) /\ KidCanSpeak(c) /\ KidFollows(c) /\ NothingIsLost(c)
    BY DEF RInv, CallInv
<1>2. RTypes'
    BY <1>1 DEF RTypes, GiveUp, Returns, Goto
<1>3. StepOf(c)
    BY <1>1, PipesAreOwn DEF StepOf, RTypes, GiveUp, Cleaned, Returns, Goto
<1>4. OnlyFailCloses'
    BY <1>1 DEF OnlyFailCloses, GiveUp
<1>5. HoldsItsOwn(c)'
    <2>1. open \intersect Own(c) \subseteq OwnPipes(c)
        BY <1>1, AllPipesMade DEF HoldsItsOwn, GiveUp
    <2>2. open' \intersect Own(c) = {} /\ pc'[c] = "done"
        BY <1>1, <2>1 DEF RTypes, GiveUp, Cleaned, Returns, Goto
    <2> QED BY <2>2 DEF HoldsItsOwn
<1>6. KidCanSpeak(c)'
    BY <1>1 DEF KidCanSpeak, Alive, GiveUp
<1>7. KidFollows(c)'
    BY <1>1 DEF KidFollows, Alive, RTypes, GiveUp, Returns, Goto
<1>8. NothingIsLost(c)'
    BY <1>1 DEF NothingIsLost, GiveUp, Returns, Goto
<1> QED BY <1>2, <1>3, <1>4, <1>5, <1>6, <1>7, <1>8, OneCallIsEnough DEF CallInv

LEMMA SetCloexecKeeps ==
    ASSUME RInv, NEW c \in Call, SetCloexec(c)
    PROVE  RInv'
<1>1. RTypes /\ OnlyFailCloses /\ HoldsItsOwn(c) /\ KidCanSpeak(c) /\ KidFollows(c) /\ NothingIsLost(c)
    BY DEF RInv, CallInv
<1>2. RTypes'
    BY <1>1 DEF RTypes, SetCloexec, Goto
<1>3. StepOf(c)
    BY DEF StepOf, SetCloexec, Goto
<1>4. OnlyFailCloses'
    <2>1. <<c, "fail", "w">> \in open
        BY <1>1, AllPipesMade DEF HoldsItsOwn, SetCloexec, Own, Pipe
    <2> QED BY <1>1, <2>1 DEF OnlyFailCloses, SetCloexec
<1>5. HoldsItsOwn(c)'
    BY <1>1, AllPipesMade DEF HoldsItsOwn, RTypes, SetCloexec, Goto
<1>6. KidCanSpeak(c)'
    BY <1>1 DEF KidCanSpeak, Alive, SetCloexec
<1>7. KidFollows(c)'
    BY <1>1 DEF KidFollows, SetCloexec, Goto
<1>8. NothingIsLost(c)'
    BY <1>1 DEF NothingIsLost, SetCloexec, Goto
<1> QED BY <1>2, <1>3, <1>4, <1>5, <1>6, <1>7, <1>8, OneCallIsEnough DEF CallInv

LEMMA ForkKeeps ==
    ASSUME RInv, NEW c \in Call, Fork(c)
    PROVE  RInv'
<1>1. RTypes /\ OnlyFailCloses /\ HoldsItsOwn(c) /\ KidCanSpeak(c) /\ KidFollows(c) /\ NothingIsLost(c)
    BY DEF RInv, CallInv
<1>2. RTypes'
    <2>1. kid'[c] \in KidRecord /\ kid' = [kid EXCEPT ![c] = kid'[c]]
        BY <1>1, KidRecords DEF RTypes, Fork, OnlyFailCloses
    <2> QED BY <1>1, <2>1 DEF RTypes, parentVars, Fork, Goto
<1>3. StepOf(c)
    BY DEF StepOf, parentVars, Fork, Goto
<1>4. OnlyFailCloses'
    BY <1>1 DEF OnlyFailCloses, parentVars, Fork
<1>5. HoldsItsOwn(c)'
    BY <1>1 DEF HoldsItsOwn, parentVars, Fork, Goto
<1>6. KidCanSpeak(c)'
    <2>1. kid'[c].fds = open
        BY <1>1 DEF RTypes, Fork
    <2>2. \A s \in Stream : <<c, s, "w">> \in open
        BY <1>1 DEF HoldsItsOwn, Fork, Own, Stream, Pipe
    <2> QED BY <2>1, <2>2 DEF KidCanSpeak
<1>7. KidFollows(c)'
    BY <1>1 DEF KidFollows, RTypes, parentVars, Fork, Goto
<1>8. NothingIsLost(c)'
    BY <1>1 DEF NothingIsLost, parentVars, Fork, Goto
<1> QED BY <1>2, <1>3, <1>4, <1>5, <1>6, <1>7, <1>8, OneCallIsEnough DEF CallInv

LEMMA CloseKeeps ==
    ASSUME RInv, NEW c \in Call, Close(c)
    PROVE  RInv'
<1>1. RTypes /\ OnlyFailCloses /\ HoldsItsOwn(c) /\ KidCanSpeak(c) /\ KidFollows(c) /\ NothingIsLost(c)
    BY DEF RInv, CallInv
<1>2. RTypes'
    BY <1>1 DEF RTypes, Close, Goto
<1>3. StepOf(c)
    BY DEF StepOf, Own, Pipe, Close, Goto
<1>4. OnlyFailCloses'
    BY <1>1 DEF OnlyFailCloses, Close
<1>5. HoldsItsOwn(c)'
    <2>1. ASSUME NEW fd \in open' \intersect Own(c) PROVE fd \in Kept(c)
        <3>1. PICK p \in Pipe, e \in {"r", "w"} : fd = <<c, p, e>>
            BY DEF Own
        <3> QED BY <3>1 DEF Close, Kept, Pipe
    <2>2. pc'[c] = "drain"
        BY <1>1 DEF RTypes, Close, Goto
    <2> QED BY <2>1, <2>2 DEF HoldsItsOwn
<1>6. KidCanSpeak(c)'
    BY <1>1 DEF KidCanSpeak, Alive, Close
<1>7. KidFollows(c)'
    BY <1>1 DEF KidFollows, Close, Goto
<1>8. NothingIsLost(c)'
    <2>1. \A s \in Stream : <<c, s, "r">> \in open'
        BY <1>1 DEF HoldsItsOwn, Own, Close, Stream, Pipe
    <2> QED BY <1>1, <2>1 DEF NothingIsLost, Close
<1> QED BY <1>2, <1>3, <1>4, <1>5, <1>6, <1>7, <1>8, OneCallIsEnough DEF CallInv

LEMMA ReadKeeps ==
    ASSUME RInv, NEW c \in Call, NEW s \in Stream, Read(c, s)
    PROVE  RInv'
<1>1. RTypes /\ OnlyFailCloses /\ HoldsItsOwn(c) /\ KidCanSpeak(c) /\ KidFollows(c) /\ NothingIsLost(c)
    BY DEF RInv, CallInv
<1>2. RTypes'
    BY <1>1, RunCommandAssumption DEF RTypes, Stream, Pipe, Read
<1>3. StepOf(c)
    BY DEF StepOf, Read
<1>4. OnlyFailCloses'
    BY <1>1 DEF OnlyFailCloses, Read
<1>5. HoldsItsOwn(c)'
    BY <1>1 DEF HoldsItsOwn, Read
<1>6. KidCanSpeak(c)'
    BY <1>1 DEF KidCanSpeak, Alive, Read
<1>7. KidFollows(c)'
    BY <1>1 DEF KidFollows, Stream, Read
<1>8. NothingIsLost(c)'
    <2> SUFFICES ASSUME NEW t \in Stream
                 PROVE  (/\ wrote[c][t] = got[c][t] + buf[c][t]
                         /\ pc[c] \in {"drain", "wait"} /\ <<c, t, "r">> \notin open => buf[c][t] = 0 /\ ~Alive(c)
                         /\ result[c] = "ran" => buf[c][t] = 0)'
        BY DEF NothingIsLost
    <2>1. /\ wrote[c][t] = got[c][t] + buf[c][t]
          /\ pc[c] \in {"drain", "wait"} /\ <<c, t, "r">> \notin open => buf[c][t] = 0 /\ ~Alive(c)
          /\ result[c] = "ran" => buf[c][t] = 0
        BY <1>1 DEF NothingIsLost
    <2> QED BY <1>1, <2>1 DEF Alive, RTypes, Stream, Pipe, Read
<1> QED BY <1>2, <1>3, <1>4, <1>5, <1>6, <1>7, <1>8, OneCallIsEnough DEF CallInv

LEMMA EofKeeps ==
    ASSUME RInv, NEW c \in Call, NEW s \in Stream, Eof(c, s)
    PROVE  RInv'
<1>1. RTypes /\ OnlyFailCloses /\ HoldsItsOwn(c) /\ KidCanSpeak(c) /\ KidFollows(c) /\ NothingIsLost(c)
    BY DEF RInv, CallInv
<1>2. RTypes'
    BY <1>1 DEF RTypes, Eof
<1>3. StepOf(c)
    BY DEF StepOf, Own, Stream, Pipe, Eof
<1>4. OnlyFailCloses'
    BY <1>1 DEF OnlyFailCloses, FailEnds, Eof
<1>5. HoldsItsOwn(c)'
    BY <1>1 DEF HoldsItsOwn, Eof
<1>6. KidCanSpeak(c)'
    BY <1>1 DEF KidCanSpeak, Alive, Eof
<1>7. KidFollows(c)'
    BY <1>1 DEF KidFollows, Eof
<1>8. NothingIsLost(c)'
    <2> SUFFICES ASSUME NEW t \in Stream
                 PROVE  (/\ wrote[c][t] = got[c][t] + buf[c][t]
                         /\ pc[c] \in {"drain", "wait"} /\ <<c, t, "r">> \notin open => buf[c][t] = 0 /\ ~Alive(c)
                         /\ result[c] = "ran" => buf[c][t] = 0)'
        BY DEF NothingIsLost
    <2>1. /\ wrote[c][t] = got[c][t] + buf[c][t]
          /\ pc[c] \in {"drain", "wait"} /\ <<c, t, "r">> \notin open => buf[c][t] = 0 /\ ~Alive(c)
          /\ result[c] = "ran" => buf[c][t] = 0
        BY <1>1 DEF NothingIsLost
    <2> QED BY <1>1, <2>1 DEF KidCanSpeak, Alive, Eof, AtEnd, Held
<1> QED BY <1>2, <1>3, <1>4, <1>5, <1>6, <1>7, <1>8, OneCallIsEnough DEF CallInv

LEMMA SendKeeps ==
    ASSUME RInv, NEW c \in Call, Send(c)
    PROVE  RInv'
<1>1. RTypes /\ OnlyFailCloses /\ HoldsItsOwn(c) /\ KidCanSpeak(c) /\ KidFollows(c) /\ NothingIsLost(c)
    BY DEF RInv, CallInv
<1>2. RTypes'
    BY <1>1, RunCommandAssumption DEF RTypes, Pipe, Send, Placed, Room
<1>3. StepOf(c)
    BY DEF StepOf, Own, Pipe, Send
<1>4. OnlyFailCloses'
    BY <1>1 DEF OnlyFailCloses, FailEnds, Send
<1>5. HoldsItsOwn(c)'
    BY <1>1 DEF HoldsItsOwn, Send
<1>6. KidCanSpeak(c)'
    BY <1>1 DEF KidCanSpeak, Alive, Send
<1>7. KidFollows(c)'
    BY <1>1 DEF KidFollows, Send
<1>8. NothingIsLost(c)'
    <2> SUFFICES ASSUME NEW t \in Stream
                 PROVE  (/\ wrote[c][t] = got[c][t] + buf[c][t]
                         /\ pc[c] \in {"drain", "wait"} /\ <<c, t, "r">> \notin open => buf[c][t] = 0 /\ ~Alive(c)
                         /\ result[c] = "ran" => buf[c][t] = 0)'
        BY DEF NothingIsLost
    <2>1. /\ wrote[c][t] = got[c][t] + buf[c][t]
          /\ pc[c] \in {"drain", "wait"} /\ <<c, t, "r">> \notin open => buf[c][t] = 0 /\ ~Alive(c)
          /\ result[c] = "ran" => buf[c][t] = 0
        BY <1>1 DEF NothingIsLost
    <2> QED BY <2>1 DEF Alive, Stream, Send
<1> QED BY <1>2, <1>3, <1>4, <1>5, <1>6, <1>7, <1>8, OneCallIsEnough DEF CallInv

LEMMA SendRefusedKeeps ==
    ASSUME RInv, NEW c \in Call, SendRefused(c)
    PROVE  RInv'
<1>1. RTypes /\ OnlyFailCloses /\ HoldsItsOwn(c) /\ KidCanSpeak(c) /\ KidFollows(c) /\ NothingIsLost(c)
    BY DEF RInv, CallInv
<1>2. RTypes'
    BY <1>1 DEF RTypes, SendRefused
<1>3. StepOf(c)
    BY DEF StepOf, Own, Pipe, SendRefused
<1>4. OnlyFailCloses'
    BY <1>1 DEF OnlyFailCloses, FailEnds, SendRefused
<1>5. HoldsItsOwn(c)'
    BY <1>1 DEF HoldsItsOwn, SendRefused
<1>6. KidCanSpeak(c)'
    BY <1>1 DEF KidCanSpeak, Alive, SendRefused
<1>7. KidFollows(c)'
    BY <1>1 DEF KidFollows, SendRefused
<1>8. NothingIsLost(c)'
    BY <1>1 DEF NothingIsLost, Alive, SendRefused
<1> QED BY <1>2, <1>3, <1>4, <1>5, <1>6, <1>7, <1>8, OneCallIsEnough DEF CallInv

LEMMA ReadFailKeeps ==
    ASSUME RInv, NEW c \in Call, ReadFail(c)
    PROVE  RInv'
<1>1. RTypes /\ OnlyFailCloses /\ HoldsItsOwn(c) /\ KidCanSpeak(c) /\ KidFollows(c) /\ NothingIsLost(c)
    BY DEF RInv, CallInv
<1>2. RTypes'
    BY <1>1 DEF RTypes, ReadFail, Goto
<1>3. StepOf(c)
    BY DEF StepOf, Own, Pipe, ReadFail, Goto
<1>4. OnlyFailCloses'
    BY <1>1 DEF OnlyFailCloses, FailEnds, ReadFail
<1>5. HoldsItsOwn(c)'
    BY <1>1 DEF HoldsItsOwn, Kept, ReadFail, Goto
<1>6. KidCanSpeak(c)'
    BY <1>1 DEF KidCanSpeak, Alive, ReadFail
<1>7. KidFollows(c)'
    BY <1>1 DEF KidFollows, ReadFail, Goto
<1>8. NothingIsLost(c)'
    BY <1>1 DEF NothingIsLost, Alive, Stream, ReadFail
<1> QED BY <1>2, <1>3, <1>4, <1>5, <1>6, <1>7, <1>8, OneCallIsEnough DEF CallInv

LEMMA WaitKeeps ==
    ASSUME RInv, NEW c \in Call, Wait(c)
    PROVE  RInv'
<1>1. RTypes /\ OnlyFailCloses /\ HoldsItsOwn(c) /\ KidCanSpeak(c) /\ KidFollows(c) /\ NothingIsLost(c)
    BY DEF RInv, CallInv
<1>2. RTypes'
    BY <1>1 DEF RTypes, Wait, Returns, Goto
<1>3. StepOf(c)
    BY DEF StepOf, Wait, Returns, Goto
<1>4. OnlyFailCloses'
    BY <1>1 DEF OnlyFailCloses, Wait
<1>5. HoldsItsOwn(c)'
    BY <1>1 DEF HoldsItsOwn, Wait, Returns, Goto
<1>6. KidCanSpeak(c)'
    BY DEF KidCanSpeak, Alive, Wait
<1>7. KidFollows(c)'
    BY <1>1 DEF KidFollows, Alive, RTypes, Wait, Returns, Goto, Started
<1>8. NothingIsLost(c)'
    <2> SUFFICES ASSUME NEW t \in Stream
                 PROVE  (/\ wrote[c][t] = got[c][t] + buf[c][t]
                         /\ pc[c] \in {"drain", "wait"} /\ <<c, t, "r">> \notin open => buf[c][t] = 0 /\ ~Alive(c)
                         /\ result[c] = "ran" => buf[c][t] = 0)'
        BY DEF NothingIsLost
    <2>1. /\ wrote[c][t] = got[c][t] + buf[c][t]
          /\ pc[c] \in {"drain", "wait"} /\ <<c, t, "r">> \notin open => buf[c][t] = 0 /\ ~Alive(c)
          /\ result[c] = "ran" => buf[c][t] = 0
        BY <1>1 DEF NothingIsLost
    <2> QED BY <1>1, <2>1 DEF HoldsItsOwn, Own, Alive, Stream, Pipe, Wait
<1> QED BY <1>2, <1>3, <1>4, <1>5, <1>6, <1>7, <1>8, OneCallIsEnough DEF CallInv

LEMMA ExecKeeps ==
    ASSUME RInv, NEW c \in Call, Exec(c)
    PROVE  RInv'
<1>1. RTypes /\ OnlyFailCloses /\ HoldsItsOwn(c) /\ KidCanSpeak(c) /\ KidFollows(c) /\ NothingIsLost(c)
    BY DEF RInv, CallInv
<1>2. RTypes'
    <2>1. Inherited(c) \in SUBSET Fd
        BY <1>1 DEF RTypes, KidRecord, Inherited
    <2>2. kid' = [kid EXCEPT ![c] = [kid[c] EXCEPT !.at = "runs", !.fds = Inherited(c), !.cloexec = {}]]
        BY DEF Exec
    <2>3. [kid[c] EXCEPT !.at = "runs", !.fds = Inherited(c), !.cloexec = {}] \in KidRecord
        BY <1>1, <2>1, KidRecords DEF RTypes
    <2> QED BY <1>1, <2>3 DEF RTypes, parentVars, Exec
<1>3. StepOf(c)
    BY DEF StepOf, parentVars, Exec
<1>4. OnlyFailCloses'
    BY <1>1 DEF OnlyFailCloses, parentVars, Exec
<1>5. HoldsItsOwn(c)'
    BY <1>1 DEF HoldsItsOwn, OwnPipes, parentVars, Exec
<1>6. KidCanSpeak(c)'
    <2>1. \A s \in Stream : <<c, s, "w">> \in kid[c].fds /\ <<c, s, "w">> \notin kid[c].cloexec
        BY <1>1 DEF KidCanSpeak, Alive, OnlyFailCloses, FailEnds, Stream, Exec
    <2>2. kid'[c].fds = Inherited(c)
        BY <1>1 DEF RTypes, Exec
    <2>3. \A s \in Stream : <<c, s, "w">> \in kid'[c].fds
        BY <2>1, <2>2 DEF Inherited, Stream
    <2> QED BY <2>3 DEF KidCanSpeak
<1>7. KidFollows(c)'
    BY <1>1 DEF KidFollows, Alive, parentVars, Exec
<1>8. NothingIsLost(c)'
    BY <1>1 DEF NothingIsLost, Alive, parentVars, Exec
<1> QED BY <1>2, <1>3, <1>4, <1>5, <1>6, <1>7, <1>8, OneCallIsEnough DEF CallInv

LEMMA ExecFailsKeeps ==
    ASSUME RInv, NEW c \in Call, ExecFails(c)
    PROVE  RInv'
<1>1. RTypes /\ OnlyFailCloses /\ HoldsItsOwn(c) /\ KidCanSpeak(c) /\ KidFollows(c) /\ NothingIsLost(c)
    BY DEF RInv, CallInv
<1>2. RTypes'
    <2>1. kid'[c] \in KidRecord /\ kid' = [kid EXCEPT ![c] = kid'[c]]
        BY <1>1, KidRecords DEF RTypes, ExecFails, Ended
    <2> QED BY <1>1, <2>1, RunCommandAssumption DEF RTypes, Pipe, parentVars, ExecFails, Ended
<1>3. StepOf(c)
    BY DEF StepOf, parentVars, ExecFails, Ended
<1>4. OnlyFailCloses'
    BY <1>1 DEF OnlyFailCloses, parentVars, ExecFails, Ended
<1>5. HoldsItsOwn(c)'
    BY <1>1 DEF HoldsItsOwn, OwnPipes, parentVars, ExecFails
<1>6. KidCanSpeak(c)'
    BY <1>1 DEF KidCanSpeak, Alive, ExecFails, Ended
<1>7. KidFollows(c)'
    BY <1>1 DEF KidFollows, Alive, RTypes, Pipe, parentVars, ExecFails, Ended
<1>8. NothingIsLost(c)'
    BY <1>1 DEF NothingIsLost, Alive, Stream, Pipe, parentVars, ExecFails
<1> QED BY <1>2, <1>3, <1>4, <1>5, <1>6, <1>7, <1>8, OneCallIsEnough DEF CallInv

LEMMA KidReadsKeeps ==
    ASSUME RInv, NEW c \in Call, NEW s \in Stream, KidReads(c, s)
    PROVE  RInv'
<1>1. RTypes /\ OnlyFailCloses /\ HoldsItsOwn(c) /\ KidCanSpeak(c) /\ KidFollows(c) /\ NothingIsLost(c)
    BY DEF RInv, CallInv
<1>2. RTypes'
    <2>1. kid'[c] \in KidRecord /\ kid' = [kid EXCEPT ![c] = kid'[c]]
        BY <1>1, KidRecords DEF RTypes, KidReads, Stream
    <2> QED BY <1>1, <2>1, RunCommandAssumption DEF RTypes, Pipe, parentVars, KidReads
<1>3. StepOf(c)
    BY DEF StepOf, parentVars, KidReads
<1>4. OnlyFailCloses'
    BY <1>1 DEF OnlyFailCloses, parentVars, KidReads
<1>5. HoldsItsOwn(c)'
    BY <1>1 DEF HoldsItsOwn, OwnPipes, parentVars, KidReads
<1>6. KidCanSpeak(c)'
    BY <1>1 DEF KidCanSpeak, Alive, KidReads
<1>7. KidFollows(c)'
    BY <1>1 DEF KidFollows, Alive, parentVars, KidReads
<1>8. NothingIsLost(c)'
    BY <1>1 DEF NothingIsLost, Alive, Stream, Pipe, parentVars, KidReads
<1> QED BY <1>2, <1>3, <1>4, <1>5, <1>6, <1>7, <1>8, OneCallIsEnough DEF CallInv

LEMMA KidAnswersKeeps ==
    ASSUME RInv, NEW c \in Call, NEW s \in Stream, KidAnswers(c, s)
    PROVE  RInv'
<1>1. RTypes /\ OnlyFailCloses /\ HoldsItsOwn(c) /\ KidCanSpeak(c) /\ KidFollows(c) /\ NothingIsLost(c)
    BY DEF RInv, CallInv
<1>2. RTypes'
    <2>1. kid'[c] \in KidRecord /\ kid' = [kid EXCEPT ![c] = kid'[c]]
        BY <1>1, KidRecords DEF RTypes, KidAnswers
    <2> QED BY <1>1, <2>1, RunCommandAssumption DEF RTypes, Stream, Pipe, parentVars, KidAnswers,
               Says, Room
<1>3. StepOf(c)
    BY DEF StepOf, parentVars, KidAnswers, Says
<1>4. OnlyFailCloses'
    BY <1>1 DEF OnlyFailCloses, parentVars, KidAnswers
<1>5. HoldsItsOwn(c)'
    BY <1>1 DEF HoldsItsOwn, OwnPipes, parentVars, KidAnswers
<1>6. KidCanSpeak(c)'
    BY <1>1 DEF KidCanSpeak, Alive, KidAnswers
<1>7. KidFollows(c)'
    BY <1>1 DEF KidFollows, Alive, Stream, parentVars, KidAnswers, Says
<1>8. NothingIsLost(c)'
    <2> SUFFICES ASSUME NEW t \in Stream
                 PROVE  (/\ wrote[c][t] = got[c][t] + buf[c][t]
                         /\ pc[c] \in {"drain", "wait"} /\ <<c, t, "r">> \notin open => buf[c][t] = 0 /\ ~Alive(c)
                         /\ result[c] = "ran" => buf[c][t] = 0)'
        BY DEF NothingIsLost
    <2>1. /\ wrote[c][t] = got[c][t] + buf[c][t]
          /\ pc[c] \in {"drain", "wait"} /\ <<c, t, "r">> \notin open => buf[c][t] = 0 /\ ~Alive(c)
          /\ result[c] = "ran" => buf[c][t] = 0
        BY <1>1 DEF NothingIsLost
    <2> QED BY <1>1, <2>1 DEF KidFollows, Alive, RTypes, Stream, Pipe, parentVars, KidAnswers,
               Says, Room
<1> QED BY <1>2, <1>3, <1>4, <1>5, <1>6, <1>7, <1>8, OneCallIsEnough DEF CallInv

LEMMA KidSpeaksKeeps ==
    ASSUME RInv, NEW c \in Call, NEW s \in Stream, KidSpeaks(c, s)
    PROVE  RInv'
<1>1. RTypes /\ OnlyFailCloses /\ HoldsItsOwn(c) /\ KidCanSpeak(c) /\ KidFollows(c) /\ NothingIsLost(c)
    BY DEF RInv, CallInv
<1>2. RTypes'
    <2>1. kid'[c] \in KidRecord /\ kid' = [kid EXCEPT ![c] = kid'[c]]
        BY <1>1, KidRecords DEF RTypes, KidSpeaks
    <2> QED BY <1>1, <2>1, RunCommandAssumption DEF RTypes, Stream, Pipe, parentVars, KidSpeaks,
               Says, Room
<1>3. StepOf(c)
    BY DEF StepOf, parentVars, KidSpeaks, Says
<1>4. OnlyFailCloses'
    BY <1>1 DEF OnlyFailCloses, parentVars, KidSpeaks
<1>5. HoldsItsOwn(c)'
    BY <1>1 DEF HoldsItsOwn, OwnPipes, parentVars, KidSpeaks
<1>6. KidCanSpeak(c)'
    BY <1>1 DEF KidCanSpeak, Alive, KidSpeaks
<1>7. KidFollows(c)'
    BY <1>1 DEF KidFollows, Alive, Stream, parentVars, KidSpeaks, Says
<1>8. NothingIsLost(c)'
    <2> SUFFICES ASSUME NEW t \in Stream
                 PROVE  (/\ wrote[c][t] = got[c][t] + buf[c][t]
                         /\ pc[c] \in {"drain", "wait"} /\ <<c, t, "r">> \notin open => buf[c][t] = 0 /\ ~Alive(c)
                         /\ result[c] = "ran" => buf[c][t] = 0)'
        BY DEF NothingIsLost
    <2>1. /\ wrote[c][t] = got[c][t] + buf[c][t]
          /\ pc[c] \in {"drain", "wait"} /\ <<c, t, "r">> \notin open => buf[c][t] = 0 /\ ~Alive(c)
          /\ result[c] = "ran" => buf[c][t] = 0
        BY <1>1 DEF NothingIsLost
    <2> QED BY <1>1, <2>1 DEF KidFollows, Alive, RTypes, Stream, Pipe, parentVars, KidSpeaks, Says
<1> QED BY <1>2, <1>3, <1>4, <1>5, <1>6, <1>7, <1>8, OneCallIsEnough DEF CallInv

LEMMA KidEndsKeeps ==
    ASSUME RInv, NEW c \in Call, KidEnds(c)
    PROVE  RInv'
<1>1. RTypes /\ OnlyFailCloses /\ HoldsItsOwn(c) /\ KidCanSpeak(c) /\ KidFollows(c) /\ NothingIsLost(c)
    BY DEF RInv, CallInv
<1>2. RTypes'
    <2>1. kid'[c] \in KidRecord /\ kid' = [kid EXCEPT ![c] = kid'[c]]
        BY <1>1, KidRecords DEF RTypes, KidEnds, Ended
    <2> QED BY <1>1, <2>1 DEF RTypes, parentVars, KidEnds
<1>3. StepOf(c)
    BY DEF StepOf, parentVars, KidEnds, Ended
<1>4. OnlyFailCloses'
    BY <1>1 DEF OnlyFailCloses, parentVars, KidEnds, Ended
<1>5. HoldsItsOwn(c)'
    BY <1>1 DEF HoldsItsOwn, OwnPipes, parentVars, KidEnds
<1>6. KidCanSpeak(c)'
    BY <1>1 DEF KidCanSpeak, Alive, KidEnds, Ended
<1>7. KidFollows(c)'
    BY <1>1 DEF KidFollows, Alive, parentVars, KidEnds, Ended
<1>8. NothingIsLost(c)'
    BY <1>1 DEF NothingIsLost, Alive, parentVars, KidEnds
<1> QED BY <1>2, <1>3, <1>4, <1>5, <1>6, <1>7, <1>8, OneCallIsEnough DEF CallInv

LEMMA KidQuitsKeeps ==
    ASSUME RInv, NEW c \in Call, KidQuits(c)
    PROVE  RInv'
<1>1. RTypes /\ OnlyFailCloses /\ HoldsItsOwn(c) /\ KidCanSpeak(c) /\ KidFollows(c) /\ NothingIsLost(c)
    BY DEF RInv, CallInv
<1>2. RTypes'
    <2>1. kid'[c] \in KidRecord /\ kid' = [kid EXCEPT ![c] = kid'[c]]
        BY <1>1, KidRecords DEF RTypes, KidQuits, Ended
    <2> QED BY <1>1, <2>1 DEF RTypes, parentVars, KidQuits
<1>3. StepOf(c)
    BY DEF StepOf, parentVars, KidQuits, Ended
<1>4. OnlyFailCloses'
    BY <1>1 DEF OnlyFailCloses, parentVars, KidQuits, Ended
<1>5. HoldsItsOwn(c)'
    BY <1>1 DEF HoldsItsOwn, OwnPipes, parentVars, KidQuits
<1>6. KidCanSpeak(c)'
    BY <1>1 DEF KidCanSpeak, Alive, KidQuits, Ended
<1>7. KidFollows(c)'
    BY <1>1 DEF KidFollows, Alive, parentVars, KidQuits, Ended
<1>8. NothingIsLost(c)'
    BY <1>1 DEF NothingIsLost, Alive, parentVars, KidQuits
<1> QED BY <1>2, <1>3, <1>4, <1>5, <1>6, <1>7, <1>8, OneCallIsEnough DEF CallInv
--------------------------------------------------------------------------------
(* The theorems.                                                              *)

LEMMA InitRInv == Init => RInv
<1> SUFFICES ASSUME Init PROVE RInv
    OBVIOUS
<1>1. RTypes
    BY RunCommandAssumption DEF Init, RTypes, NoKid, KidRecord
<1>2. OnlyFailCloses
    BY DEF Init, OnlyFailCloses, NoKid
<1>3. ASSUME NEW c \in Call PROVE CallInv(c)
    <2>1. \A s \in Stream : s \in Pipe
        BY DEF Stream, Pipe
    <2>2. HoldsItsOwn(c)
        BY DEF Init, HoldsItsOwn
    <2>3. KidCanSpeak(c) /\ KidFollows(c)
        BY DEF Init, KidCanSpeak, KidFollows, Alive, NoKid, Pipe
    <2>4. NothingIsLost(c)
        BY <2>1 DEF Init, NothingIsLost
    <2> QED BY <2>2, <2>3, <2>4 DEF CallInv
<1> QED BY <1>1, <1>2, <1>3 DEF RInv

LEMMA ParentStepKeeps ==
    ASSUME RInv, NEW c \in Call, ParentStep(c)
    PROVE  RInv'
BY MakePipeKeeps, SetCloexecKeeps, ForkKeeps, CloseKeeps, ReadKeeps, EofKeeps, SendKeeps,
   SendRefusedKeeps, ReadFailKeeps, WaitKeeps DEF ParentStep

LEMMA KidStepKeeps ==
    ASSUME RInv, NEW c \in Call, KidStep(c)
    PROVE  RInv'
BY ExecKeeps, KidEndsKeeps, KidReadsKeeps, KidAnswersKeeps DEF KidStep

LEMMA RNextKeeps == RInv /\ [Next]_vars => RInv'
<1> SUFFICES ASSUME RInv, [Next]_vars PROVE RInv'
    OBVIOUS
<1>1. CASE UNCHANGED vars
    <2>1. RTypes' /\ OnlyFailCloses'
        BY <1>1 DEF RInv, RTypes, OnlyFailCloses, vars, parentVars
    <2>2. ASSUME NEW c \in Call PROVE CallInv(c)'
        <3>1. OwnPipes(c)' = OwnPipes(c)
            BY <1>1 DEF OwnPipes, vars, parentVars
        <3> QED BY <1>1, <3>1 DEF RInv, CallInv, HoldsItsOwn, KidCanSpeak, KidFollows,
                   NothingIsLost, Alive, vars, parentVars
    <2> QED BY <2>1, <2>2 DEF RInv
<1>2. CASE Next
    BY <1>2, StartKeeps, GiveUpKeeps, ParentStepKeeps, KidStepKeeps, ExecFailsKeeps, KidQuitsKeeps,
       KidSpeaksKeeps DEF Next
<1> QED BY <1>1, <1>2

\* Every variable of runCommand keeps its type: descriptors are the calls' own,
\* close-on-exec ones among them, and no pipe holds more than it can.
THEOREM RunCommandTypes == Spec => []TypeOK
<1>1. RInv => TypeOK
    <2> SUFFICES ASSUME RInv PROVE TypeOK
        OBVIOUS
    <2>1. cloexec \subseteq open
        BY DEF RInv, OnlyFailCloses
    <2> QED BY <2>1 DEF RInv, RTypes, KidRecord, TypeOK
<1> QED BY <1>1, InitRInv, RNextKeeps, PTL DEF Spec

\* Whatever its threads call beside each other, runCommand returns all its child
\* wrote and nothing else, null only for a program that was not started, and
\* leaves no process and no descriptor (keal_run_command, src/src/runtime.c).
THEOREM CallsAreAlwaysWhole == Spec => []CallsAreWhole
<1>1. ASSUME RInv PROVE ResultIsTheChilds
    <2> SUFFICES ASSUME NEW c \in Call, result[c] # "none"
                 PROVE  /\ result[c] = "ran" <=> kid[c].at = "ended"
                        /\ result[c] = "ran" => got[c] = wrote[c]
        BY DEF ResultIsTheChilds
    <2>1. CallInv(c) /\ RTypes
        BY <1>1 DEF RInv
    <2>2. result[c] = "ran" <=> kid[c].at = "ended"
        BY <2>1 DEF CallInv, KidFollows
    <2>3. ASSUME result[c] = "ran", NEW s \in Stream PROVE got[c][s] = wrote[c][s]
        <3>1. wrote[c][s] = got[c][s] + buf[c][s] /\ buf[c][s] = 0
            BY <2>1, <2>3 DEF CallInv, NothingIsLost
        <3>2. got[c][s] \in Nat
            BY <2>1, Amounts
        <3> QED BY <3>1, <3>2
    <2>4. got[c] \in [Stream -> Nat] /\ wrote[c] \in [Stream -> Nat]
        BY <2>1 DEF RTypes
    <2> QED BY <2>2, <2>3, <2>4
<1>2. ASSUME RInv PROVE CallsLeaveNothing
    BY <1>2 DEF RInv, CallInv, HoldsItsOwn, KidFollows, Alive, Own, CallsLeaveNothing
<1> QED BY <1>1, <1>2, InitRInv, RNextKeeps, PTL DEF Spec, CallsAreWhole

--------------------------------------------------------------------------------
(***************************************************************************)
(* `keal test` on one file, for any commands, texts, pipes and programs,   *)
(* and however the child, the two threads that read it and the deadline    *)
(* interleave.                                                             *)
(***************************************************************************)
(* The invariant, in parts.                                                *)

\* A command was started and has not been joined.
Busy == at \in {"wait", "kill", "join", "join stuck"}

\* The places of the runner and of its child agree.
RunnerFollows ==
    /\ at = "spawn" \/ Busy => step <= Len(Commands)
    /\ at \in {"wait", "kill"} => child \in {"runs", "ended"}
    /\ at = "join" => child = "ended"
    /\ at = "join stuck" => child \in {"ended", "killed"}
    /\ at = "judge" => step = Len(Commands) + 1
    /\ at = "done" <=> verdict # Missing

\* What a command writes is still to come, in the pipe, or read; it ends when
\* it has written all; and a thread ends when nothing can come any more.
StreamsAreWhole ==
    Busy =>
        /\ \A s \in Output : unsaid[s] + pipe[s] + drained[s] = program[Running][s]
        /\ child = "ended" => /\ program[Running].ends # "never"
                              /\ \A s \in Output : unsaid[s] = 0
        /\ \A s \in Output : s \notin draining => pipe[s] = 0 /\ child # "runs"

\* The answers are the engines' whole output, or of a program that was stopped.
Whole(c) == [ok |-> program[c].ends = "ok", stuck |-> FALSE,
             out |-> program[c].out, err |-> program[c].err]
AnswersAreWhole ==
    \A k \in DOMAIN results : results[k].stuck \/ \E c \in Engines : results[k] = Whole(c)
EnginesAnswered ==
    ~AnyStuck =>
        \A j \in 1 .. step - 1 : Commands[j] # "build" =>
            /\ program[Commands[j]].ends # "never"
            /\ \E k \in DOMAIN results : results[k] = Whole(Commands[j])

\* Answers that agree with their neighbours agree with the first.
AgreeWithFirst ==
    Agree => \A k \in DOMAIN results : /\ results[k].ok = results[1].ok
                                       /\ Answer(results[k]) = Said

\* A pass was judged, or the snapshot written; a second round is after a pass.
Passed ==
    verdict = "pass" =>
        /\ step = Len(Commands) + 1 /\ ~AnyStuck /\ Agree
        /\ IF snapshot = Missing THEN results[1].ok /\ Said = 0 ELSE Said = snapshot
SecondRound == round = 2 => ~update /\ Settled

TestInv ==
    /\ TTypeOK /\ RunnerFollows /\ StreamsAreWhole
    /\ AnswersAreWhole /\ EnginesAnswered /\ AgreeWithFirst
    /\ Passed /\ SecondRound /\ UpdateSettles
Answered == AnswersAreWhole /\ EnginesAnswered /\ AgreeWithFirst /\ Passed /\ SecondRound /\ UpdateSettles
--------------------------------------------------------------------------------
(* Commands and answers.                                                   *)

LEMMA CommandsAre ==
    /\ DOMAIN Commands = 1 .. Len(Commands) /\ Len(Commands) \in Nat \ {0}
    /\ 1 \in 1 .. Len(Commands) + 1 /\ 1 <= Len(Commands)
<1>1. Commands \in Seq(Command) /\ Len(Commands) > 0
    BY TestAssumption
<1> HIDE DEF Command
<1> DEFINE n == Len(Commands)
<1>2. DOMAIN Commands = 1 .. n /\ n \in Nat \ {0}
    BY <1>1
<1> HIDE DEF n
<1>3. 1 \in 1 .. n + 1 /\ 1 <= n
    BY <1>2
<1> QED BY <1>2, <1>3 DEF n

LEMMA StepIs ==
    ASSUME TTypeOK
    PROVE  /\ Len(Commands) \in Nat /\ Len(Commands) >= 1
           /\ step \in Nat /\ step >= 1 /\ step <= Len(Commands) + 1
           /\ step <= Len(Commands) => step + 1 \in 1 .. Len(Commands) + 1
<1> DEFINE n == Len(Commands)
<1>1. n \in Nat \ {0}
    BY CommandsAre
<1>2. step \in 1 .. n + 1
    BY DEF TTypeOK
<1> HIDE DEF n
<1>3. /\ n \in Nat /\ n >= 1 /\ step \in Nat /\ step >= 1 /\ step <= n + 1
      /\ step <= n => step + 1 \in 1 .. n + 1
    BY <1>1, <1>2
<1> QED BY <1>3 DEF n

LEMMA OrMore == \A i, j \in Nat : /\ i <= j => i = j \/ i + 1 <= j
                                  /\ i < j => i + 1 <= j
OBVIOUS

LEMMA RunningIsOne ==
    ASSUME TTypeOK, step <= Len(Commands)
    PROVE  /\ Running \in Command /\ step \in DOMAIN Commands /\ step \in 1 .. Len(Commands)
           /\ program[Running] \in Behaviour
           /\ \A s \in Output : program[Running][s] \in Texts /\ program[Running][s] \in Nat
           /\ Output = {"out", "err"}
<1>1. step \in DOMAIN Commands /\ step \in 1 .. Len(Commands)
    <2>1. step \in 1 .. Len(Commands) + 1
        BY DEF TTypeOK
    <2> QED BY <2>1, CommandsAre
<1>2. Running \in Command
    BY <1>1, TestAssumption DEF Running
<1>3. program[Running] \in Behaviour
    BY <1>2 DEF TTypeOK
<1>4. program[Running].out \in Texts /\ program[Running].err \in Texts
    BY <1>3 DEF Behaviour
<1>5. program[Running]["out"] \in Texts /\ program[Running]["err"] \in Texts
    BY <1>4
<1> QED BY <1>1, <1>2, <1>3, <1>5, TestAssumption DEF Output

\* What only a command's running changes leaves the answers alone.
LEMMA SameAnswers ==
    ASSUME TestInv, UNCHANGED <<fixed, snapshot, round, step, results, verdict>>
    PROVE  Answered'
<1>1. Settled' = Settled /\ AnyStuck' = AnyStuck /\ Agree' = Agree
    BY DEF fixed, Settled, Proper, AnyStuck, Agree, Same
<1>2. AnswersAreWhole' /\ EnginesAnswered'
    BY <1>1 DEF TestInv, AnswersAreWhole, EnginesAnswered, Whole, fixed
<1>3. AgreeWithFirst'
    BY <1>1 DEF TestInv, AgreeWithFirst, Said
<1>4. Passed' /\ SecondRound' /\ UpdateSettles'
    BY <1>1 DEF TestInv, Passed, SecondRound, UpdateSettles, Said, fixed
<1> QED BY <1>2, <1>3, <1>4 DEF Answered

\* Every engine's answer is there after the last command.
LEMMA AllAnswered ==
    ASSUME TestInv, step = Len(Commands) + 1, ~AnyStuck
    PROVE  /\ results \in Seq(Ran) /\ 1 \in DOMAIN results
           /\ \A k \in DOMAIN results : \E c \in Engines : results[k] = Whole(c)
           /\ \A c \in Engines : /\ program[c] \in Behaviour /\ program[c].ends # "never"
                                 /\ \E k \in DOMAIN results : results[k] = Whole(c)
           /\ \E c \in Engines : TRUE
<1>1. results \in Seq(Ran)
    BY DEF TestInv, TTypeOK
<1>2. \A k \in DOMAIN results : \E c \in Engines : results[k] = Whole(c)
    BY DEF TestInv, AnswersAreWhole, AnyStuck
<1>3. ASSUME NEW c \in Engines
      PROVE  /\ program[c] \in Behaviour /\ program[c].ends # "never"
             /\ \E k \in DOMAIN results : results[k] = Whole(c)
    <2>1. program[c] \in Behaviour
        BY DEF TestInv, TTypeOK, Engines
    <2>2. PICK j \in DOMAIN Commands : c = Commands[j]
        BY DEF Engines, Command, Range
    <2>3. j \in 1 .. step - 1
        BY TestAssumption
    <2> QED BY <2>1, <2>2, <2>3 DEF Engines, TestInv, EnginesAnswered
<1>4. Commands[Len(Commands)] \in Engines
    BY TestAssumption DEF Engines
<1>5. \E k \in DOMAIN results : TRUE
    BY <1>3, <1>4
<1>6. 1 \in DOMAIN results
    BY <1>1, <1>5
<1> QED BY <1>1, <1>2, <1>3, <1>4, <1>6

\* A pass settles the file.
LEMMA PassSettles == ASSUME TestInv, verdict = "pass" PROVE Settled
<1>1. step = Len(Commands) + 1 /\ ~AnyStuck /\ Agree
      /\ IF snapshot = Missing THEN results[1].ok /\ Said = 0 ELSE Said = snapshot
    BY DEF TestInv, Passed
<1>2. ASSUME NEW c \in Engines
      PROVE  /\ program[c].ends # "never" /\ program[c].ends \in {"ok", "failure"}
             /\ (program[c].ends = "ok") = results[1].ok
             /\ Proper(c) = Said
    <2>1. PICK k \in DOMAIN results : results[k] = Whole(c)
        BY <1>1, AllAnswered
    <2>2. program[c] \in Behaviour /\ program[c].ends # "never"
        BY <1>1, AllAnswered
    <2>3. Whole(c).ok = results[1].ok /\ Answer(Whole(c)) = Said
        BY <1>1, <2>1 DEF TestInv, AgreeWithFirst
    <2>4. Whole(c).ok = (program[c].ends = "ok") /\ Answer(Whole(c)) = Proper(c)
        BY DEF Whole, Answer, Proper
    <2>5. program[c].ends \in {"ok", "failure"}
        BY <2>2 DEF Behaviour
    <2> QED BY <2>2, <2>3, <2>4, <2>5
<1> SUFFICES ASSUME NEW c \in Engines, NEW d \in Engines
             PROVE  /\ program[c].ends # "never" /\ program[c].ends = program[d].ends
                    /\ Proper(c) = (IF snapshot = Missing THEN 0 ELSE snapshot)
                    /\ snapshot = Missing => program[c].ends = "ok"
    BY DEF Settled
<1>3. program[c].ends # "never" /\ program[c].ends = program[d].ends
    BY <1>2
<1>4. Proper(c) = (IF snapshot = Missing THEN 0 ELSE snapshot)
    BY <1>1, <1>2
<1>5. snapshot = Missing => program[c].ends = "ok"
    BY <1>1, <1>2
<1> QED BY <1>3, <1>4, <1>5

\* In a settled file the answers can only be a pass, or an empty snapshot's failure.
LEMMA SettledPasses ==
    ASSUME TestInv, Settled, step = Len(Commands) + 1, ~AnyStuck, snapshot # 0
    PROVE  Judged = "pass"
<1>1. ASSUME NEW k \in DOMAIN results
      PROVE  /\ Answer(results[k]) = (IF snapshot = Missing THEN 0 ELSE snapshot)
             /\ snapshot = Missing => results[k].ok
    <2>1. PICK c \in Engines : results[k] = Whole(c)
        BY AllAnswered
    <2>2. /\ Proper(c) = (IF snapshot = Missing THEN 0 ELSE snapshot)
          /\ snapshot = Missing => program[c].ends = "ok"
        BY DEF Settled
    <2>3. Answer(Whole(c)) = Proper(c) /\ Whole(c).ok = (program[c].ends = "ok")
        BY DEF Whole, Answer, Proper
    <2> QED BY <2>1, <2>2, <2>3
<1>2. \A j, k \in DOMAIN results : results[j].ok = results[k].ok
    <2> SUFFICES ASSUME NEW j \in DOMAIN results, NEW k \in DOMAIN results
                 PROVE  results[j].ok = results[k].ok
        OBVIOUS
    <2>1. PICK c \in Engines : results[j] = Whole(c)
        BY AllAnswered
    <2>2. PICK d \in Engines : results[k] = Whole(d)
        BY AllAnswered
    <2> QED BY <2>1, <2>2 DEF Settled, Whole
<1>3. Agree
    <2>1. \A k \in 1 .. Len(results) - 1 : k \in DOMAIN results /\ k + 1 \in DOMAIN results
        BY AllAnswered
    <2> QED BY <1>1, <1>2, <2>1 DEF Agree, Same
<1>4. 1 \in DOMAIN results
    BY AllAnswered
<1> QED BY <1>1, <1>3, <1>4 DEF Judged, Said, Want

--------------------------------------------------------------------------------
(* A command runs.                                                         *)

LEMMA SpawnKeeps == ASSUME TestInv, Spawn PROVE TestInv'
<1>1. /\ at = "spawn" /\ at' = "wait" /\ child' = "runs" /\ late' = FALSE /\ helper' \in BOOLEAN
      /\ unsaid' = [s \in Output |-> program[Running][s]]
      /\ pipe' = [s \in Output |-> 0] /\ drained' = [s \in Output |-> 0] /\ draining' = Output
      /\ UNCHANGED <<fixed, snapshot, round, step, results, verdict>>
    BY DEF Spawn
<1>2. step <= Len(Commands)
    BY <1>1 DEF TestInv, RunnerFollows
<1>3. \A s \in Output : program[Running][s] \in Nat
    BY <1>2, RunningIsOne DEF TestInv
<1>4. TTypeOK'
    <2>1. /\ unsaid' \in [Output -> Nat] /\ drained' \in [Output -> Nat]
          /\ pipe' \in [Output -> 0 .. PipeSize] /\ draining' \subseteq Output
        BY <1>1, <1>3, TestAssumption
    <2>2. /\ program' \in [Command -> Behaviour] /\ snapshot' \in Texts \union {Missing}
          /\ {update', helper', late'} \subseteq BOOLEAN /\ round' \in {1, 2}
          /\ step' \in 1 .. Len(Commands) + 1 /\ results' \in Seq(Ran)
          /\ \A k \in DOMAIN results' : results'[k].ok => ~results'[k].stuck
          /\ verdict' \in {"pass", "fail", Missing}
        BY <1>1 DEF TestInv, TTypeOK, fixed
    <2> QED BY <1>1, <2>1, <2>2 DEF TTypeOK
<1>5. RunnerFollows'
    BY <1>1, <1>2 DEF TestInv, RunnerFollows, Busy
<1>6. StreamsAreWhole'
    BY <1>1, <1>3 DEF StreamsAreWhole, Running, fixed
<1>7. Answered'
    BY <1>1, SameAnswers
<1> QED BY <1>4, <1>5, <1>6, <1>7 DEF TestInv, Answered

\* A child that writes, and a thread that reads, move one stream along.
LEMMA StreamKeeps ==
    ASSUME TestInv, NEW s \in Output, ChildWrites(s) \/ Drain(s)
    PROVE  TestInv'
<1>1. UNCHANGED <<fixed, snapshot, round, at, step, results, child, helper, draining, late, verdict>>
    BY DEF ChildWrites, Drain
<1>2. /\ unsaid \in [Output -> Nat] /\ pipe \in [Output -> 0 .. PipeSize] /\ drained \in [Output -> Nat]
      /\ PipeSize \in Nat
    BY TestAssumption DEF TestInv, TTypeOK
<1>3. /\ unsaid' \in [Output -> Nat] /\ pipe' \in [Output -> 0 .. PipeSize] /\ drained' \in [Output -> Nat]
      /\ \A o \in Output : unsaid'[o] + pipe'[o] + drained'[o] = unsaid[o] + pipe[o] + drained[o]
      /\ child = "ended" => unsaid' = unsaid
      /\ \A o \in Output : child # "runs" /\ pipe[o] = 0 => pipe'[o] = 0
    <2>1. CASE ChildWrites(s)
        <3>1. /\ child = "runs" /\ unsaid[s] > 0 /\ pipe[s] < PipeSize
              /\ unsaid' = [unsaid EXCEPT ![s] = @ - 1] /\ pipe' = [pipe EXCEPT ![s] = @ + 1]
              /\ drained' = drained
            BY <2>1 DEF ChildWrites
        <3> QED BY <1>2, <3>1
    <2>2. CASE Drain(s)
        <3>1. /\ drained' = [drained EXCEPT ![s] = @ + pipe[s]] /\ pipe' = [pipe EXCEPT ![s] = 0]
              /\ unsaid' = unsaid
            BY <2>2 DEF Drain
        <3> QED BY <1>2, <3>1
    <2> QED BY <2>1, <2>2
<1>4. TTypeOK'
    BY <1>1, <1>3 DEF TestInv, TTypeOK, fixed
<1>5. RunnerFollows'
    BY <1>1 DEF TestInv, RunnerFollows, Busy
<1>6. StreamsAreWhole'
    BY <1>1, <1>3 DEF TestInv, StreamsAreWhole, Busy, Running, fixed
<1>7. Answered'
    BY <1>1, SameAnswers
<1> QED BY <1>4, <1>5, <1>6, <1>7 DEF TestInv, Answered

LEMMA ChildEndsKeeps == ASSUME TestInv, ChildEnds PROVE TestInv'
<1>1. /\ child = "runs" /\ program[Running].ends # "never" /\ \A s \in Output : unsaid[s] = 0
      /\ child' = "ended"
      /\ UNCHANGED <<fixed, snapshot, round, at, step, results, helper, streams, late, verdict>>
    BY DEF ChildEnds
<1>2. TTypeOK'
    BY <1>1 DEF TestInv, TTypeOK, fixed, streams
<1>3. RunnerFollows'
    BY <1>1 DEF TestInv, RunnerFollows, Busy
<1>4. StreamsAreWhole'
    BY <1>1 DEF TestInv, StreamsAreWhole, Busy, Running, fixed, streams
<1>5. Answered'
    BY <1>1, SameAnswers
<1> QED BY <1>2, <1>3, <1>4, <1>5 DEF TestInv, Answered

LEMMA TimeKeeps == ASSUME TestInv, HelperEnds \/ Clock PROVE TestInv'
<1>1. /\ UNCHANGED <<fixed, snapshot, round, at, step, results, child, streams, verdict>>
      /\ {helper', late'} \subseteq BOOLEAN
    BY DEF HelperEnds, Clock, TestInv, TTypeOK
<1>2. TTypeOK'
    BY <1>1 DEF TestInv, TTypeOK, fixed, streams
<1>3. RunnerFollows' /\ StreamsAreWhole'
    BY <1>1 DEF TestInv, RunnerFollows, StreamsAreWhole, Busy, Running, fixed, streams
<1>4. Answered'
    BY <1>1, SameAnswers
<1> QED BY <1>2, <1>3, <1>4 DEF TestInv, Answered

\* A thread ends when the child is gone and the pipe is empty.
LEMMA DrainEndsKeeps == ASSUME TestInv, NEW s \in Output, DrainEnds(s) PROVE TestInv'
<1>1. /\ pipe[s] = 0 /\ child # "runs" /\ draining' = draining \ {s}
      /\ UNCHANGED <<fixed, snapshot, round, at, step, results, child, helper, unsaid, pipe, drained, late, verdict>>
    BY DEF DrainEnds, StreamEnds
<1>2. TTypeOK'
    BY <1>1 DEF TestInv, TTypeOK, fixed
<1>3. RunnerFollows'
    BY <1>1 DEF TestInv, RunnerFollows, Busy
<1>4. StreamsAreWhole'
    BY <1>1 DEF TestInv, StreamsAreWhole, Busy, Running, fixed
<1>5. Answered'
    BY <1>1, SameAnswers
<1> QED BY <1>2, <1>3, <1>4, <1>5 DEF TestInv, Answered

LEMMA WaitingKeeps == ASSUME TestInv, WaitReturns \/ WaitExpires \/ Kill PROVE TestInv'
<1>1. /\ at \in {"wait", "kill"} /\ at' \in {"kill", "join", "join stuck"}
      /\ child' \in {"runs", "ended", "killed"}
      /\ at' = "kill" => child' = "runs"
      /\ at' = "join" => child' = "ended"
      /\ at' = "join stuck" => child' \in {"ended", "killed"}
      /\ child' = "ended" => child = "ended"
      /\ child' = "runs" => child = "runs"
      /\ UNCHANGED <<fixed, snapshot, round, step, results, helper, streams, late, verdict>>
    BY DEF TestInv, RunnerFollows, WaitReturns, WaitExpires, Kill, process
<1>2. TTypeOK'
    BY <1>1 DEF TestInv, TTypeOK, fixed, streams
<1>3. RunnerFollows'
    BY <1>1 DEF TestInv, RunnerFollows, Busy
<1>4. StreamsAreWhole'
    BY <1>1 DEF TestInv, StreamsAreWhole, Busy, Running, fixed, streams
<1>5. Answered'
    BY <1>1, SameAnswers
<1> QED BY <1>2, <1>3, <1>4, <1>5 DEF TestInv, Answered

--------------------------------------------------------------------------------
(* The answers.                                                            *)

\* What was joined at its end wrote what was read, and what was not is stuck.
TheRan == [ok |-> ~(at = "join stuck") /\ program[Running].ends = "ok", stuck |-> at = "join stuck",
           out |-> drained["out"], err |-> drained["err"]]

LEMMA JoinedIsWhole ==
    ASSUME TestInv, Join
    PROVE  /\ step <= Len(Commands) /\ TheRan \in Ran /\ (TheRan.ok => ~TheRan.stuck)
           /\ ~TheRan.stuck => TheRan = Whole(Running) /\ program[Running].ends # "never"
<1>1. Busy /\ draining = {} /\ at \in {"join", "join stuck"}
    BY DEF Join, Joined, Busy
<1>2. step <= Len(Commands)
    BY <1>1 DEF TestInv, RunnerFollows
<1>3. drained["out"] \in Nat /\ drained["err"] \in Nat
    BY DEF TestInv, TTypeOK, Output
<1>4. TheRan \in Ran /\ (TheRan.ok => ~TheRan.stuck)
    BY <1>3 DEF TheRan, Ran
<1>5. ASSUME ~TheRan.stuck
      PROVE  TheRan = Whole(Running) /\ program[Running].ends # "never"
    <2>1. at = "join"
        BY <1>1, <1>5 DEF TheRan
    <2>2. child = "ended"
        BY <2>1 DEF TestInv, RunnerFollows
    <2>3. /\ program[Running].ends # "never"
          /\ \A s \in Output : unsaid[s] = 0 /\ pipe[s] = 0
          /\ \A s \in Output : unsaid[s] + pipe[s] + drained[s] = program[Running][s]
        BY <1>1, <2>2 DEF TestInv, StreamsAreWhole
    <2>4. drained \in [Output -> Nat] /\ program[Running] \in Behaviour
        BY <1>2, RunningIsOne DEF TestInv, TTypeOK
    <2>5. \A s \in Output : drained[s] = program[Running][s]
        BY <2>3, <2>4
    <2>6. drained["out"] = program[Running].out /\ drained["err"] = program[Running].err
        BY <2>4, <2>5 DEF Output, Behaviour
    <2> QED BY <2>1, <2>3, <2>6 DEF TheRan, Whole
<1> QED BY <1>2, <1>4, <1>5

\* One more answer, or none of a build.
LEMMA JoinAnswers ==
    ASSUME TestInv, Join
    PROVE  AnswersAreWhole' /\ EnginesAnswered' /\ AgreeWithFirst'
           /\ results' \in Seq(Ran) /\ \A k \in DOMAIN results' : results'[k].ok => ~results'[k].stuck
<1> DEFINE n == Len(results)
<1>1. /\ step <= Len(Commands) /\ TheRan \in Ran /\ (TheRan.ok => ~TheRan.stuck)
      /\ ~TheRan.stuck => TheRan = Whole(Running) /\ program[Running].ends # "never"
    BY JoinedIsWhole
<1>2. /\ results' = (IF Running = "build" THEN results ELSE Append(results, TheRan))
      /\ step' = step + 1 /\ program' = program
    BY DEF Join, TheRan, fixed
<1>3. results \in Seq(Ran) /\ n \in Nat /\ DOMAIN results = 1 .. n /\ step \in Nat
      /\ \A k \in DOMAIN results : results[k].ok => ~results[k].stuck
    <2>1. results \in Seq(Ran) /\ \A k \in DOMAIN results : results[k].ok => ~results[k].stuck
        BY DEF TestInv, TTypeOK
    <2> QED BY <2>1, StepIs DEF TestInv
<1>4. Running \in Command /\ Commands[step] = Running /\ \A c : Whole(c)' = Whole(c)
    BY <1>1, <1>2, RunningIsOne DEF TestInv, Running, Whole
<1>5. CASE Running = "build"
    <2>1. results' = results
        BY <1>2, <1>5
    <2>2. AnswersAreWhole'
        BY <1>4, <2>1 DEF TestInv, AnswersAreWhole
    <2>3. AgreeWithFirst'
        BY <2>1 DEF TestInv, AgreeWithFirst, Agree, Same, Said
    <2>4. EnginesAnswered'
        <3>0. step' - 1 = step
            BY <1>2, <1>3
        <3>2. AnyStuck' = AnyStuck
            BY <2>1 DEF AnyStuck
        <3> SUFFICES ASSUME ~AnyStuck, NEW j \in 1 .. step, Commands[j] # "build"
                     PROVE  /\ program[Commands[j]].ends # "never"
                            /\ \E k \in DOMAIN results : results[k] = Whole(Commands[j])
            BY <1>2, <1>4, <2>1, <3>0, <3>2 DEF EnginesAnswered
        <3>1. j \in 1 .. step - 1
            BY <1>3, <1>4, <1>5
        <3> QED BY <3>1 DEF TestInv, EnginesAnswered
    <2> QED BY <1>3, <2>1, <2>2, <2>3, <2>4
<1>6. CASE Running # "build"
    <2>1. /\ results' = Append(results, TheRan) /\ results' \in Seq(Ran)
          /\ DOMAIN results' = 1 .. n + 1 /\ Len(results') = n + 1
          /\ results'[n + 1] = TheRan /\ \A k \in 1 .. n : results'[k] = results[k]
        BY <1>1, <1>2, <1>3, <1>6
    <2>2. \A k \in 1 .. n + 1 : k \in 1 .. n \/ k = n + 1
        BY <1>3
    <2>3. n + 1 \in 1 .. n + 1 /\ \A k \in 1 .. n : k \in 1 .. n + 1
        BY <1>3
    <2>4. Running \in Engines
        BY <1>4, <1>6 DEF Engines
    <2>5. \A k \in DOMAIN results' : results'[k].ok => ~results'[k].stuck
        BY <1>1, <1>3, <2>1, <2>2
    <2>6. AnswersAreWhole'
        <3> SUFFICES ASSUME NEW k \in 1 .. n + 1
                     PROVE  results'[k].stuck \/ \E c \in Engines : results'[k] = Whole(c)
            BY <1>4, <2>1 DEF AnswersAreWhole
        <3>1. CASE k \in 1 .. n
            BY <1>3, <2>1, <3>1 DEF TestInv, AnswersAreWhole
        <3>2. CASE k = n + 1
            BY <1>1, <2>1, <2>4, <3>2
        <3> QED BY <2>2, <3>1, <3>2
    <2>7. EnginesAnswered'
        <3> SUFFICES ASSUME ~AnyStuck', NEW j \in 1 .. step, Commands[j] # "build"
                     PROVE  /\ program[Commands[j]].ends # "never"
                            /\ \E k \in DOMAIN results' : results'[k] = Whole(Commands[j])
            BY <1>2, <1>3, <1>4 DEF EnginesAnswered
        <3>1. ~AnyStuck /\ ~TheRan.stuck
            BY <1>3, <2>1, <2>3 DEF AnyStuck
        <3>2. CASE j \in 1 .. step - 1
            <4>1. /\ program[Commands[j]].ends # "never"
                  /\ \E k \in 1 .. n : results[k] = Whole(Commands[j])
                BY <1>3, <3>1, <3>2 DEF TestInv, EnginesAnswered
            <4> QED BY <2>1, <2>3, <4>1
        <3>3. CASE j = step
            BY <1>1, <1>4, <2>1, <2>3, <3>1, <3>3
        <3> QED BY <1>3, <3>2, <3>3
    <2>8. AgreeWithFirst'
        <3> SUFFICES ASSUME Agree', NEW k \in 1 .. n + 1
                     PROVE  /\ results'[k].ok = results'[1].ok
                            /\ Answer(results'[k]) = Answer(results'[1])
            BY <2>1 DEF AgreeWithFirst, Said, Answer
        <3>1. CASE n = 0
            BY <1>3, <3>1
        <3>2. CASE n # 0
            <4>1. 1 \in 1 .. n /\ n \in 1 .. n /\ \A i \in 1 .. n - 1 : i \in 1 .. n /\ i + 1 \in 1 .. n
                BY <1>3, <3>2
            <4>2. \A i \in 1 .. n : /\ results'[i].ok = results'[i + 1].ok
                                    /\ Answer(results'[i]) = Answer(results'[i + 1])
                BY <1>3, <2>1 DEF Agree, Same, Answer
            <4>3. Agree
                BY <2>1, <4>1, <4>2 DEF Agree, Same
            <4>4. \A i \in 1 .. n : results[i].ok = results[1].ok /\ Answer(results[i]) = Answer(results[1])
                BY <1>3, <4>3 DEF TestInv, AgreeWithFirst, Said
            <4>5. CASE k \in 1 .. n
                BY <2>1, <4>1, <4>4, <4>5
            <4>6. CASE k = n + 1
                BY <2>1, <4>1, <4>2, <4>4, <4>6
            <4> QED BY <2>2, <4>5, <4>6
        <3> QED BY <3>1, <3>2
    <2> QED BY <2>1, <2>5, <2>6, <2>7, <2>8
<1> QED BY <1>5, <1>6

LEMMA JoinKeeps == ASSUME TestInv, Join PROVE TestInv'
<1>1. /\ at \in {"join", "join stuck"} /\ draining = {}
      /\ step' = step + 1 /\ child' = "none"
      /\ UNCHANGED <<fixed, snapshot, round, helper, streams, late>>
    BY DEF Join, Joined
<1>2. \/ Running = "build" /\ verdict' = "fail" /\ at' = "done"
      \/ verdict' = verdict /\ at' = IF step = Len(Commands) THEN "judge" ELSE "spawn"
    BY DEF Join
<1>3. verdict = Missing /\ step <= Len(Commands) /\ step \in Nat /\ step >= 1 /\ Len(Commands) \in Nat
    <2>1. verdict = Missing
        BY <1>1 DEF TestInv, RunnerFollows
    <2> QED BY <2>1, StepIs, JoinedIsWhole DEF TestInv
<1>4. Running = "build" => step < Len(Commands)
    BY <1>3, TestAssumption DEF Running
<1>5. step' \in 1 .. Len(Commands) + 1
    BY <1>1, <1>3, StepIs DEF TestInv
<1>6. Missing # "pass" /\ Missing # "fail"
    BY TestAssumption
<1>7. TTypeOK'
    BY <1>1, <1>2, <1>3, <1>5, JoinAnswers DEF TestInv, TTypeOK, fixed, streams
<1>8. RunnerFollows'
    <2>1. CASE Running = "build" /\ verdict' = "fail" /\ at' = "done"
        BY <1>6, <2>1 DEF RunnerFollows, Busy
    <2>2. CASE verdict' = verdict /\ at' = IF step = Len(Commands) THEN "judge" ELSE "spawn"
        <3>1. (at' = "judge" /\ step' = Len(Commands) + 1) \/ (at' = "spawn" /\ step' <= Len(Commands))
            <4>1. step = Len(Commands) \/ step + 1 <= Len(Commands)
                BY <1>3, OrMore
            <4> QED BY <1>1, <2>2, <1>3, <4>1
        <3> QED BY <1>3, <2>2, <3>1 DEF RunnerFollows, Busy
    <2> QED BY <1>2, <2>1, <2>2
<1>9. StreamsAreWhole'
    BY <1>2 DEF StreamsAreWhole, Busy
<1>10. Passed' /\ UpdateSettles'
    <2>1. verdict' # "pass" /\ (verdict' = "fail" => Running = "build")
        BY <1>2, <1>3, <1>6
    <2>2. verdict' = "fail" => step' <= Len(Commands)
        <3>1. verdict' = "fail" => step + 1 <= Len(Commands)
            BY <1>3, <1>4, <2>1, OrMore
        <3> QED BY <1>1, <3>1
    <2> QED BY <2>1, <2>2 DEF Passed, UpdateSettles
<1>11. SecondRound'
    BY <1>1 DEF TestInv, SecondRound, Settled, Proper, fixed
<1> QED BY <1>7, <1>8, <1>9, <1>10, <1>11, JoinAnswers DEF TestInv
--------------------------------------------------------------------------------
(* The verdict.                                                            *)

\* A judgement other than a failure is of whole answers that agree.
LEMMA JudgedOn ==
    ASSUME TestInv, at = "judge", Judged # "fail"
    PROVE  /\ step = Len(Commands) + 1 /\ ~AnyStuck /\ Agree
           /\ Said \in Texts
           /\ Judged = "pass" => IF snapshot = Missing THEN results[1].ok /\ Said = 0 ELSE Said = snapshot
<1>1. step = Len(Commands) + 1
    BY DEF TestInv, RunnerFollows
<1>2. ~AnyStuck /\ Agree
    BY DEF Judged
<1>3. PICK c \in Engines : results[1] = Whole(c)
    BY <1>1, <1>2, AllAnswered
<1>4. program[c].out \in Texts /\ program[c].err \in Texts
    BY <1>1, <1>2, AllAnswered DEF Behaviour
<1>5. Said \in Texts
    BY <1>3, <1>4 DEF Said, Answer, Whole
<1>6. Judged = "pass" => IF snapshot = Missing THEN results[1].ok /\ Said = 0 ELSE Said = snapshot
    BY <1>2 DEF Judged, Want
<1> QED BY <1>1, <1>2, <1>5, <1>6

LEMMA JudgeKeeps == ASSUME TestInv, Judge PROVE TestInv'
<1>1. /\ at = "judge" /\ at' = "done" /\ verdict' = IF Judged = "pass" THEN "pass" ELSE "fail"
      /\ UNCHANGED <<fixed, snapshot, round, step, results, process>>
    BY DEF Judge
<1>2. Missing # "pass" /\ Missing # "fail"
    BY TestAssumption
<1>3. Settled' = Settled /\ AnyStuck' = AnyStuck /\ Agree' = Agree /\ Said' = Said
    BY <1>1 DEF fixed, Settled, Proper, AnyStuck, Agree, Same, Said
<1>4. TTypeOK'
    BY <1>1 DEF TestInv, TTypeOK, fixed, process, streams
<1>5. RunnerFollows' /\ StreamsAreWhole'
    BY <1>1, <1>2 DEF RunnerFollows, StreamsAreWhole, Busy
<1>6. AnswersAreWhole' /\ EnginesAnswered' /\ AgreeWithFirst'
    BY <1>1, <1>3 DEF TestInv, AnswersAreWhole, EnginesAnswered, AgreeWithFirst, Whole, fixed
<1>7. Passed'
    BY <1>1, <1>3, JudgedOn DEF Passed
<1>8. SecondRound'
    BY <1>1, <1>3 DEF TestInv, SecondRound, fixed
<1>9. UpdateSettles'
    <2> SUFFICES ASSUME round = 2, ~AnyStuck, snapshot # 0
                 PROVE  Judged = "pass"
        BY <1>1, <1>3 DEF UpdateSettles
    <2>1. Settled /\ step = Len(Commands) + 1
        BY <1>1 DEF TestInv, SecondRound, RunnerFollows
    <2> QED BY <2>1, SettledPasses
<1> QED BY <1>4, <1>5, <1>6, <1>7, <1>8, <1>9 DEF TestInv

LEMMA WriteKeeps == ASSUME TestInv, WriteSnapshot PROVE TestInv'
<1>1. /\ at = "judge" /\ Judged = "write" /\ update /\ snapshot' = Said /\ verdict' = "pass" /\ at' = "done"
      /\ UNCHANGED <<fixed, round, step, results, process>>
    BY DEF WriteSnapshot
<1>2. /\ step = Len(Commands) + 1 /\ ~AnyStuck /\ Agree /\ Said \in Texts
    BY <1>1, JudgedOn
<1>3. Missing # "pass" /\ Missing \notin Texts
    BY TestAssumption
<1>4. AnyStuck' = AnyStuck /\ Agree' = Agree /\ Said' = Said
    BY <1>1 DEF AnyStuck, Agree, Same, Said
<1>5. TTypeOK'
    BY <1>1, <1>2 DEF TestInv, TTypeOK, fixed, process, streams
<1>6. RunnerFollows' /\ StreamsAreWhole'
    BY <1>1, <1>3 DEF RunnerFollows, StreamsAreWhole, Busy
<1>7. AnswersAreWhole' /\ EnginesAnswered' /\ AgreeWithFirst'
    BY <1>1, <1>4 DEF TestInv, AnswersAreWhole, EnginesAnswered, AgreeWithFirst, Whole, fixed
<1>8. Passed'
    BY <1>1, <1>2, <1>3, <1>4 DEF Passed
<1>9. SecondRound' /\ UpdateSettles'
    BY <1>1 DEF TestInv, SecondRound, UpdateSettles, fixed
<1> QED BY <1>5, <1>6, <1>7, <1>8, <1>9 DEF TestInv

\* The second round is of a settled file.
LEMMA AgainKeeps == ASSUME TestInv, Again PROVE TestInv'
<1>1. /\ at = "done" /\ verdict = "pass" /\ round' = 2 /\ update' = FALSE
      /\ at' = "spawn" /\ step' = 1 /\ results' = <<>> /\ verdict' = Missing
      /\ UNCHANGED <<program, snapshot, process>>
    BY DEF Again, Wrote
<1>2. Missing # "pass" /\ Missing # "fail"
    BY TestAssumption
<1>3. TTypeOK'
    <2>1. results' \in Seq(Ran) /\ \A k \in DOMAIN results' : results'[k].ok => ~results'[k].stuck
        BY <1>1
    <2>2. /\ program' \in [Command -> Behaviour] /\ snapshot' \in Texts \union {Missing}
          /\ {update', helper', late'} \subseteq BOOLEAN /\ round' \in {1, 2}
          /\ unsaid' \in [Output -> Nat] /\ pipe' \in [Output -> 0 .. PipeSize]
          /\ drained' \in [Output -> Nat] /\ draining' = {} /\ child' = "none"
        BY <1>1 DEF TestInv, TTypeOK, process, streams
    <2> QED BY <1>1, <2>1, <2>2, CommandsAre DEF TTypeOK
<1>4. RunnerFollows' /\ StreamsAreWhole'
    BY <1>1, CommandsAre DEF RunnerFollows, StreamsAreWhole, Busy
<1>5. AnswersAreWhole' /\ EnginesAnswered' /\ AgreeWithFirst'
    BY <1>1 DEF AnswersAreWhole, EnginesAnswered, AgreeWithFirst
<1>6. Settled'
    BY <1>1, PassSettles DEF Settled, Proper
<1>7. Passed' /\ SecondRound' /\ UpdateSettles'
    BY <1>1, <1>2, <1>6 DEF Passed, SecondRound, UpdateSettles
<1> QED BY <1>3, <1>4, <1>5, <1>7 DEF TestInv
--------------------------------------------------------------------------------
LEMMA TestBegins == TInit => TestInv
<1> SUFFICES ASSUME TInit PROVE TestInv
    OBVIOUS
<1>1. Missing # "pass" /\ Missing # "fail"
    BY TestAssumption
<1>2. program \in [Command -> Behaviour]
    <2>1. DOMAIN program = Command /\ program = [c \in Command |-> program[c]]
        BY DEF TInit
    <2>2. \A c \in Command : program[c] \in Behaviour
        BY TestAssumption DEF TInit
    <2> QED BY <2>1, <2>2
<1>3. TTypeOK
    <2>1. results \in Seq(Ran) /\ \A k \in DOMAIN results : results[k].ok => ~results[k].stuck
        BY DEF TInit
    <2>2. /\ unsaid \in [Output -> Nat] /\ pipe \in [Output -> 0 .. PipeSize]
          /\ drained \in [Output -> Nat]
        BY TestAssumption DEF TInit
    <2>3. step \in 1 .. Len(Commands) + 1
        BY CommandsAre DEF TInit
    <2> QED BY <1>2, <2>1, <2>2, <2>3 DEF TInit, TTypeOK
<1>4. RunnerFollows /\ StreamsAreWhole
    BY CommandsAre DEF TInit, RunnerFollows, StreamsAreWhole, Busy
<1>5. AnswersAreWhole /\ EnginesAnswered /\ AgreeWithFirst
    BY DEF TInit, AnswersAreWhole, EnginesAnswered, AgreeWithFirst
<1>6. Passed /\ SecondRound /\ UpdateSettles
    BY <1>1 DEF TInit, Passed, SecondRound, UpdateSettles
<1> QED BY <1>3, <1>4, <1>5, <1>6 DEF TestInv

LEMMA TestKeeps == ASSUME TestInv, [TNext]_testVars PROVE TestInv'
<1>1. CASE testVars' = testVars
    <2>1. Answered'
        BY <1>1, SameAnswers DEF testVars
    <2>2. TTypeOK'
        BY <1>1 DEF testVars, fixed, process, streams, TestInv, TTypeOK
    <2>3. RunnerFollows' /\ StreamsAreWhole'
        BY <1>1 DEF testVars, fixed, process, streams, TestInv, RunnerFollows, StreamsAreWhole, Busy, Running
    <2> QED BY <2>1, <2>2, <2>3 DEF TestInv, Answered
<1>2. CASE TNext
    BY <1>2, SpawnKeeps, StreamKeeps, ChildEndsKeeps, TimeKeeps, DrainEndsKeeps, WaitingKeeps, JoinKeeps,
       JudgeKeeps, WriteKeeps, AgainKeeps DEF TNext, RunnerStep, ChildStep
<1> QED BY <1>1, <1>2

\* `keal test` (src/src/testrun.rs): a pass is of engines that all end, in the
\* same way and with the same whole answer, which is the snapshot's, however the
\* child, the reading threads and the deadline interleaved; and what --update
\* wrote down passes the next time.
THEOREM VerdictsAreAlwaysTrue == TSpec => []VerdictsAreTrue
<1>1. TInit => TestInv
    BY TestBegins
<1>2. TestInv /\ [TNext]_testVars => TestInv'
    BY TestKeeps
<1>3. TestInv => VerdictsAreTrue
    BY PassSettles DEF TestInv, VerdictsAreTrue, PassMeansAgreed
<1> QED BY <1>1, <1>2, <1>3, PTL DEF TSpec

\* No pipe holds more than it can, an answer that is not an end is not a success,
\* and no child and no reading thread outlives its command.
THEOREM TestTypes == TSpec => []TTypeOK
<1>1. TInit => TestInv
    BY TestBegins
<1>2. TestInv /\ [TNext]_testVars => TestInv'
    BY TestKeeps
<1>3. TestInv => TTypeOK
    BY DEF TestInv
<1> QED BY <1>1, <1>2, <1>3, PTL DEF TSpec
================================================================================
