---------------------------- MODULE ActorPartsProofs ----------------------------
(***************************************************************************)
(* Proofs about the actor system's two smaller parts.                      *)
(*                                                                         *)
(* The interpreters' run loop is a schedule of the actor model, for any    *)
(* number of actors, messages, sends and runs.  What has to be known of it *)
(* beside the types is what a pass that delivered nothing tells: the       *)
(* mailboxes it has been over are empty, for nobody was there to send.     *)
(*                                                                         *)
(* Outbox<T> hands out copies of what was posted, for any threads that     *)
(* post, drain and write to what they hold, with or without --audit.  What *)
(* has to be known is every place an object can be in.                     *)
(***************************************************************************)
EXTENDS ActorRoundRobin, ActorOutbox, SequenceTheorems, TLAPS

(* The run loop: the invariant, in parts.                                  *)

\* The handler at work has a message in its hands.
InHand == pc \in {"handler", "unwound"} => msg \in Msg

\* A pass without a delivery leaves the mailboxes it has been over empty.
PassedOver ==
    ~progress => /\ pc = "deliver" => \A a \in 0 .. i - 1 : mailbox[a] = << >>
                 /\ pc = "pass" => \A a \in Spawned : mailbox[a] = << >>

\* Actors that are not there yet have no mail.
OnlySpawnedHaveMail == \A a \in Actor : a \notin Spawned => mailbox[a] = << >>

RInv == TypeOK /\ InHand /\ PassedOver /\ OnlySpawnedHaveMail

-------------------------------------------------------------------------------
LEMMA InitRInv == Init => RInv
  BY BoundsAssumption DEF Init, RInv, TypeOK, InHand, PassedOver, OnlySpawnedHaveMail, Pcs

\* A message sent is one of the mailbox it was sent to, and of no other.
LEMMA SendKeepsMail ==
    ASSUME RInv, NEW a \in Spawned, NEW m \in Msg, Send(a, m)
    PROVE  /\ a \in Actor
           /\ mailbox' \in [Actor -> Seq(Msg)]
           /\ \A b \in Actor : b # a => mailbox'[b] = mailbox[b]
  <1>1. a \in Actor
    BY BoundsAssumption DEF RInv, TypeOK, Spawned, Actor
  <1> QED
    BY <1>1 DEF RInv, TypeOK, Send

LEMMA SendsKeep ==
    ASSUME RInv, NEW a \in Spawned, NEW m \in Msg, MainSend(a, m) \/ HandlerSend(a, m)
    PROVE  RInv'
  <1>1. Send(a, m)
    BY DEF MainSend, HandlerSend
  <1>2. TypeOK'
    BY <1>1, SendKeepsMail DEF RInv, TypeOK, MainSend, HandlerSend
  <1>3. InHand' /\ PassedOver'
    BY DEF RInv, InHand, PassedOver, MainSend, HandlerSend
  <1>4. OnlySpawnedHaveMail'
    BY <1>1, SendKeepsMail DEF RInv, OnlySpawnedHaveMail, Spawned, MainSend, HandlerSend
  <1> QED
    BY <1>2, <1>3, <1>4 DEF RInv

\* The oldest message goes to its handler, and leaves the mailbox.
LEMMA DeliverKeeps == RInv /\ Deliver => RInv'
  <1> SUFFICES ASSUME RInv, Deliver PROVE RInv'
    OBVIOUS
  <1>1. i \in Spawned /\ i \in Actor
    BY BoundsAssumption DEF RInv, TypeOK, Deliver, Spawned, Actor
  <1>2. Head(mailbox[i]) \in Msg /\ Tail(mailbox[i]) \in Seq(Msg)
    BY <1>1 DEF RInv, TypeOK, Deliver
  <1>3. TypeOK'
    BY <1>1, <1>2, BoundsAssumption DEF RInv, TypeOK, Deliver, Pcs
  <1>4. InHand' /\ PassedOver'
    BY <1>2 DEF InHand, PassedOver, Deliver
  <1>5. OnlySpawnedHaveMail'
    BY <1>1 DEF RInv, TypeOK, OnlySpawnedHaveMail, Spawned, Deliver
  <1> QED
    BY <1>3, <1>4, <1>5 DEF RInv

\* One mailbox more is empty, or the pass is over.
LEMMA PassKeeps == RInv /\ (StartPass \/ SkipEmpty \/ EndPass) => RInv'
  <1> SUFFICES ASSUME RInv, StartPass \/ SkipEmpty \/ EndPass PROVE RInv'
    OBVIOUS
  <1>1. TypeOK'
    <2>1. i' \in Nat /\ i' <= n' /\ n' \in 0 .. MaxActors
      BY BoundsAssumption DEF RInv, TypeOK, StartPass, SkipEmpty, EndPass
    <2>2. pc' \in Pcs \ {"handler", "unwound"}
      BY DEF StartPass, SkipEmpty, EndPass, Pcs
    <2> QED
      BY <2>1, <2>2 DEF RInv, TypeOK, StartPass, SkipEmpty, EndPass
  <1>4. InHand'
    BY DEF InHand, StartPass, SkipEmpty, EndPass
  <1>2. PassedOver'
    <2>1. CASE StartPass
      BY <2>1 DEF PassedOver, StartPass
    <2>2. CASE EndPass
      BY <2>2 DEF RInv, PassedOver, EndPass, Spawned
    <2>3. ASSUME SkipEmpty, ~progress PROVE \A a \in 0 .. i' - 1 : mailbox'[a] = << >>
      <3>1. \A a \in 0 .. i - 1 : mailbox[a] = << >>
        BY <2>3 DEF RInv, PassedOver, SkipEmpty
      <3>2. i \in Nat /\ i' = i + 1 /\ mailbox[i] = << >> /\ mailbox' = mailbox
        BY <2>3 DEF RInv, TypeOK, SkipEmpty
      <3> QED
        BY <3>1, <3>2
    <2>4. CASE SkipEmpty
      BY <2>3, <2>4 DEF PassedOver, SkipEmpty
    <2> QED
      BY <2>1, <2>2, <2>4
  <1>3. OnlySpawnedHaveMail'
    BY DEF RInv, OnlySpawnedHaveMail, Spawned, StartPass, SkipEmpty, EndPass
  <1> QED
    BY <1>1, <1>2, <1>3, <1>4 DEF RInv

LEMMA HandlerKeeps ==
    RInv /\ (HandlerReturns \/ HandlerPanics \/ LeaveHandler \/ RunThrows) => RInv'
  <1> SUFFICES ASSUME RInv, HandlerReturns \/ HandlerPanics \/ LeaveHandler \/ RunThrows
               PROVE  RInv'
    OBVIOUS
  <1> USE DEF HandlerReturns, NoteProgress, NextActor, HandlerPanics, LeaveHandler, RunThrows
  <1>1. TypeOK'
    <2>1. i' \in Nat /\ i' <= n' /\ n' \in 0 .. MaxActors
      BY BoundsAssumption DEF RInv, TypeOK
    <2>2. pc' \in Pcs /\ (pc' \in {"handler", "unwound"} => i' < n')
      BY DEF RInv, TypeOK, Pcs
    <2> QED
      BY <2>1, <2>2 DEF RInv, TypeOK
  <1>2. InHand' /\ PassedOver'
    BY DEF RInv, InHand, PassedOver
  <1>3. OnlySpawnedHaveMail'
    BY DEF RInv, OnlySpawnedHaveMail, Spawned
  <1> QED
    BY <1>1, <1>2, <1>3 DEF RInv

LEMMA ProgramKeeps == RInv /\ (Spawn \/ CallRun \/ RunReturns) => RInv'
  <1> SUFFICES ASSUME RInv, Spawn \/ CallRun \/ RunReturns PROVE RInv'
    OBVIOUS
  <1>1. TypeOK'
    <2>1. CASE Spawn
      <3>1. n' \in 0 .. MaxActors /\ i <= n' /\ pc' = "out"
        BY <2>1, BoundsAssumption DEF RInv, TypeOK, Spawn
      <3> QED
        BY <2>1, <3>1 DEF RInv, TypeOK, Spawn
    <2>2. CASE CallRun \/ RunReturns
      <3>1. pc' \in Pcs \ {"handler", "unwound"} /\ runs' \in Nat
        BY <2>2 DEF RInv, TypeOK, CallRun, RunReturns, Pcs
      <3> QED
        BY <2>2, <3>1 DEF RInv, TypeOK, CallRun, RunReturns
    <2> QED
      BY <2>1, <2>2
  <1>2. InHand' /\ PassedOver'
    BY DEF RInv, InHand, PassedOver, Spawn, CallRun, RunReturns
  <1>3. OnlySpawnedHaveMail'
    BY BoundsAssumption
    DEF RInv, TypeOK, OnlySpawnedHaveMail, Spawned, Spawn, CallRun, RunReturns
  <1> QED
    BY <1>1, <1>2, <1>3 DEF RInv

LEMMA NextKeeps == RInv /\ [Next]_vars => RInv'
  <1>1. RInv /\ UNCHANGED vars => RInv'
    BY DEF vars, RInv, TypeOK, InHand, PassedOver, OnlySpawnedHaveMail, Spawned
  <1> QED
    BY <1>1, SendsKeep, DeliverKeeps, PassKeeps, HandlerKeeps, ProgramKeeps DEF Next, RunStep

THEOREM RInvHolds == Spec => []RInv
  BY InitRInv, NextKeeps, PTL DEF Spec

-------------------------------------------------------------------------------
(* Step by step.                                                            *)
Handling(a) == IF pc \in {"handler", "unwound"} /\ i = a THEN msg ELSE NoMsg

\* Whoever is handled is at `i`; no message is NoMsg.
LEMMA HandledAtI ==
    ASSUME RInv, pc \in {"handler", "unwound"}
    PROVE  i \in Actor /\ Handling(i) = msg /\ msg # NoMsg
  BY BoundsAssumption DEF RInv, TypeOK, InHand, Handling, Actor

LEMMA SendSends ==
    ASSUME RInv, NEW a \in Spawned, NEW m \in Msg, MainSend(a, m) \/ HandlerSend(a, m)
    PROVE  Model!ANext
  <1>1. Send(a, m) /\ a \in Actor
    BY SendKeepsMail DEF MainSend, HandlerSend
  <1>2. Model!Send(a, m)
    BY <1>1 DEF Model!Send, Send, MainSend, HandlerSend
  <1> QED
    BY <1>1, <1>2 DEF Model!ANext, Actor

\* Turns of the two loops, and a new actor, are not seen.
LEMMA LoopIsUnseen ==
    ASSUME RInv, Spawn \/ StartPass \/ SkipEmpty \/ EndPass
    PROVE  UNCHANGED Model!avars
  BY DEF Model!avars, Spawn, StartPass, SkipEmpty, EndPass

LEMMA CallRunBegins == CallRun => Model!RunBegins
  BY DEF Model!RunBegins, CallRun

LEMMA DeliverBegins ==
    ASSUME RInv, Deliver
    PROVE  \E a \in Actor : Model!Begin(a)
  <1>1. i \in Actor
    BY BoundsAssumption DEF RInv, TypeOK, Deliver, Actor
  <1>2. \A a \in Actor : Handling(a) = NoMsg
    BY DEF Handling, Deliver
  <1>3. \A a \in Actor : Handling(a)' = IF a = i THEN Head(mailbox[i]) ELSE NoMsg
    BY DEF Handling, Deliver
  <1>4. PICK at \in Actor : at = i
    BY <1>1
  <1>5. [a \in Actor |-> Handling(a)'] = [[a \in Actor |-> Handling(a)] EXCEPT ![at] = Head(mailbox[at])]
    BY <1>2, <1>3, <1>4
  <1>6. Model!Begin(at)
    BY <1>2, <1>4, <1>5 DEF Model!Begin, Handling, Deliver
  <1> QED
    BY <1>6

\* A handler comes back, or its panic passes through its frame.
LEMMA HandlerEnds ==
    ASSUME RInv, HandlerReturns \/ LeaveHandler
    PROVE  \E a \in Actor : Model!End(a)
  <1>1. i \in Actor /\ Handling(i) # NoMsg
    BY HandledAtI DEF HandlerReturns, LeaveHandler
  <1>2. \A a \in Actor : Handling(a)' = NoMsg
    BY DEF Handling, HandlerReturns, LeaveHandler
  <1>3. \A a \in Actor : a # i => Handling(a) = NoMsg
    BY DEF Handling
  <1>4. PICK at \in Actor : at = i
    BY <1>1
  <1>5. [a \in Actor |-> Handling(a)'] = [[a \in Actor |-> Handling(a)] EXCEPT ![at] = NoMsg]
    BY <1>2, <1>3, <1>4
  <1>6. Model!End(at)
    BY <1>1, <1>4, <1>5 DEF Model!End, Handling, HandlerReturns, LeaveHandler
  <1> QED
    BY <1>6

LEMMA HandlerPanicsPanic == ASSUME RInv, HandlerPanics PROVE Model!Panic
  <1>1. ~Model!Idle
    BY HandledAtI DEF HandlerPanics, Model!Idle, Handling
  <1> QED
    BY <1>1 DEF Model!Panic, HandlerPanics

\* A pass that delivered nothing found nothing: the system is quiescent.
LEMMA ReturnsInQuiescence == ASSUME RInv, RunReturns PROVE Model!RunReturns
  <1>1. \A a \in Actor : mailbox[a] = << >>
    BY DEF RInv, PassedOver, OnlySpawnedHaveMail, RunReturns
  <1>2. Model!Quiescent
    BY <1>1 DEF Model!Quiescent, Model!Idle, RunReturns
  <1> QED
    BY <1>2 DEF Model!RunReturns, RunReturns

LEMMA ThrowsWhenIdle == ASSUME RInv, RunThrows PROVE Model!RunRethrows
  BY DEF Model!RunRethrows, Model!Idle, RunThrows

LEMMA StepRefines == RInv /\ [Next]_vars => [Model!ANext]_Model!avars
  <1> SUFFICES ASSUME RInv, [Next]_vars PROVE Model!ANext \/ UNCHANGED Model!avars
    OBVIOUS
  <1>1. CASE Spawn \/ StartPass \/ SkipEmpty \/ EndPass
    BY <1>1, LoopIsUnseen
  <1>2. CASE CallRun \/ HandlerPanics \/ RunReturns \/ RunThrows
    BY <1>2, CallRunBegins, HandlerPanicsPanic, ReturnsInQuiescence, ThrowsWhenIdle DEF Model!ANext
  <1>3. CASE Deliver
    BY <1>3, DeliverBegins DEF Model!ANext
  <1>4. CASE HandlerReturns \/ LeaveHandler
    BY <1>4, HandlerEnds DEF Model!ANext
  <1>5. ASSUME NEW a \in Spawned, NEW m \in Msg, MainSend(a, m) \/ HandlerSend(a, m)
        PROVE  Model!ANext
    BY <1>5, SendSends
  <1>6. CASE UNCHANGED vars
    BY <1>6 DEF vars, Model!avars
  <1> QED
    BY <1>1, <1>2, <1>3, <1>4, <1>5, <1>6 DEF Next, RunStep

\* The prelude's scheduler implements the actor model: one thread that delivers
\* one message to each actor in turn, and comes back after a pass without any
\* (ActorSystem.run in src/prelude.keal).
THEOREM RoundRobinImplementsModel == Spec => ImplementsModel
  <1>1. Init => Model!AInit
    BY DEF Init, Model!AInit
  <1> QED
    BY <1>1, RInvHolds, StepRefines, PTL DEF Spec, ImplementsModel, Model!ASpec

--------------------------------------------------------------------------------
(* The outbox: the invariant, in parts.                                    *)

\* A post copies an object its thread holds, and `drain` is under the mutex.
PostsItsOwn == \A t \in Thread : call[t] = "posting" => arg[t] \in own[t]
DrainsLocked == \A t \in Thread : call[t] = "draining" => mu = t

\* Every object in a place has been made, so that a new one is in none.
AllMade ==
    /\ ToSet(items) \subseteq made
    /\ \A t \in Thread : own[t] \subseteq made
    /\ \A t \in Thread : call[t] = "copied" => arg[t] \in made
    /\ \A t \in Thread : call[t] = "draining" => ToSet(out[t]) \subseteq made

\* A copy between its making and its push is in no other place.
CopiesAreApart ==
    \A t \in Thread : call[t] = "copied" =>
        /\ arg[t] \notin ToSet(items)
        /\ \A u \in Thread : arg[t] \notin own[u]
        /\ \A u \in Thread : call[u] = "draining" => arg[t] \notin ToSet(out[u])
        /\ \A u \in Thread : u # t /\ call[u] = "copied" => arg[u] # arg[t]

BoxInv ==
    /\ BoxTypeOK
    /\ PostsItsOwn
    /\ DrainsLocked
    /\ AllMade
    /\ CopiesAreApart
    /\ NothingShared
    /\ BoxIsWhatWasPosted

USE DEF PostsItsOwn, DrainsLocked, AllMade, CopiesAreApart, NothingShared, BoxIsWhatWasPosted
--------------------------------------------------------------------------------
(* Sequences of objects.                                                   *)

LEMMA SetOfAppend ==
    ASSUME NEW S, NEW s \in Seq(S), NEW e \in S
    PROVE  /\ Append(s, e) \in Seq(S)
           /\ Len(Append(s, e)) = Len(s) + 1
           /\ ToSet(Append(s, e)) = ToSet(s) \union {e}
           /\ \A k \in DOMAIN s : Append(s, e)[k] = s[k]
           /\ Append(s, e)[Len(s) + 1] = e
           /\ DOMAIN Append(s, e) = DOMAIN s \union {Len(s) + 1}
<1>1. /\ Append(s, e) \in Seq(S) /\ Len(Append(s, e)) = Len(s) + 1
      /\ \A k \in 1 .. Len(s) : Append(s, e)[k] = s[k]
      /\ Append(s, e)[Len(s) + 1] = e
    OBVIOUS
<1>2. DOMAIN s = 1 .. Len(s) /\ DOMAIN Append(s, e) = 1 .. Len(s) + 1 /\ Len(s) \in Nat
    BY <1>1
<1>3. DOMAIN Append(s, e) = DOMAIN s \union {Len(s) + 1}
    BY <1>2
<1>4. ToSet(Append(s, e)) = ToSet(s) \union {e}
    BY <1>1, <1>2, <1>3 DEF ToSet
<1> QED BY <1>1, <1>2, <1>3, <1>4

LEMMA SetOfEmpty == ToSet(<< >>) = {}
BY DEF ToSet

LEMMA SetOfOne == ASSUME NEW S, NEW s \in Seq(S), NEW k \in DOMAIN s PROVE s[k] \in ToSet(s) /\ s[k] \in S
BY DEF ToSet

LEMMA SetIsInside == ASSUME NEW S, NEW s \in Seq(S) PROVE ToSet(s) \subseteq S
BY DEF ToSet
--------------------------------------------------------------------------------
(* One lemma per action.                                                   *)

LEMMA BeginsApart == BoxInit => BoxInv
<1> SUFFICES ASSUME BoxInit PROVE BoxInv
    OBVIOUS
<1>1. FirstObject \in [Thread -> Object] /\ \A t, u \in Thread : t # u => FirstObject[t] # FirstObject[u]
    BY OutboxAssumption DEF FirstObject
<1>2. BoxTypeOK
    BY <1>1 DEF BoxInit, BoxTypeOK, Calls
<1>3. AllMade
    BY SetOfEmpty DEF BoxInit
<1>4. NothingShared
    BY <1>1, SetOfEmpty DEF BoxInit
<1> QED BY <1>2, <1>3, <1>4 DEF BoxInit, BoxInv

\* A write is to an object of the writer's own, which is neither in the box nor
\* in a list being drained.
LEMMA MutateKeeps ==
    ASSUME BoxInv, NEW t \in Thread, NEW o \in Object, NEW v \in Val, Mutate(t, o, v)
    PROVE  BoxInv'
<1>1. /\ o \in own[t]
      /\ content' = [content EXCEPT ![o] = v]
      /\ UNCHANGED <<mu, items, own, call, arg, out, made, posted>>
    BY DEF Mutate
<1>2. BoxTypeOK'
    BY <1>1 DEF BoxInv, BoxTypeOK
<1>3. \A k \in DOMAIN items : items[k] # o /\ items[k] \in Object
    BY <1>1, SetOfOne DEF BoxInv, BoxTypeOK
<1>4. \A u \in Thread : call[u] = "draining" => \A k \in DOMAIN out[u] : out[u][k] # o /\ out[u][k] \in Object
    BY <1>1, SetOfOne DEF BoxInv, BoxTypeOK
<1>5. BoxIsWhatWasPosted'
    BY <1>1, <1>3, <1>4 DEF BoxInv, BoxTypeOK
<1>6. (PostsItsOwn /\ DrainsLocked /\ AllMade /\ CopiesAreApart /\ NothingShared)'
    BY <1>1 DEF BoxInv
<1> QED BY <1>2, <1>5, <1>6 DEF BoxInv

LEMMA CallPostKeeps ==
    ASSUME BoxInv, NEW t \in Thread, NEW o \in Object, CallPost(t, o)
    PROVE  BoxInv'
<1>1. /\ call[t] = "out" /\ o \in own[t]
      /\ call' = [call EXCEPT ![t] = "posting"] /\ arg' = [arg EXCEPT ![t] = o]
      /\ UNCHANGED <<mu, items, content, own, out, made, posted>>
    BY DEF CallPost
<1>2. BoxTypeOK'
    BY <1>1 DEF BoxInv, BoxTypeOK, Calls
<1>3. (PostsItsOwn /\ DrainsLocked /\ AllMade /\ CopiesAreApart)'
    BY <1>1 DEF BoxInv, BoxTypeOK
<1>4. (NothingShared /\ BoxIsWhatWasPosted)'
    BY <1>1 DEF BoxInv, BoxTypeOK
<1> QED BY <1>2, <1>3, <1>4 DEF BoxInv

\* The copy is an object nobody had.
LEMMA PostCopyKeeps ==
    ASSUME BoxInv, NEW t \in Thread, PostCopy(t)
    PROVE  BoxInv'
<1> PICK c \in Object : CopyTo(arg[t], c) /\ arg' = [arg EXCEPT ![t] = c]
    BY DEF PostCopy
<1>1. /\ call[t] = "posting" /\ call' = [call EXCEPT ![t] = "copied"]
      /\ c \notin made /\ made' = made \union {c} /\ content' = [content EXCEPT ![c] = content[arg[t]]]
      /\ UNCHANGED <<mu, items, own, out, posted>>
    BY DEF PostCopy, CopyTo
<1>2. arg[t] \in Object
    BY <1>1 DEF BoxInv, BoxTypeOK
<1>3. BoxTypeOK'
    BY <1>1, <1>2 DEF BoxInv, BoxTypeOK, Calls
<1>4. \A k \in DOMAIN items : items[k] # c /\ items[k] \in Object
    BY <1>1, SetOfOne DEF BoxInv, BoxTypeOK
<1>5. \A u \in Thread : call[u] = "draining" => \A k \in DOMAIN out[u] : out[u][k] # c /\ out[u][k] \in Object
    BY <1>1, SetOfOne DEF BoxInv, BoxTypeOK
<1>6. BoxIsWhatWasPosted'
    BY <1>1, <1>4, <1>5 DEF BoxInv, BoxTypeOK
<1>7. (PostsItsOwn /\ DrainsLocked /\ AllMade)'
    BY <1>1 DEF BoxInv, BoxTypeOK
<1>8. CopiesAreApart'
    BY <1>1 DEF BoxInv, BoxTypeOK
<1>9. NothingShared'
    BY <1>1 DEF BoxInv, BoxTypeOK
<1> QED BY <1>3, <1>6, <1>7, <1>8, <1>9 DEF BoxInv

LEMMA PostUnwindsKeeps ==
    ASSUME BoxInv, NEW t \in Thread, PostUnwinds(t)
    PROVE  BoxInv'
<1>1. /\ call[t] = "posting" /\ call' = [call EXCEPT ![t] = "out"] /\ arg' = [arg EXCEPT ![t] = NoObject]
      /\ UNCHANGED <<mu, items, content, own, out, made, posted>>
    BY DEF PostUnwinds
<1>2. BoxTypeOK'
    BY <1>1 DEF BoxInv, BoxTypeOK, Calls
<1>3. (PostsItsOwn /\ DrainsLocked /\ AllMade /\ CopiesAreApart)'
    BY <1>1 DEF BoxInv, BoxTypeOK
<1>4. (NothingShared /\ BoxIsWhatWasPosted)'
    BY <1>1 DEF BoxInv, BoxTypeOK
<1> QED BY <1>2, <1>3, <1>4 DEF BoxInv

\* Nobody drains while a post holds the mutex, and the copy goes from its thread
\* to the box.
LEMMA PostPushKeeps ==
    ASSUME BoxInv, NEW t \in Thread, PostPush(t)
    PROVE  BoxInv'
<1>1. /\ call[t] = "copied" /\ mu = Free
      /\ items' = Append(items, arg[t]) /\ posted' = Append(posted, content[arg[t]])
      /\ call' = [call EXCEPT ![t] = "out"] /\ arg' = [arg EXCEPT ![t] = NoObject]
      /\ UNCHANGED <<mu, content, own, out, made>>
    BY DEF PostPush, Enqueue
<1>2. arg[t] \in Object /\ content[arg[t]] \in Val
    BY <1>1 DEF BoxInv, BoxTypeOK
<1>3. /\ items' \in Seq(Object) /\ Len(items') = Len(items) + 1
      /\ ToSet(items') = ToSet(items) \union {arg[t]}
      /\ DOMAIN items' = DOMAIN items \union {Len(items) + 1}
      /\ \A k \in DOMAIN items : items'[k] = items[k]
      /\ items'[Len(items) + 1] = arg[t]
    BY <1>1, <1>2, SetOfAppend DEF BoxInv, BoxTypeOK
<1>4. /\ posted' \in Seq(Val) /\ Len(posted') = Len(posted) + 1
      /\ \A k \in DOMAIN posted : posted'[k] = posted[k]
      /\ posted'[Len(posted) + 1] = content[arg[t]]
    BY <1>1, <1>2, SetOfAppend DEF BoxInv, BoxTypeOK
<1>5. DOMAIN items = DOMAIN posted /\ Len(items) = Len(posted)
    BY DEF BoxInv, BoxTypeOK
<1>6. \A u \in Thread : call[u] # "draining" /\ call'[u] # "draining"
    BY <1>1, OutboxAssumption DEF BoxInv, BoxTypeOK
<1>7. BoxTypeOK'
    BY <1>1, <1>3, <1>4 DEF BoxInv, BoxTypeOK, Calls
<1>8. BoxIsWhatWasPosted'
    <2>1. Len(items') = Len(posted')
        BY <1>3, <1>4, <1>5
    <2>2. ASSUME NEW k \in DOMAIN items' PROVE content'[items'[k]] = posted'[k]
        BY <1>1, <1>3, <1>4, <1>5, <2>2 DEF BoxInv
    <2>3. \A k \in DOMAIN items' : content'[items'[k]] = posted'[k]
        BY <2>2
    <2> QED BY <1>6, <2>1, <2>3
<1>9. (PostsItsOwn /\ DrainsLocked /\ AllMade)'
    BY <1>1, <1>3, <1>6 DEF BoxInv, BoxTypeOK
<1>10. CopiesAreApart'
    BY <1>1, <1>3, <1>6 DEF BoxInv, BoxTypeOK
<1>11. NothingShared'
    BY <1>1, <1>3, <1>6 DEF BoxInv, BoxTypeOK
<1> QED BY <1>7, <1>8, <1>9, <1>10, <1>11 DEF BoxInv

LEMMA CallDrainKeeps ==
    ASSUME BoxInv, NEW t \in Thread, CallDrain(t)
    PROVE  BoxInv'
<1>1. /\ call[t] = "out" /\ mu = Free /\ mu' = t
      /\ call' = [call EXCEPT ![t] = "draining"] /\ out' = [out EXCEPT ![t] = << >>]
      /\ UNCHANGED <<items, content, own, arg, made, posted>>
    BY DEF CallDrain
<1>2. \A u \in Thread : call[u] # "draining"
    BY <1>1, OutboxAssumption DEF BoxInv
<1>3. ToSet(out'[t]) = {} /\ DOMAIN out'[t] = {}
    BY <1>1, SetOfEmpty DEF BoxInv, BoxTypeOK
<1>4. BoxTypeOK'
    BY <1>1 DEF BoxInv, BoxTypeOK, Calls
<1>5. \A u \in Thread : call'[u] = "draining" => u = t
    BY <1>1, <1>2 DEF BoxInv, BoxTypeOK
<1>6. (PostsItsOwn /\ DrainsLocked /\ AllMade)'
    BY <1>1, <1>3, <1>5 DEF BoxInv, BoxTypeOK
<1>7. CopiesAreApart'
    BY <1>1, <1>3, <1>5 DEF BoxInv, BoxTypeOK
<1>8. (NothingShared /\ BoxIsWhatWasPosted)'
    BY <1>1, <1>3, <1>5 DEF BoxInv, BoxTypeOK
<1> QED BY <1>4, <1>6, <1>7, <1>8 DEF BoxInv

\* What the copy says is what was posted at its place.
LEMMA DrainCopyKeeps ==
    ASSUME BoxInv, NEW t \in Thread, DrainCopy(t)
    PROVE  BoxInv'
<1> DEFINE place == Len(out[t]) + 1
<1> PICK c \in Object : CopyTo(items[place], c) /\ out' = [out EXCEPT ![t] = Append(@, c)]
    BY DEF DrainCopy
<1>1. /\ call[t] = "draining" /\ Len(out[t]) < Len(items)
      /\ c \notin made /\ made' = made \union {c} /\ content' = [content EXCEPT ![c] = content[items[place]]]
      /\ UNCHANGED <<mu, items, own, call, arg, posted>>
    BY DEF DrainCopy, CopyTo
<1>2. out[t] \in Seq(Object) /\ items \in Seq(Object)
    BY DEF BoxInv, BoxTypeOK
<1>3. place \in DOMAIN items /\ place \in Nat
    BY <1>1, <1>2
<1>4. items[place] \in Object
    BY <1>2, <1>3
<1>5. out'[t] = Append(out[t], c) /\ \A u \in Thread : u # t => out'[u] = out[u]
    BY DEF BoxInv, BoxTypeOK
<1>6. /\ out'[t] \in Seq(Object)
      /\ ToSet(out'[t]) = ToSet(out[t]) \union {c}
      /\ DOMAIN out'[t] = DOMAIN out[t] \union {place}
      /\ \A k \in DOMAIN out[t] : out'[t][k] = out[t][k]
      /\ out'[t][place] = c
    BY <1>2, <1>5, SetOfAppend
<1>7. \A u \in Thread : call[u] = "draining" => u = t
    BY <1>1 DEF BoxInv
<1>8. BoxTypeOK'
    BY <1>1, <1>4, <1>5, <1>6 DEF BoxInv, BoxTypeOK
<1>9. \A k \in DOMAIN items : items[k] # c /\ items[k] \in Object
    BY <1>1, SetOfOne DEF BoxInv, BoxTypeOK
<1>10. \A k \in DOMAIN out[t] : out[t][k] # c /\ out[t][k] \in Object
    BY <1>1, SetOfOne DEF BoxInv, BoxTypeOK
<1>11. content \in [Object -> Val]
    BY DEF BoxInv, BoxTypeOK
<1>12. \A k \in DOMAIN out'[t] : content'[out'[t][k]] = posted[k]
    BY <1>1, <1>3, <1>6, <1>10, <1>11 DEF BoxInv
<1>13. BoxIsWhatWasPosted'
    BY <1>1, <1>7, <1>9, <1>11, <1>12 DEF BoxInv
<1> HIDE DEF place
<1>14. (PostsItsOwn /\ DrainsLocked /\ AllMade)'
    BY <1>1, <1>6, <1>7 DEF BoxInv
<1>15. CopiesAreApart'
    BY <1>1, <1>6, <1>7 DEF BoxInv
<1>16. NothingShared'
    BY <1>1, <1>6, <1>7 DEF BoxInv
<1> QED BY <1>8, <1>13, <1>14, <1>15, <1>16 DEF BoxInv

\* What is released was in the partial list and nowhere else.
LEMMA DrainUnwindsKeeps ==
    ASSUME BoxInv, NEW t \in Thread, DrainUnwinds(t)
    PROVE  BoxInv'
<1>1. /\ call[t] = "draining" /\ mu' = Free
      /\ call' = [call EXCEPT ![t] = "out"] /\ out' = [out EXCEPT ![t] = << >>]
      /\ made' = made \ ToSet(out[t])
      /\ UNCHANGED <<items, content, own, arg, posted>>
    BY DEF DrainUnwinds, GivesUp, Unlock
<1>2. \A u \in Thread : call'[u] # "draining"
    BY <1>1 DEF BoxInv, BoxTypeOK
<1>3. BoxTypeOK'
    BY <1>1 DEF BoxInv, BoxTypeOK, Calls
<1>4. \A u \in Thread : call'[u] = "copied" => call[u] = "copied"
    BY <1>1 DEF BoxInv, BoxTypeOK
<1>5. (PostsItsOwn /\ DrainsLocked)'
    BY <1>1, <1>2 DEF BoxInv, BoxTypeOK
<1>6. AllMade'
    BY <1>1, <1>2, <1>4 DEF BoxInv
<1>7. CopiesAreApart'
    BY <1>1, <1>2, <1>4 DEF BoxInv
<1>8. (NothingShared /\ BoxIsWhatWasPosted)'
    BY <1>1, <1>2 DEF BoxInv
<1> QED BY <1>3, <1>5, <1>6, <1>7, <1>8 DEF BoxInv

\* The drainer's list was nobody else's.
LEMMA DrainReturnsKeeps ==
    ASSUME BoxInv, NEW t \in Thread, DrainReturns(t)
    PROVE  BoxInv'
<1>1. /\ call[t] = "draining" /\ mu' = Free
      /\ call' = [call EXCEPT ![t] = "out"] /\ own' = [own EXCEPT ![t] = @ \union ToSet(out[t])]
      /\ UNCHANGED <<items, content, arg, out, made, posted>>
    BY DEF DrainReturns, Unlock
<1>2. \A u \in Thread : call'[u] # "draining"
    BY <1>1 DEF BoxInv, BoxTypeOK
<1>3. ToSet(out[t]) \subseteq Object
    BY SetIsInside DEF BoxInv, BoxTypeOK
<1>4. BoxTypeOK'
    BY <1>1, <1>3 DEF BoxInv, BoxTypeOK, Calls
<1>5. \A u \in Thread : /\ call'[u] = "copied" => call[u] = "copied"
                        /\ call'[u] = "posting" => call[u] = "posting"
    BY <1>1 DEF BoxInv, BoxTypeOK
<1>6. \A u \in Thread : own'[u] = IF u = t THEN own[u] \union ToSet(out[t]) ELSE own[u]
    BY <1>1 DEF BoxInv, BoxTypeOK
<1>7. (PostsItsOwn /\ DrainsLocked)'
    BY <1>1, <1>2, <1>5, <1>6 DEF BoxInv
<1>8. AllMade'
    BY <1>1, <1>2, <1>5, <1>6 DEF BoxInv
<1>9. CopiesAreApart'
    BY <1>1, <1>2, <1>5, <1>6 DEF BoxInv
<1>10. NothingShared'
    BY <1>1, <1>2, <1>6 DEF BoxInv
<1>11. BoxIsWhatWasPosted'
    BY <1>1, <1>2 DEF BoxInv
<1> QED BY <1>4, <1>7, <1>8, <1>9, <1>10, <1>11 DEF BoxInv

LEMMA StepsKeep == ASSUME BoxInv, [BoxNext]_boxVars PROVE BoxInv'
<1>1. CASE BoxNext
    <2> PICK t \in Thread : Step(t)
        BY <1>1 DEF BoxNext
    <2> QED BY MutateKeeps, CallPostKeeps, PostCopyKeeps, PostUnwindsKeeps, PostPushKeeps,
               CallDrainKeeps, DrainCopyKeeps, DrainUnwindsKeeps, DrainReturnsKeeps DEF Step
<1>2. CASE UNCHANGED boxVars
    <2>1. (BoxTypeOK /\ NothingShared /\ BoxIsWhatWasPosted)'
        BY <1>2 DEF boxVars, BoxInv, BoxTypeOK
    <2> QED BY <1>2, <2>1 DEF boxVars, BoxInv
<1> QED BY <1>1, <1>2
--------------------------------------------------------------------------------
\* Outbox.post and Outbox.drain (src/src/cbackend.rs, actor_method_body):
\* however posts, drains and writes interleave, no object is ever reachable from
\* two places, the box says what was posted in the order of the posts, and a
\* drain's copies say it too.
THEOREM CopiesStayWhatWasPosted == BoxSpec => []CopiesOfWhatWasPosted
<1>1. BoxInit => BoxInv
    BY BeginsApart
<1>2. BoxInv /\ [BoxNext]_boxVars => BoxInv'
    BY StepsKeep
<1>3. BoxInv => CopiesOfWhatWasPosted
    BY DEF BoxInv, CopiesOfWhatWasPosted
<1> QED BY <1>1, <1>2, <1>3, PTL DEF BoxSpec

\* The box, the copies and the lists being drained hold objects, the history holds
\* values, and the mutex is a thread's or free.
THEOREM OutboxTypes == BoxSpec => []BoxTypeOK
<1>1. BoxInit => BoxInv
    BY BeginsApart
<1>2. BoxInv /\ [BoxNext]_boxVars => BoxInv'
    BY StepsKeep
<1>3. BoxInv => BoxTypeOK
    BY DEF BoxInv
<1> QED BY <1>1, <1>2, <1>3, PTL DEF BoxSpec
================================================================================
