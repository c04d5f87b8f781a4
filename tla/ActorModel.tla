------------------------------ MODULE ActorModel ------------------------------
(***************************************************************************)
(* What Keal's actor model promises a program, whichever engine runs it    *)
(* (src/prelude.keal, docs/threads.md): a message is delivered to the      *)
(* actor it was sent to, exactly once; one actor handles its messages one  *)
(* at a time and in the order they arrived; `run` comes back when every    *)
(* mailbox is empty and no handler is running, or, once a handler has      *)
(* panicked, as soon as nobody is inside a handler, with that panic.       *)
(* Nothing is promised about the order BETWEEN actors.                     *)
(*                                                                         *)
(* ActorPool (the native scheduler: threads, one mutex, one condition) and *)
(* ActorRoundRobin (the interpreters' prelude loop) both implement it.     *)
(***************************************************************************)
EXTENDS Naturals, Sequences

CONSTANTS Actor,   \* the actors a program may spawn
          Msg,     \* message values
          NoMsg    \* "no handler is running here"

VARIABLES mailbox,   \* [Actor -> Seq(Msg)]: sent and not yet delivered
          inside,    \* [Actor -> Msg \cup {NoMsg}]: the message being handled
          phase,     \* what `run` is doing
          outcome    \* how the last `run` came back

avars == <<mailbox, inside, phase, outcome>>

Idle      == \A a \in Actor : inside[a] = NoMsg
Quiescent == Idle /\ \A a \in Actor : mailbox[a] = << >>

AInit ==
    /\ mailbox = [a \in Actor |-> << >>]
    /\ inside = [a \in Actor |-> NoMsg]
    /\ phase = "out"
    /\ outcome = "none"

\* A message joins the back of its receiver's mailbox.
Send(a, m) ==
    /\ mailbox' = [mailbox EXCEPT ![a] = Append(@, m)]
    /\ UNCHANGED <<inside, phase, outcome>>

RunBegins ==
    /\ phase = "out"
    /\ phase' = "running"
    /\ outcome' = "none"
    /\ UNCHANGED <<mailbox, inside>>

\* The oldest message of an actor nobody is inside is handed to its handler.
Begin(a) ==
    /\ phase = "running"
    /\ inside[a] = NoMsg
    /\ mailbox[a] # << >>
    /\ inside' = [inside EXCEPT ![a] = Head(mailbox[a])]
    /\ mailbox' = [mailbox EXCEPT ![a] = Tail(@)]
    /\ UNCHANGED <<phase, outcome>>

End(a) ==
    /\ inside[a] # NoMsg
    /\ inside' = [inside EXCEPT ![a] = NoMsg]
    /\ UNCHANGED <<mailbox, phase, outcome>>

\* A handler panics: nothing more is delivered in this run.
Panic ==
    /\ phase = "running"
    /\ ~Idle
    /\ phase' = "failed"
    /\ UNCHANGED <<mailbox, inside, outcome>>

RunReturns ==
    /\ phase = "running"
    /\ Quiescent
    /\ phase' = "out"
    /\ outcome' = "ok"
    /\ UNCHANGED <<mailbox, inside>>

RunRethrows ==
    /\ phase = "failed"
    /\ Idle
    /\ phase' = "out"
    /\ outcome' = "panic"
    /\ UNCHANGED <<mailbox, inside>>

ANext ==
    \/ \E a \in Actor, m \in Msg : Send(a, m)
    \/ RunBegins
    \/ \E a \in Actor : Begin(a) \/ End(a)
    \/ Panic
    \/ RunReturns
    \/ RunRethrows

ASpec == AInit /\ [][ANext]_avars
===============================================================================
