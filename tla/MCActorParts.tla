------------------------------ MODULE MCActorParts -----------------------------
(* The actor system's two smaller parts beside each other, the prelude's run  *)
(* loop and the outbox: a run is one part's, and the other's variables stay   *)
(* as they began.  Objects are numbered.                                      *)
EXTENDS ActorRoundRobin, ActorOutbox, TLC

VARIABLE part

Objects5 == 1 .. 5
all == <<part, vars, boxVars>>

PartsInit == Init /\ BoxInit /\ part \in {"round robin", "outbox"}
Robin(A) == part = "round robin" /\ A /\ UNCHANGED <<part, boxVars>>
Box(A) == part = "outbox" /\ A /\ UNCHANGED <<part, vars>>

\* The fairness of each part, over its own steps.
PartsSpec ==
    /\ PartsInit /\ [][Robin(Next) \/ Box(BoxNext)]_all
    /\ WF_all(Robin(RunStep))
    /\ \A t \in Thread :
          /\ SF_all(Box(PostCopy(t) \/ PostUnwinds(t)))
          /\ SF_all(Box(PostPush(t)))
          /\ WF_all(Box(DrainCopy(t) \/ DrainUnwinds(t) \/ DrainReturns(t)))
===============================================================================
