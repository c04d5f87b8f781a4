------------------------------ MODULE ActorOutbox ------------------------------
(***************************************************************************)
(* Outbox<T> in a native program: `post` and `drain` as the C backend      *)
(* generates them (src/cbackend.rs, actor_method_body), over values that   *)
(* are objects.  A value crosses by copy: `post` copies its argument       *)
(* before it takes the mutex, `drain` copies every element while holding   *)
(* it.  Each copy of a class instance makes a new object, and in a program *)
(* built with --audit counts its birth, which takes the same mutex         *)
(* (src/runtime.c, KEAL_AUDIT_LOCK); the mutex is not recursive.           *)
(***************************************************************************)
EXTENDS Naturals, Sequences, FiniteSets, SequencesExt

CONSTANTS Thread,   \* the actors' threads and the one that drains
          Object,   \* bound: the objects that are ever made, 1 .. k
          Val,      \* what an object says
          Free,     \* "nobody holds keal_actor_mu"
          Audit,    \* built with --audit
          MaxPosts  \* bound: how many values are posted

\* Every thread can have an object of its own to begin with.
ASSUME OutboxAssumption ==
    /\ Object \subseteq Nat \ {0}
    /\ Free \notin Thread
    /\ \E f \in [Thread -> Object] : \A t, u \in Thread : t # u => f[t] # f[u]

VARIABLES mu,       \* who holds keal_actor_mu
          items,    \* the box: k_items, a sequence of objects
          content,  \* what each object says
          own,      \* the objects a thread can reach, but for the box
          call, arg,  \* the call a thread is in; the object it posts
          out,      \* the list `drain` is building
          made,     \* objects made so far
          posted    \* history: what each posted object said when `post` was called

boxVars == <<mu, items, content, own, call, arg, out, made, posted>>

NoObject == 0
Calls == {"out", "posting", "copied", "draining"}

BoxTypeOK ==
    /\ mu \in Thread \cup {Free}
    /\ items \in Seq(Object)
    /\ content \in [Object -> Val]
    /\ own \in [Thread -> SUBSET Object]
    /\ call \in [Thread -> Calls]
    /\ arg \in [Thread -> Object \cup {NoObject}]
    /\ out \in [Thread -> Seq(Object)]
    /\ made \subseteq Object
    /\ posted \in Seq(Val)

\* Every thread starts with one object of its own.
FirstObject == CHOOSE f \in [Thread -> Object] : \A t, u \in Thread : t # u => f[t] # f[u]
BoxInit ==
    /\ mu = Free
    /\ items = << >> /\ posted = << >>
    /\ own = [t \in Thread |-> {FirstObject[t]}]
    /\ made = {FirstObject[t] : t \in Thread}
    /\ content \in {[o \in Object |-> v] : v \in Val}
    /\ call = [t \in Thread |-> "out"]
    /\ arg = [t \in Thread |-> NoObject]
    /\ out = [t \in Thread |-> << >>]

\* kcopy_T: a new object that says what the old one says.
SameObject(o, c) == c = o /\ UNCHANGED <<made, content>>            \* mutant
CopyTo(o, c) ==
    /\ c \in Object \ made
    /\ made' = made \cup {c}
    /\ content' = [content EXCEPT ![c] = content[o]]

\* keal_audit_born locks and unlocks the mutex around its row.
AuditPasses == Audit => mu = Free

Unlock == mu' = Free

Enqueue(c) == items' = Append(items, c)

\* A program writes to an object it holds: the sender after the send, the
\* drainer to what it drained.
Mutate(t, o, v) ==
    /\ call[t] = "out" /\ o \in own[t]
    /\ content' = [content EXCEPT ![o] = v]
    /\ UNCHANGED <<mu, items, own, call, arg, out, made, posted>>

CallPost(t, o) ==
    /\ call[t] = "out" /\ o \in own[t]
    /\ Len(posted) + Cardinality({u \in Thread : call[u] \in {"posting", "copied"}}) < MaxPosts
    /\ call' = [call EXCEPT ![t] = "posting"]
    /\ arg' = [arg EXCEPT ![t] = o]
    /\ UNCHANGED <<mu, items, content, own, out, made, posted>>

PostCopy(t) ==
    /\ call[t] = "posting"
    /\ AuditPasses
    /\ \E c \in Object :
         /\ CopyTo(arg[t], c)
         /\ arg' = [arg EXCEPT ![t] = c]
    /\ call' = [call EXCEPT ![t] = "copied"]
    /\ UNCHANGED <<mu, items, own, out, posted>>

\* The copy unwound (a cyclic value): nothing is posted.
PostUnwinds(t) ==
    /\ call[t] = "posting"
    /\ call' = [call EXCEPT ![t] = "out"]
    /\ arg' = [arg EXCEPT ![t] = NoObject]
    /\ UNCHANGED <<mu, items, content, own, out, made, posted>>

PostPush(t) ==
    /\ call[t] = "copied"
    /\ mu = Free
    /\ Enqueue(arg[t])
    /\ posted' = Append(posted, content[arg[t]])
    /\ call' = [call EXCEPT ![t] = "out"]
    /\ arg' = [arg EXCEPT ![t] = NoObject]
    /\ UNCHANGED <<mu, content, own, out, made>>

CallDrain(t) ==
    /\ call[t] = "out"
    /\ mu = Free
    /\ mu' = t
    /\ call' = [call EXCEPT ![t] = "draining"]
    /\ out' = [out EXCEPT ![t] = << >>]
    /\ UNCHANGED <<items, content, own, arg, made, posted>>

\* One turn of the loop.  Under --audit the copy stops at the audit's lock.
DrainCopy(t) ==
    /\ call[t] = "draining"
    /\ Len(out[t]) < Len(items)
    /\ AuditPasses
    /\ \E c \in Object :
         /\ CopyTo(items[Len(out[t]) + 1], c)
         /\ out' = [out EXCEPT ![t] = Append(@, c)]
    /\ UNCHANGED <<mu, items, own, call, arg, posted>>

StartsAgain(t) == UNCHANGED <<mu, call>>                              \* mutant
GivesUp(t)     == Unlock /\ call' = [call EXCEPT ![t] = "out"]

\* A copy unwinds: unlock first, then release the partial list.
DrainUnwinds(t) ==
    /\ call[t] = "draining"
    /\ Len(out[t]) < Len(items)
    /\ AuditPasses
    /\ GivesUp(t)
    /\ out' = [out EXCEPT ![t] = << >>]
    /\ made' = made \ ToSet(out[t])
    /\ UNCHANGED <<items, content, own, arg, posted>>

DrainReturns(t) ==
    /\ call[t] = "draining"
    /\ Len(out[t]) = Len(items)
    /\ Unlock
    /\ call' = [call EXCEPT ![t] = "out"]
    /\ own' = [own EXCEPT ![t] = @ \cup ToSet(out[t])]
    /\ UNCHANGED <<items, content, arg, out, made, posted>>

Step(t) ==
    \/ \E o \in Object, v \in Val : Mutate(t, o, v)
    \/ \E o \in Object : CallPost(t, o)
    \/ PostCopy(t) \/ PostUnwinds(t) \/ PostPush(t)
    \/ CallDrain(t) \/ DrainCopy(t) \/ DrainUnwinds(t) \/ DrainReturns(t)

BoxNext == \E t \in Thread : Step(t)
BoxSpec == BoxInit /\ [][BoxNext]_boxVars

\* A call, once made, is carried on as long as it can be; the mutex is given
\* to whoever keeps asking.
FairBoxSpec ==
    BoxSpec /\ \A t \in Thread :
              /\ SF_boxVars(PostCopy(t) \/ PostUnwinds(t))
              /\ SF_boxVars(PostPush(t))
              /\ WF_boxVars(DrainCopy(t) \/ DrainUnwinds(t) \/ DrainReturns(t))

-------------------------------------------------------------------------------
\* No object is reachable from two places: what is in the box is nobody's,
\* and what left it is the drainer's alone.
NothingShared ==
    /\ \A t \in Thread : ToSet(items) \cap own[t] = {}
    /\ \A t, u \in Thread : t # u => own[t] \cap own[u] = {}
    /\ \A t \in Thread : call[t] = "draining" =>
         ToSet(out[t]) \cap (ToSet(items) \cup UNION {own[u] : u \in Thread}) = {}

\* What the box holds is what was posted, in the order the posts took the mutex,
\* whatever senders and drainers write to their own values; and a drain copies
\* a prefix of one such state, for nobody posts meanwhile.
BoxIsWhatWasPosted ==
    /\ Len(items) = Len(posted)
    /\ \A k \in DOMAIN items : content[items[k]] = posted[k]
    /\ \A t \in Thread : call[t] = "draining" =>
          \A k \in DOMAIN out[t] : content[out[t][k]] = posted[k]

CopiesOfWhatWasPosted == NothingShared /\ BoxIsWhatWasPosted

\* Every `post` and every `drain` comes back.
CallsEnd == \A t \in Thread : call[t] # "out" ~> call[t] = "out"
===============================================================================
