--------------------------- MODULE NativeHeapProofs ----------------------------
(***************************************************************************)
(* Proofs about the two reference counts, for any number of objects, names *)
(* and deinits, and every graph the program makes of them.                 *)
(***************************************************************************)
EXTENDS NativeHeap, FiniteSetTheorems, SequenceTheorems, WellFoundedInduction, TLAPS

(* How often a sequence has an element.                                    *)

At(s, e) == {i \in DOMAIN s : s[i] = e}
Count(s, e) == Cardinality(At(s, e))

LEMMA AtIsFinite ==
    ASSUME NEW S, NEW s \in Seq(S), NEW e
    PROVE  IsFiniteSet(At(s, e)) /\ Count(s, e) \in Nat
<1>1. IsFiniteSet(1 .. Len(s)) /\ At(s, e) \in SUBSET (1 .. Len(s))
    BY FS_Interval DEF At
<1> QED BY <1>1, FS_Subset, FS_CardinalityType DEF Count

LEMMA CountZero ==
    ASSUME NEW S, NEW s \in Seq(S), NEW e
    PROVE  Count(s, e) = 0 <=> \A i \in DOMAIN s : s[i] # e
<1>1. Count(s, e) = 0 <=> At(s, e) = {}
    BY AtIsFinite, FS_EmptySet DEF Count
<1> QED BY <1>1 DEF At

LEMMA CountNothing == \A e : Count(<<>>, e) = 0
<1>1. \A e : At(<<>>, e) = {}
    BY DEF At
<1> QED BY <1>1, FS_EmptySet DEF Count

\* Positions move up by one when an element comes in front.
LEMMA CountPrepend ==
    ASSUME NEW S, NEW s \in Seq(S), NEW d \in S, NEW e
    PROVE  Count(<<d>> \o s, e) = Count(s, e) + (IF d = e THEN 1 ELSE 0)
<1> DEFINE t == <<d>> \o s
           U == {i + 1 : i \in At(s, e)}
           f == [i \in At(s, e) |-> i + 1]
<1>1. t \in Seq(S) /\ Len(t) = Len(s) + 1 /\ t[1] = d /\ \A i \in 1 .. Len(s) : t[i + 1] = s[i]
    OBVIOUS
<1>2. f \in Bijection(At(s, e), U)
    BY DEF Bijection, Injection, Surjection, IsInjective, At
<1>3. IsFiniteSet(U) /\ Cardinality(U) = Count(s, e)
    BY <1>2, AtIsFinite, FS_Bijection DEF Count, ExistsBijection
<1>4. At(t, e) = U \cup (IF d = e THEN {1} ELSE {})
    BY <1>1 DEF At
<1>5. 1 \notin U
    BY DEF At
<1>6. Cardinality(U \cup {1}) = Count(s, e) + 1
    BY <1>3, <1>5, FS_AddElement
<1>7. CASE d = e
    BY <1>4, <1>6, <1>7 DEF Count
<1>8. CASE d # e
    <2>1. At(t, e) = U
        BY <1>4, <1>8
    <2>2. Count(s, e) \in Nat
        BY AtIsFinite
    <2>3. Cardinality(At(t, e)) = Count(s, e)
        BY <2>1, <1>3
    <2>4. Count(t, e) = Count(s, e)
        BY <2>3 DEF Count
    <2> QED BY <1>8, <2>2, <2>4
<1> QED BY <1>7, <1>8

LEMMA CountTail ==
    ASSUME NEW S, NEW s \in Seq(S), s # <<>>, NEW e
    PROVE  Count(s, e) = Count(Tail(s), e) + (IF Head(s) = e THEN 1 ELSE 0)
<1>1. Tail(s) \in Seq(S) /\ Head(s) \in S
    OBVIOUS
<1>2. s = <<Head(s)>> \o Tail(s)
    OBVIOUS
<1>3. \A t \in Seq(S), d \in S : Count(<<d>> \o t, e) = Count(t, e) + (IF d = e THEN 1 ELSE 0)
    BY CountPrepend
<1> QED BY <1>1, <1>2, <1>3

LEMMA CountAppend ==
    ASSUME NEW S, NEW s \in Seq(S), NEW d \in S, NEW e
    PROVE  Count(Append(s, d), e) = Count(s, e) + (IF d = e THEN 1 ELSE 0)
<1>1. At(Append(s, d), e) = At(s, e) \cup (IF d = e THEN {Len(s) + 1} ELSE {})
    BY DEF At
<1>2. Len(s) + 1 \notin At(s, e)
    BY DEF At
<1>3. IsFiniteSet(At(s, e)) /\ Count(s, e) \in Nat
    BY AtIsFinite
<1>4. Cardinality(At(s, e) \cup {Len(s) + 1}) = Count(s, e) + 1
    BY <1>2, <1>3, FS_AddElement DEF Count
<1>5. CASE d = e
    BY <1>1, <1>4, <1>5 DEF Count
<1>6. CASE d # e
    <2>1. At(Append(s, d), e) = At(s, e)
        BY <1>1, <1>6
    <2> QED BY <1>3, <1>6, <2>1 DEF Count
<1> QED BY <1>5, <1>6
--------------------------------------------------------------------------------
(* The invariant, in parts.                                                *)

HeapRecord == [mem: {"unmade", "live", "freed"}, rc: Nat, wc: Nat, kdropped: BOOLEAN,
               strong: Pointer, weak: Pointer]
HeapTypes == TypeOK /\ IsFiniteSet(Made)

\* Nothing is known of an object before it is made, and nothing points at it.
Known == Made \union {Null}
Spotless == \A o \in Obj \ Made : heap[o] = Unmade
Closed ==
    /\ \A x \in Name : name[x] \in Known
    /\ \A i \in DOMAIN calls : calls[i].obj \in Known
    /\ \A i \in DOMAIN queue : queue[i] \in Made
    /\ self \in Known
    /\ \A p \in Made : heap[p].strong \in Known /\ heap[p].weak \in Known

\* The fields of an object are let go once, when it is dead, and the weak
\* reference it holds to itself is let go after them.
FieldOps == {"release_strong_of", "weak_release_of"}
W(op, o) == Count(calls, C(op, o))
FieldsOnce ==
    \A o \in Obj : \A op \in FieldOps :
        W(op, o) \in {0, 1} /\ (W(op, o) # 0 => heap[o].rc = 0)
Guarded(s) ==
    \A i \in DOMAIN s : s[i].op \in FieldOps =>
        \E j \in DOMAIN s : j > i /\ s[j] = WeakRelease(s[i].obj)

\* What is freed has no reference of either kind.
FreedIsDead == \A o \in Made : heap[o].mem = "freed" => heap[o].rc = 0 /\ heap[o].wc = 0

HInv == /\ HeapTypes /\ Spotless /\ Closed
        /\ FieldsOnce /\ Guarded(calls) /\ FreedIsDead
        /\ StrongCountIsOwners /\ WeakCountIsOwners

\* A queued object has died once, and waits in one place.
QueuedOnce ==
    /\ \A i \in DOMAIN queue : heap[queue[i]].kdropped
    /\ \A i, j \in DOMAIN queue : queue[i] = queue[j] => i = j
    /\ self # Null => heap[self].kdropped /\ self \notin Range(queue)
--------------------------------------------------------------------------------
(* The parts of an object's counts are finite.                             *)

LEMMA NamesAreFinite == IsFiniteSet(Name)
<1>1. IsFiniteSet(1 .. Len(Local)) /\ DOMAIN Local = 1 .. Len(Local)
    BY HeapAssumption, FS_Interval
<1>2. Local \in Surjection(1 .. Len(Local), Range(Local))
    BY <1>1, HeapAssumption DEF Surjection, Range
<1>3. IsFiniteSet(Range(Local))
    BY <1>1, <1>2, FS_Surjection
<1> QED BY <1>3, HeapAssumption, FS_Union DEF Name

\* An object's owners, counted by kind.
N(o) == Cardinality(NamedBy(o))
H(o) == Cardinality(HeldBy(o))
WH(o) == Cardinality(WeakHeldBy(o))
Q(o) == Count(queue, o)
S(o) == IF self = o THEN 1 ELSE 0

LEMMA PartsAreNat ==
    ASSUME HeapTypes, NEW o
    PROVE  /\ N(o) \in Nat /\ H(o) \in Nat /\ WH(o) \in Nat /\ Q(o) \in Nat /\ S(o) \in {0, 1}
           /\ \A op : W(op, o) \in Nat
           /\ IsFiniteSet(NamedBy(o)) /\ IsFiniteSet(HeldBy(o)) /\ IsFiniteSet(WeakHeldBy(o))
<1>1. NamedBy(o) \in SUBSET Name
    BY DEF NamedBy
<1>2. HeldBy(o) \in SUBSET Made /\ WeakHeldBy(o) \in SUBSET Made /\ IsFiniteSet(Made)
    BY DEF HeldBy, WeakHeldBy, HeapTypes
<1>3. queue \in Seq(Obj) /\ calls \in Seq(Op)
    BY DEF HeapTypes, TypeOK
<1>4. IsFiniteSet(NamedBy(o)) /\ IsFiniteSet(HeldBy(o)) /\ IsFiniteSet(WeakHeldBy(o))
    BY <1>1, <1>2, NamesAreFinite, FS_Subset
<1>5. Q(o) \in Nat /\ \A op : W(op, o) \in Nat
    BY <1>3, AtIsFinite DEF W, Q
<1> QED BY <1>4, <1>5, FS_CardinalityType DEF N, H, WH, S

LEMMA OwnersAre ==
    ASSUME NEW o
    PROVE  /\ Owners(o) = N(o) + H(o) + Q(o) + S(o) + W("release", o)
           /\ Owners(o)' = N(o)' + H(o)' + Q(o)' + S(o)' + W("release", o)'
           /\ WeakOwners(o) = WH(o) + W("weak_release", o)
           /\ WeakOwners(o)' = WH(o)' + W("weak_release", o)'
BY DEF Owners, WeakOwners, QueuedAt, Waiting, Count, At, W, N, H, WH, Q, S

LEMMA HoldsIs ==
    ASSUME NEW op, NEW p
    PROVE  /\ calls \in Seq(Op) => (Holds(p, op) <=> heap[p].rc > 0 \/ W(op, p) # 0)
           /\ calls' \in Seq(Op) => (Holds(p, op)' <=> heap'[p].rc > 0 \/ W(op, p)' # 0)
<1>1. \A s \in Seq(Op) : Count(s, C(op, p)) = 0 <=> \A i \in DOMAIN s : s[i] # C(op, p)
    BY CountZero
<1>2. calls \in Seq(Op) => (Waiting(op, p) = {} <=> W(op, p) = 0)
    BY <1>1 DEF Waiting, W
<1>3. calls' \in Seq(Op) => (Waiting(op, p)' = {} <=> W(op, p)' = 0)
    BY <1>1 DEF Waiting, W
<1> QED BY <1>2, <1>3 DEF Holds

\* What owns an object keeps its strong count above zero, and its weak owners
\* its second count.
LEMMA OwnedLives ==
    ASSUME HInv, NEW o \in Made
    PROVE  /\ NamedBy(o) # {} \/ HeldBy(o) # {} \/ Q(o) # 0 \/ self = o \/ W("release", o) # 0
                => heap[o].rc > 0
           /\ WeakHeldBy(o) # {} \/ W("weak_release", o) # 0 => heap[o].wc > 0
<1>1. N(o) \in Nat /\ H(o) \in Nat /\ Q(o) \in Nat /\ S(o) \in {0, 1} /\ WH(o) \in Nat
      /\ W("release", o) \in Nat /\ W("weak_release", o) \in Nat
    BY PartsAreNat DEF HInv
<1>2. (NamedBy(o) # {} => N(o) # 0) /\ (HeldBy(o) # {} => H(o) # 0) /\ (WeakHeldBy(o) # {} => WH(o) # 0)
    BY PartsAreNat, FS_EmptySet DEF HInv, N, H, WH
<1>3. heap[o].rc = N(o) + H(o) + Q(o) + S(o) + W("release", o) /\ heap[o].wc = WH(o) + W("weak_release", o)
    BY OwnersAre DEF HInv, StrongCountIsOwners, WeakCountIsOwners
<1>4. N(o) # 0 \/ H(o) # 0 \/ Q(o) # 0 \/ S(o) # 0 \/ W("release", o) # 0 => heap[o].rc > 0
    BY <1>1, <1>3
<1>5. WH(o) # 0 \/ W("weak_release", o) # 0 => heap[o].wc > 0
    BY <1>1, <1>3
<1> QED BY <1>2, <1>4, <1>5 DEF S
--------------------------------------------------------------------------------
(* How the C statements that wait change.                                  *)

LEMMA SameStatement ==
    \A a, b, p, q : C(a, p) = C(b, q) <=> a = b /\ p = q
BY DEF C

LEMMA HeadIs ==
    ASSUME HeapTypes, calls # <<>>
    PROVE  /\ Head(calls) = C(Head(calls).op, Head(calls).obj) /\ Head(calls) \in Op
           /\ Tail(calls) \in Seq(Op) /\ calls \in Seq(Op)
<1>1. calls \in Seq(Op) /\ Head(calls) \in Op /\ Tail(calls) \in Seq(Op)
    BY DEF HeapTypes, TypeOK
<1>2. \A d \in Op : d = C(d.op, d.obj)
    BY DEF Op, C
<1> QED BY <1>1, <1>2

LEMMA WPop ==
    ASSUME HeapTypes, calls # <<>>, calls' = Tail(calls), NEW op, NEW o
    PROVE  W(op, o)' = W(op, o) - (IF Head(calls) = C(op, o) THEN 1 ELSE 0)
<1>1. W(op, o) = W(op, o)' + (IF Head(calls) = C(op, o) THEN 1 ELSE 0)
    BY HeadIs, CountTail DEF W
<1>2. W(op, o)' \in Nat
    BY HeadIs, AtIsFinite DEF W
<1> QED BY <1>1, <1>2

LEMMA WSwap ==
    ASSUME HeapTypes, calls # <<>>, NEW d \in Op, calls' = <<d>> \o Tail(calls), NEW op, NEW o
    PROVE  W(op, o)' = W(op, o) - (IF Head(calls) = C(op, o) THEN 1 ELSE 0) + (IF d = C(op, o) THEN 1 ELSE 0)
<1>1. W(op, o) = Count(Tail(calls), C(op, o)) + (IF Head(calls) = C(op, o) THEN 1 ELSE 0)
    BY HeadIs, CountTail DEF W
<1>2. W(op, o)' = Count(Tail(calls), C(op, o)) + (IF d = C(op, o) THEN 1 ELSE 0)
    BY HeadIs, CountPrepend DEF W
<1>3. Count(Tail(calls), C(op, o)) \in Nat
    BY HeadIs, AtIsFinite
<1> QED BY <1>1, <1>2, <1>3

LEMMA WFields ==
    ASSUME HeapTypes, calls # <<>>, NEW p \in Obj, calls' = FieldReleases(p) \o Tail(calls), NEW op, NEW o
    PROVE  W(op, o)' = W(op, o) - (IF Head(calls) = C(op, o) THEN 1 ELSE 0)
                       + (IF o = p /\ op \in FieldOps \union {"weak_release"} THEN 1 ELSE 0)
<1> DEFINE rest == Tail(calls)
           a == C("release_strong_of", p)
           b == C("weak_release_of", p)
           d == WeakRelease(p)
           r3 == <<d>> \o rest
           r2 == <<b>> \o r3
<1>1. a \in Op /\ b \in Op /\ d \in Op /\ rest \in Seq(Op)
    BY HeadIs DEF Op, C, WeakRelease, Pointer
<1>2. calls' = <<a>> \o r2 /\ r2 \in Seq(Op) /\ r3 \in Seq(Op)
    BY <1>1 DEF FieldReleases
<1> HIDE DEF a, b, d
<1>3. W(op, o) = Count(rest, C(op, o)) + (IF Head(calls) = C(op, o) THEN 1 ELSE 0)
    BY HeadIs, CountTail DEF W
<1>4. Count(rest, C(op, o)) \in Nat
    BY HeadIs, AtIsFinite
<1> DEFINE counts(t, x) == Count(<<x>> \o t, C(op, o)) = Count(t, C(op, o)) + (IF x = C(op, o) THEN 1 ELSE 0)
<1>0. \A t \in Seq(Op), x \in Op : counts(t, x)
    BY CountPrepend
<1>5. Count(r3, C(op, o)) = Count(rest, C(op, o)) + (IF d = C(op, o) THEN 1 ELSE 0)
    BY <1>0, <1>1
<1>6. Count(r2, C(op, o)) = Count(r3, C(op, o)) + (IF b = C(op, o) THEN 1 ELSE 0)
    BY <1>0, <1>1, <1>2
<1>7. W(op, o)' = Count(r2, C(op, o)) + (IF a = C(op, o) THEN 1 ELSE 0)
    BY <1>0, <1>1, <1>2 DEF W
<1>8. /\ a = C(op, o) <=> op = "release_strong_of" /\ o = p
      /\ b = C(op, o) <=> op = "weak_release_of" /\ o = p
      /\ d = C(op, o) <=> op = "weak_release" /\ o = p
    BY SameStatement DEF a, b, d, WeakRelease
<1> HIDE DEF rest, r2, r3
<1> QED BY <1>3, <1>4, <1>5, <1>6, <1>7, <1>8 DEF FieldOps

LEMMA WOwes ==
    ASSUME HeapTypes, calls = <<>>, NEW d \in Op, calls' = <<d>>, NEW op, NEW o
    PROVE  W(op, o) = 0 /\ W(op, o)' = IF d = C(op, o) THEN 1 ELSE 0
<1>1. <<>> \in Seq(Op) /\ <<d>> = <<d>> \o <<>>
    OBVIOUS
<1>2. Count(<<d>> \o <<>>, C(op, o)) = Count(<<>>, C(op, o)) + IF d = C(op, o) THEN 1 ELSE 0
    BY <1>1, CountPrepend
<1> QED BY <1>1, <1>2, CountNothing DEF W

LEMMA GuardedTail ==
    ASSUME NEW s \in Seq(Op), s # <<>>, Guarded(s)
    PROVE  Guarded(Tail(s))
<1> SUFFICES ASSUME NEW i \in DOMAIN Tail(s), Tail(s)[i].op \in FieldOps
             PROVE  \E j \in DOMAIN Tail(s) : j > i /\ Tail(s)[j] = WeakRelease(Tail(s)[i].obj)
    BY DEF Guarded
<1>1. i \in 1 .. Len(s) - 1 /\ i + 1 \in DOMAIN s /\ Tail(s)[i] = s[i + 1]
    OBVIOUS
<1>2. PICK j \in DOMAIN s : j > i + 1 /\ s[j] = WeakRelease(s[i + 1].obj)
    BY <1>1 DEF Guarded
<1>3. j - 1 \in DOMAIN Tail(s) /\ Tail(s)[j - 1] = s[j] /\ j - 1 > i
    BY <1>1, <1>2
<1> QED BY <1>1, <1>2, <1>3

\* In front of a guarded sequence may come any statement that lets no field
\* go, and a field's when the object's own weak reference waits behind it.
LEMMA GuardedPrepend ==
    ASSUME NEW s \in Seq(Op), Guarded(s), NEW d \in Op,
           d.op \in FieldOps => \E j \in DOMAIN s : s[j] = WeakRelease(d.obj)
    PROVE  Guarded(<<d>> \o s)
<1> DEFINE t == <<d>> \o s
<1>1. t \in Seq(Op) /\ Len(t) = Len(s) + 1 /\ t[1] = d /\ \A i \in 1 .. Len(s) : t[i + 1] = s[i]
    OBVIOUS
<1> HIDE DEF t
<1>2. ASSUME NEW i \in DOMAIN t, t[i].op \in FieldOps
      PROVE  \E j \in DOMAIN t : j > i /\ t[j] = WeakRelease(t[i].obj)
    <2>1. CASE i = 1
        <3>1. PICK j \in DOMAIN s : s[j] = WeakRelease(d.obj)
            BY <1>1, <1>2, <2>1
        <3>2. j + 1 \in DOMAIN t /\ t[j + 1] = s[j] /\ j + 1 > i
            BY <1>1, <2>1, <3>1
        <3> QED BY <1>1, <2>1, <3>1, <3>2
    <2>2. CASE i # 1
        <3>1. i - 1 \in DOMAIN s /\ t[i] = s[i - 1]
            BY <1>1, <2>2
        <3>2. PICK j \in DOMAIN s : j > i - 1 /\ s[j] = WeakRelease(s[i - 1].obj)
            BY <1>2, <3>1 DEF Guarded
        <3>3. j \in 1 .. Len(s) /\ Len(s) \in Nat /\ DOMAIN t = 1 .. Len(t) /\ i \in Nat
            BY <1>1, <1>2, <3>2
        <3>4. j + 1 \in DOMAIN t /\ t[j + 1] = s[j] /\ j + 1 > i
            BY <1>1, <3>2, <3>3
        <3> QED BY <3>1, <3>2, <3>4
    <2> QED BY <2>1, <2>2
<1> QED BY <1>2 DEF Guarded, t

LEMMA GuardedFields ==
    ASSUME NEW s \in Seq(Op), Guarded(s), NEW p \in Obj
    PROVE  Guarded(FieldReleases(p) \o s) /\ FieldReleases(p) \o s \in Seq(Op)
<1> DEFINE a == C("release_strong_of", p)
           b == C("weak_release_of", p)
           d == WeakRelease(p)
           r3 == <<d>> \o s
           r2 == <<b>> \o r3
<1>1. a \in Op /\ b \in Op /\ d \in Op /\ a.obj = p /\ b.obj = p /\ d.op \notin FieldOps
    BY DEF Op, C, WeakRelease, Pointer, FieldOps
<1>2. FieldReleases(p) \o s = <<a>> \o r2 /\ r2 \in Seq(Op) /\ r3 \in Seq(Op)
    BY <1>1 DEF FieldReleases
<1>3. r3[1] = WeakRelease(p) /\ 1 \in DOMAIN r3 /\ r2[2] = WeakRelease(p) /\ 2 \in DOMAIN r2
    BY <1>1
<1> HIDE DEF a, b, d
<1>4. Guarded(r3)
    BY <1>1, GuardedPrepend
<1> HIDE DEF r3
<1>5. Guarded(r2)
    BY <1>1, <1>2, <1>3, <1>4, GuardedPrepend
<1> HIDE DEF r2
<1>6. Guarded(<<a>> \o r2)
    BY <1>1, <1>2, <1>3, <1>5, GuardedPrepend
<1> QED BY <1>1, <1>2, <1>6
--------------------------------------------------------------------------------
(* How the owners change.                                                  *)

LEMMA DifferInOne ==
    ASSUME NEW A, IsFiniteSet(A), NEW B, NEW x, \A y : y # x => (y \in B <=> y \in A)
    PROVE  /\ IsFiniteSet(B)
           /\ Cardinality(B) = Cardinality(A) - (IF x \in A THEN 1 ELSE 0) + (IF x \in B THEN 1 ELSE 0)
<1>1. IsFiniteSet(A \cup {x}) /\ B \in SUBSET (A \cup {x})
    BY FS_AddElement
<1>2. IsFiniteSet(B) /\ Cardinality(A) \in Nat /\ Cardinality(B) \in Nat
    BY <1>1, FS_Subset, FS_CardinalityType
<1>3. CASE x \in A <=> x \in B
    <2>1. A = B
        BY <1>3
    <2> QED BY <1>2, <1>3, <2>1
<1>4. CASE x \in A /\ x \notin B
    <2>1. A = B \cup {x}
        BY <1>4
    <2>2. Cardinality(B \cup {x}) = Cardinality(B) + 1
        BY <1>2, <1>4, FS_AddElement
    <2> QED BY <1>2, <1>4, <2>1, <2>2
<1>5. CASE x \notin A /\ x \in B
    <2>1. B = A \cup {x}
        BY <1>5
    <2>2. Cardinality(A \cup {x}) = Cardinality(A) + 1
        BY <1>5, FS_AddElement
    <2> QED BY <1>2, <1>5, <2>1, <2>2
<1> QED BY <1>3, <1>4, <1>5

\* The object holds in its fields what it held.
StrongSame(p) == /\ heap'[p].strong = heap[p].strong
                 /\ Holds(p, "release_strong_of")' <=> Holds(p, "release_strong_of")
WeakSame(p) == /\ heap'[p].weak = heap[p].weak
               /\ Holds(p, "weak_release_of")' <=> Holds(p, "weak_release_of")
MadeSame(p) == heap'[p].mem = "unmade" <=> heap[p].mem = "unmade"

LEMMA MadeStays ==
    ASSUME \A p \in Obj : MadeSame(p)
    PROVE  Made' = Made
BY DEF Made, MadeSame

LEMMA HeldStays ==
    ASSUME HeapTypes, Made' = Made, NEW p, NEW o, \A q \in Made \ {p} : StrongSame(q)
    PROVE  H(o)' = H(o) - (IF p \in HeldBy(o) THEN 1 ELSE 0) + (IF p \in HeldBy(o)' THEN 1 ELSE 0)
<1>1. \A q : q # p => (q \in HeldBy(o)' <=> q \in HeldBy(o))
    BY DEF HeldBy, StrongSame
<1> QED BY <1>1, PartsAreNat, DifferInOne DEF H

LEMMA WeakHeldStays ==
    ASSUME HeapTypes, Made' = Made, NEW p, NEW o, \A q \in Made \ {p} : WeakSame(q)
    PROVE  WH(o)' = WH(o) - (IF p \in WeakHeldBy(o) THEN 1 ELSE 0) + (IF p \in WeakHeldBy(o)' THEN 1 ELSE 0)
<1>1. \A q : q # p => (q \in WeakHeldBy(o)' <=> q \in WeakHeldBy(o))
    BY DEF WeakHeldBy, WeakSame
<1> QED BY <1>1, PartsAreNat, DifferInOne DEF WH

LEMMA Frame ==
    ASSUME NEW o
    PROVE  /\ name' = name => N(o)' = N(o)
           /\ queue' = queue => Q(o)' = Q(o)
           /\ self' = self => S(o)' = S(o)
           /\ Made' = Made /\ (\A q \in Made : StrongSame(q)) => H(o)' = H(o)
           /\ Made' = Made /\ (\A q \in Made : WeakSame(q)) => WH(o)' = WH(o)
<1>1. (name' = name => N(o)' = N(o)) /\ (queue' = queue => Q(o)' = Q(o)) /\ (self' = self => S(o)' = S(o))
    BY DEF N, NamedBy, Q, S
<1>2. Made' = Made /\ (\A q \in Made : StrongSame(q)) => HeldBy(o)' = HeldBy(o)
    BY DEF HeldBy, StrongSame
<1>3. Made' = Made /\ (\A q \in Made : WeakSame(q)) => WeakHeldBy(o)' = WeakHeldBy(o)
    BY DEF WeakHeldBy, WeakSame
<1> QED BY <1>1, <1>2, <1>3 DEF H, WH
--------------------------------------------------------------------------------
(* Statements of the C stack, one lemma each.                              *)

LEMMA HeapFacts ==
    ASSUME HInv
    PROVE  /\ heap \in [Obj -> HeapRecord] /\ name \in [Name -> Pointer]
           /\ calls \in Seq(Op) /\ queue \in Seq(Obj) /\ self \in Pointer /\ sweeping \in BOOLEAN
           /\ HeapTypes /\ Made \in SUBSET Obj /\ Null \notin Obj
           /\ \A p \in Made : heap[p].rc \in Nat /\ heap[p].wc \in Nat
BY HeapAssumption DEF HInv, HeapTypes, TypeOK, HeapRecord, Made

\* The object the next C statement is for, if there is one.
LEMMA NextIs ==
    ASSUME HInv, calls # <<>>, Head(calls).obj # Null
    PROVE  /\ Head(calls).obj \in Made
           /\ W(Head(calls).op, Head(calls).obj) # 0
           /\ Head(calls) \in Op
<1> DEFINE d == Head(calls)
<1>1. calls \in Seq(Op) /\ d \in Op /\ 1 \in DOMAIN calls /\ calls[1] = d /\ d = C(d.op, d.obj)
    BY HeapFacts, HeadIs
<1>2. d.obj \in Made
    BY <1>1 DEF HInv, Closed, Known
<1>3. W(d.op, d.obj) # 0
    BY <1>1, CountZero DEF W
<1> QED BY <1>1, <1>2, <1>3

LEMMA NullPops ==
    ASSUME HInv, calls # <<>>, Head(calls).obj = Null, calls' = Tail(calls),
           UNCHANGED <<heap, queue, name, self, sweeping>>
    PROVE  HInv'
<1>1. Made' = Made /\ Null \notin Obj /\ calls' \in Seq(Op)
    BY HeapFacts, HeadIs DEF Made
<1>2. \A o \in Obj : \A op : W(op, o)' = W(op, o)
    <2>1. \A o \in Obj : \A op : Head(calls) # C(op, o)
        BY <1>1 DEF C
    <2>2. \A o \in Obj : \A op : W(op, o) \in Nat
        BY HeapFacts, PartsAreNat
    <2> QED BY <2>1, <2>2, HeapFacts, WPop
<1>3. HeapTypes'
    BY <1>1 DEF HInv, HeapTypes, TypeOK
<1>4. \A o \in Made : StrongSame(o) /\ WeakSame(o)
    BY <1>1, <1>2, HeapFacts, HoldsIs DEF StrongSame, WeakSame
<1>5. \A o \in Made : Owners(o)' = Owners(o) /\ WeakOwners(o)' = WeakOwners(o)
    BY <1>1, <1>2, <1>4, Frame, OwnersAre, HeapFacts
<1>6. Closed'
    BY <1>1, HeapFacts DEF HInv, Closed, Known
<1>7. Guarded(calls)'
    BY HeapFacts, GuardedTail DEF HInv
<1> QED BY <1>1, <1>2, <1>3, <1>5, <1>6, <1>7
       DEF HInv, Spotless, FieldsOnce, FreedIsDead, StrongCountIsOwners, WeakCountIsOwners

LEMMA RecordsStay ==
    ASSUME NEW r \in HeapRecord, NEW n \in Nat
    PROVE  /\ [r EXCEPT !.rc = n] \in HeapRecord
           /\ [r EXCEPT !.wc = n] \in HeapRecord
           /\ [r EXCEPT !.kdropped = TRUE] \in HeapRecord
           /\ [r EXCEPT !.mem = "freed"] \in HeapRecord
           /\ \A v \in Pointer : [r EXCEPT !.strong = v] \in HeapRecord /\ [r EXCEPT !.weak = v] \in HeapRecord
           /\ r.rc \in Nat /\ r.wc \in Nat /\ r.kdropped \in BOOLEAN
           /\ r.strong \in Pointer /\ r.weak \in Pointer
BY DEF HeapRecord

LEMMA ReleaseDrops ==
    ASSUME HInv, calls # <<>>, NEW p, p # Null, Head(calls) = Release(p),
           heap[p].rc > 1, ExecRelease(p, Tail(calls)), UNCHANGED <<name, self, sweeping>>
    PROVE  HInv'
<1>1. p \in Made /\ W("release", p) # 0 /\ p \in Obj
    BY NextIs, HeapFacts DEF Release, C
<1>2. heap' = [heap EXCEPT ![p].rc = @ - 1] /\ calls' = Tail(calls) /\ queue' = queue
    BY DEF ExecRelease
<1>3. heap'[p] = [heap[p] EXCEPT !.rc = heap[p].rc - 1] /\ \A o \in Obj : o # p => heap'[o] = heap[o]
    BY <1>1, <1>2, HeapFacts
<1>4. heap' \in [Obj -> HeapRecord]
    <2>1. heap[p] \in HeapRecord /\ heap[p].rc - 1 \in Nat
        BY <1>1, HeapFacts
    <2>2. [heap[p] EXCEPT !.rc = heap[p].rc - 1] \in HeapRecord
        BY <2>1, RecordsStay
    <2> QED BY <1>1, <1>2, <2>2, HeapFacts
<1>5. /\ heap'[p].rc = heap[p].rc - 1 /\ heap'[p].wc = heap[p].wc /\ heap'[p].mem = heap[p].mem
      /\ heap'[p].strong = heap[p].strong /\ heap'[p].weak = heap[p].weak
    BY <1>1, <1>3, HeapFacts DEF HeapRecord
<1>6. Made' = Made /\ Made \in SUBSET Obj
    BY <1>3, <1>5, MadeStays, HeapFacts DEF MadeSame
<1>7. HeapTypes'
    BY <1>2, <1>4, <1>6, HeapFacts, HeadIs DEF HeapTypes, TypeOK, HeapRecord
<1>8. \A op, o : W(op, o)' = W(op, o) - (IF op = "release" /\ o = p THEN 1 ELSE 0)
    <2>1. \A op, o : Head(calls) = C(op, o) <=> op = "release" /\ o = p
        BY SameStatement DEF Release
    <2> QED BY <1>2, <2>1, HeapFacts, WPop
<1>0. \A op, o : W(op, o) \in Nat
    BY HeapFacts, PartsAreNat
<1>9. \A op, o : op # "release" \/ o # p => W(op, o)' = W(op, o)
    BY <1>0, <1>8
<1>10. \A o \in Made : StrongSame(o) /\ WeakSame(o)
    BY <1>1, <1>2, <1>3, <1>5, <1>9, HeapFacts, HeadIs, HoldsIs DEF StrongSame, WeakSame, FieldOps
<1>11. \A o : /\ N(o)' = N(o) /\ H(o)' = H(o) /\ Q(o)' = Q(o) /\ S(o)' = S(o) /\ WH(o)' = WH(o)
              /\ N(o) \in Nat /\ H(o) \in Nat /\ Q(o) \in Nat /\ S(o) \in Nat /\ WH(o) \in Nat
              /\ W("release", o) \in Nat
    BY <1>2, <1>6, <1>10, Frame, PartsAreNat, HeapFacts
<1>12. StrongCountIsOwners'
    <2>1. Owners(p)' = Owners(p) - 1 /\ \A o \in Made \ {p} : Owners(o)' = Owners(o)
        BY <1>0, <1>8, <1>9, <1>11, OwnersAre
    <2> QED BY <1>1, <1>3, <1>5, <1>6, <2>1 DEF HInv, StrongCountIsOwners
<1>13. WeakCountIsOwners'
    <2>1. \A o : WeakOwners(o)' = WeakOwners(o)
        BY <1>9, <1>11, OwnersAre
    <2> QED BY <1>1, <1>3, <1>5, <1>6, <2>1 DEF HInv, WeakCountIsOwners
<1>14. Closed'
    BY <1>2, <1>3, <1>5, <1>6, HeapFacts DEF HInv, Closed, Known
<1>15. FieldsOnce' /\ Guarded(calls)'
    BY <1>1, <1>2, <1>3, <1>5, <1>9, HeapFacts, GuardedTail DEF HInv, FieldsOnce
<1>16. Spotless'
    BY <1>1, <1>3, <1>6 DEF HInv, Spotless
<1>17. FreedIsDead'
    <2>1. heap[p].mem # "freed" /\ heap'[p].mem # "freed"
        BY <1>1, <1>5, HeapFacts DEF HInv, FreedIsDead
    <2>2. \A o \in Made : heap'[o].mem = "freed" => heap'[o] = heap[o]
        BY <1>3, <1>6, <2>1
    <2> QED BY <1>6, <2>2 DEF HInv, FreedIsDead
<1> QED BY <1>7, <1>12, <1>13, <1>14, <1>15, <1>16, <1>17 DEF HInv

LEMMA ReleaseQueues ==
    ASSUME HInv, calls # <<>>, NEW p, p # Null, Head(calls) = Release(p),
           ~(heap[p].rc > 1), QueuesDeinit(p), ExecRelease(p, Tail(calls)), UNCHANGED <<name, self, sweeping>>
    PROVE  HInv'
<1>1. p \in Made /\ W("release", p) # 0 /\ p \in Obj
    BY NextIs, HeapFacts DEF Release, C
<1>2. heap' = [heap EXCEPT ![p].kdropped = TRUE, ![p].rc = 1] /\ calls' = Tail(calls) /\ queue' = Append(queue, p)
    BY DEF ExecRelease, Resurrected
<1>3. /\ heap'[p] = [[heap[p] EXCEPT !.kdropped = TRUE] EXCEPT !.rc = 1]
      /\ \A o \in Obj : o # p => heap'[o] = heap[o]
    BY <1>1, <1>2, HeapFacts
<1>4. heap' \in [Obj -> HeapRecord]
    <2>1. heap[p] \in HeapRecord /\ 1 \in Nat
        BY <1>1, HeapFacts
    <2>2. [heap[p] EXCEPT !.kdropped = TRUE] \in HeapRecord
        BY <2>1, RecordsStay
    <2>3. heap'[p] \in HeapRecord
        BY <1>3, <2>1, <2>2, RecordsStay
    <2> QED BY <1>1, <1>2, <1>3, <2>3, HeapFacts
<1>5. heap[p].rc = 1
    BY <1>1, OwnedLives, HeapFacts
<1>6. /\ heap'[p].rc = heap[p].rc /\ heap'[p].wc = heap[p].wc /\ heap'[p].mem = heap[p].mem
      /\ heap'[p].strong = heap[p].strong /\ heap'[p].weak = heap[p].weak
    BY <1>1, <1>3, <1>5, HeapFacts DEF HeapRecord
<1>7. Made' = Made /\ Made \in SUBSET Obj
    BY <1>3, <1>6, MadeStays, HeapFacts DEF MadeSame
<1>8. HeapTypes'
    <2>1. queue' \in Seq(Obj) /\ calls' \in Seq(Op)
        BY <1>1, <1>2, HeapFacts, HeadIs
    <2> QED BY <1>4, <1>7, <2>1, HeapFacts DEF HeapTypes, TypeOK, HeapRecord
<1>9. \A op, o : W(op, o) \in Nat /\ W(op, o)' = W(op, o) - (IF op = "release" /\ o = p THEN 1 ELSE 0)
    <2>1. \A op, o : Head(calls) = C(op, o) <=> op = "release" /\ o = p
        BY SameStatement DEF Release
    <2> QED BY <1>2, <2>1, HeapFacts, WPop, PartsAreNat
<1>10. \A op, o : op # "release" \/ o # p => W(op, o)' = W(op, o)
    BY <1>9
<1>11. \A o \in Made : StrongSame(o) /\ WeakSame(o)
    BY <1>1, <1>2, <1>3, <1>6, <1>7, <1>10, HeapFacts, HeadIs, HoldsIs DEF StrongSame, WeakSame
<1>12. \A o : /\ N(o)' = N(o) /\ H(o)' = H(o) /\ S(o)' = S(o) /\ WH(o)' = WH(o)
              /\ Q(o)' = Q(o) + (IF o = p THEN 1 ELSE 0)
              /\ N(o) \in Nat /\ H(o) \in Nat /\ Q(o) \in Nat /\ S(o) \in Nat /\ WH(o) \in Nat
    <2>1. \A o : Q(o)' = Q(o) + (IF o = p THEN 1 ELSE 0)
        BY <1>1, <1>2, HeapFacts, CountAppend DEF Q
    <2> QED BY <1>7, <1>11, <2>1, Frame, PartsAreNat, HeapFacts
<1>13. \A o : Owners(o)' = Owners(o) /\ WeakOwners(o)' = WeakOwners(o)
    <2>1. \A o : Owners(o)' = Owners(o)
        BY SMTT(30), <1>9, <1>12, OwnersAre
    <2>2. \A o : WeakOwners(o)' = WeakOwners(o)
        BY <1>10, <1>12, OwnersAre
    <2> QED BY <2>1, <2>2
<1>14. StrongCountIsOwners' /\ WeakCountIsOwners'
    BY <1>3, <1>6, <1>7, <1>13 DEF HInv, StrongCountIsOwners, WeakCountIsOwners
<1>15. Closed'
    <2>1. \A i \in DOMAIN queue' : queue'[i] \in Made
        BY <1>1, <1>2, HeapFacts DEF HInv, Closed
    <2>2. \A i \in DOMAIN calls' : calls'[i].obj \in Known
        BY <1>2, HeapFacts DEF HInv, Closed
    <2> QED BY <1>3, <1>6, <1>7, <2>1, <2>2 DEF HInv, Closed, Known
<1>16. FieldsOnce' /\ Guarded(calls)'
    <2>1. \A op \in FieldOps : \A o : W(op, o)' = W(op, o)
        BY <1>10 DEF FieldOps
    <2> QED BY <1>2, <1>3, <1>6, <2>1, HeapFacts, GuardedTail DEF HInv, FieldsOnce
<1>17. Spotless' /\ FreedIsDead'
    <2>1. heap[p].mem # "freed" /\ heap'[p].mem # "freed"
        BY <1>1, <1>5, <1>6 DEF HInv, FreedIsDead
    <2>2. \A o \in Made : heap'[o].mem = "freed" => heap'[o] = heap[o]
        BY <1>3, <1>7, <2>1
    <2> QED BY <1>1, <1>3, <1>7, <2>2 DEF HInv, Spotless, FreedIsDead
<1> QED BY <1>8, <1>14, <1>15, <1>16, <1>17 DEF HInv

LEMMA ReleaseDies ==
    ASSUME HInv, calls # <<>>, NEW p, p # Null, Head(calls) = Release(p),
           ~(heap[p].rc > 1), ~QueuesDeinit(p), ExecRelease(p, Tail(calls)), UNCHANGED <<name, self, sweeping>>
    PROVE  HInv'
<1>1. p \in Made /\ W("release", p) # 0 /\ p \in Obj
    BY NextIs, HeapFacts DEF Release, C
<1>2. /\ heap' = [heap EXCEPT ![p].rc = 0, ![p].wc = @ + 1]
      /\ calls' = FieldReleases(p) \o Tail(calls) /\ queue' = queue
    BY DEF ExecRelease, SelfGuard
<1>3. /\ heap'[p] = [[heap[p] EXCEPT !.rc = 0] EXCEPT !.wc = heap[p].wc + 1]
      /\ \A o \in Obj : o # p => heap'[o] = heap[o]
    BY <1>1, <1>2, HeapFacts DEF HeapRecord
<1>4. heap' \in [Obj -> HeapRecord]
    <2>1. heap[p] \in HeapRecord /\ 0 \in Nat /\ heap[p].wc + 1 \in Nat
        BY <1>1, HeapFacts
    <2>2. [heap[p] EXCEPT !.rc = 0] \in HeapRecord
        BY <2>1, RecordsStay
    <2>3. heap'[p] \in HeapRecord
        BY <1>3, <2>1, <2>2, RecordsStay
    <2> QED BY <1>1, <1>2, <1>3, <2>3, HeapFacts
<1>5. heap[p].rc = 1
    BY <1>1, OwnedLives, HeapFacts
<1>6. /\ heap'[p].rc = 0 /\ heap'[p].wc = heap[p].wc + 1 /\ heap'[p].mem = heap[p].mem
      /\ heap'[p].strong = heap[p].strong /\ heap'[p].weak = heap[p].weak
    BY <1>1, <1>3, HeapFacts DEF HeapRecord
<1>7. Made' = Made /\ Made \in SUBSET Obj
    BY <1>3, <1>6, MadeStays, HeapFacts DEF MadeSame
<1>8. Guarded(calls)' /\ calls' \in Seq(Op)
    BY <1>1, <1>2, HeapFacts, HeadIs, GuardedTail, GuardedFields DEF HInv
<1>9. HeapTypes'
    BY <1>2, <1>4, <1>7, <1>8, HeapFacts DEF HeapTypes, TypeOK, HeapRecord
<1>10. /\ W("release", p)' = W("release", p) - 1 /\ \A o : o # p => W("release", o)' = W("release", o)
       /\ \A op \in FieldOps \union {"weak_release"} :
             W(op, p)' = W(op, p) + 1 /\ \A o : o # p => W(op, o)' = W(op, o)
       /\ \A op, o : W(op, o) \in Nat
    <2>1. \A op, o : Head(calls) = C(op, o) <=> op = "release" /\ o = p
        BY SameStatement DEF Release
    <2>2. \A op, o : W(op, o) \in Nat
        BY HeapFacts, PartsAreNat
    <2>3. \A op, o : W(op, o)' = W(op, o) - (IF op = "release" /\ o = p THEN 1 ELSE 0)
                       + (IF o = p /\ op \in FieldOps \union {"weak_release"} THEN 1 ELSE 0)
        BY <1>1, <1>2, <2>1, HeapFacts, WFields
    <2>4. "release" \notin FieldOps \union {"weak_release"}
        BY DEF FieldOps
    <2> QED BY <2>2, <2>3, <2>4
<1>11. \A op \in FieldOps : W(op, p) = 0 /\ W(op, p)' = 1
    BY <1>1, <1>5, <1>10 DEF HInv, FieldsOnce
<1>12. \A o \in Made : StrongSame(o) /\ WeakSame(o)
    <2>1. \A o \in Made, op \in FieldOps : Holds(o, op)' <=> Holds(o, op)
        <3>1. \A op \in FieldOps : Holds(p, op) /\ Holds(p, op)'
            BY <1>5, <1>8, <1>11, HeapFacts, HoldsIs
        <3>2. \A o \in Made \ {p}, op \in FieldOps : Holds(o, op)' <=> Holds(o, op)
            BY <1>3, <1>7, <1>8, <1>10, HeapFacts, HoldsIs
        <3> QED BY <3>1, <3>2
    <2> QED BY <1>3, <1>6, <1>7, <2>1 DEF StrongSame, WeakSame, FieldOps
<1>13. \A o : /\ N(o)' = N(o) /\ H(o)' = H(o) /\ Q(o)' = Q(o) /\ S(o)' = S(o) /\ WH(o)' = WH(o)
              /\ N(o) \in Nat /\ H(o) \in Nat /\ Q(o) \in Nat /\ S(o) \in Nat /\ WH(o) \in Nat
    BY <1>2, <1>7, <1>12, Frame, PartsAreNat, HeapFacts
<1>14. StrongCountIsOwners'
    <2>0. W("release", p) \in Nat /\ W("release", p)' = W("release", p) - 1
        BY <1>10
    <2>1. Owners(p)' = Owners(p) - 1
        BY SMTT(30), <1>13, <2>0, OwnersAre
    <2>2. \A o : o # p => Owners(o)' = Owners(o)
        BY <1>10, <1>13, OwnersAre
    <2>3. heap[p].rc = Owners(p)
        BY <1>1 DEF HInv, StrongCountIsOwners
    <2>4. heap'[p].rc = Owners(p)'
        BY <1>5, <1>6, <2>1, <2>3
    <2> QED BY <1>3, <1>7, <2>2, <2>4 DEF HInv, StrongCountIsOwners
<1>15. WeakCountIsOwners'
    <2>1. WeakOwners(p)' = WeakOwners(p) + 1
        BY <1>10, <1>13, OwnersAre
    <2>2. \A o : o # p => WeakOwners(o)' = WeakOwners(o)
        BY <1>10, <1>13, OwnersAre
    <2> QED BY <1>1, <1>3, <1>6, <1>7, <2>1, <2>2 DEF HInv, WeakCountIsOwners
<1>16. Closed'
    <2>1. \A i \in DOMAIN calls' : calls'[i].obj \in Known
        <3>1. Tail(calls) \in Seq(Op) /\ \A i \in DOMAIN Tail(calls) : Tail(calls)[i].obj \in Known
            BY HeapFacts DEF HInv, Closed
        <3>2. FieldReleases(p) \in Seq(Op) /\ \A i \in DOMAIN FieldReleases(p) : FieldReleases(p)[i].obj = p
            BY <1>1 DEF FieldReleases, WeakRelease, C, Op, Pointer
        <3> QED BY <1>1, <1>2, <3>1, <3>2 DEF Known
    <2> QED BY <1>2, <1>3, <1>6, <1>7, <2>1 DEF HInv, Closed, Known
<1>17. FieldsOnce'
    <2>1. \A o \in Obj : o # p => \A op \in FieldOps : W(op, o)' \in {0, 1} /\ (W(op, o)' # 0 => heap'[o].rc = 0)
        BY <1>3, <1>10 DEF HInv, FieldsOnce
    <2> QED BY <1>6, <1>11, <2>1 DEF FieldsOnce
<1>18. Spotless' /\ FreedIsDead'
    <2>1. heap[p].mem # "freed" /\ heap'[p].mem # "freed"
        BY <1>1, <1>5, <1>6 DEF HInv, FreedIsDead
    <2>2. \A o \in Made : heap'[o].mem = "freed" => heap'[o] = heap[o]
        BY <1>3, <1>7, <2>1
    <2> QED BY <1>1, <1>3, <1>7, <2>2 DEF HInv, Spotless, FreedIsDead
<1> QED BY <1>8, <1>9, <1>14, <1>15, <1>16, <1>17, <1>18 DEF HInv

LEMMA WeakReleaseDrops ==
    ASSUME HInv, calls # <<>>, NEW p, p # Null, Head(calls) = WeakRelease(p),
           ExecWeakRelease(p, Tail(calls)), UNCHANGED <<name, self, sweeping>>
    PROVE  HInv'
<1> DEFINE m == IF heap[p].wc = 1 /\ heap[p].rc = 0 THEN "freed" ELSE heap[p].mem
<1>1. p \in Made /\ W("weak_release", p) # 0 /\ p \in Obj
    BY NextIs, HeapFacts DEF WeakRelease, C
<1>2. /\ heap' = [heap EXCEPT ![p].wc = @ - 1, ![p].mem = m]
      /\ calls' = Tail(calls) /\ queue' = queue
    BY <1>1, HeapFacts DEF ExecWeakRelease, HeapRecord
<1>3. /\ heap'[p] = [[heap[p] EXCEPT !.wc = heap[p].wc - 1] EXCEPT !.mem = m]
      /\ \A o \in Obj : o # p => heap'[o] = heap[o]
    BY <1>1, <1>2, HeapFacts DEF HeapRecord
<1>4. heap[p].wc > 0 /\ heap[p].mem # "unmade" /\ m # "unmade"
    BY <1>1, OwnedLives DEF Made
<1> HIDE DEF m
<1>5. heap' \in [Obj -> HeapRecord]
    <2>1. heap[p] \in HeapRecord /\ heap[p].wc - 1 \in Nat
        BY <1>1, <1>4, HeapFacts
    <2>2. m \in {"freed", heap[p].mem}
        BY DEF m
    <2>3. heap'[p] \in HeapRecord
        BY <1>3, <2>1, <2>2 DEF HeapRecord
    <2> QED BY <1>1, <1>2, <1>3, <2>3, HeapFacts
<1>6. /\ heap'[p].rc = heap[p].rc /\ heap'[p].wc = heap[p].wc - 1 /\ heap'[p].mem = m
      /\ heap'[p].strong = heap[p].strong /\ heap'[p].weak = heap[p].weak
    BY <1>1, <1>3, HeapFacts DEF HeapRecord
<1>7. Made' = Made /\ Made \in SUBSET Obj
    BY <1>3, <1>4, <1>6, MadeStays, HeapFacts DEF MadeSame
<1>8. HeapTypes'
    BY <1>2, <1>5, <1>7, HeapFacts, HeadIs DEF HeapTypes, TypeOK, HeapRecord
<1>9. \A op, o : W(op, o) \in Nat /\ W(op, o)' = W(op, o) - (IF op = "weak_release" /\ o = p THEN 1 ELSE 0)
    <2>1. \A op, o : Head(calls) = C(op, o) <=> op = "weak_release" /\ o = p
        BY SameStatement DEF WeakRelease
    <2> QED BY <1>2, <2>1, HeapFacts, WPop, PartsAreNat
<1>10. \A op, o : op # "weak_release" \/ o # p => W(op, o)' = W(op, o)
    BY <1>9
<1>11. \A o \in Made : StrongSame(o) /\ WeakSame(o)
    BY <1>1, <1>2, <1>3, <1>6, <1>7, <1>10, HeapFacts, HeadIs, HoldsIs DEF StrongSame, WeakSame
<1>12. \A o : /\ N(o)' = N(o) /\ H(o)' = H(o) /\ Q(o)' = Q(o) /\ S(o)' = S(o) /\ WH(o)' = WH(o)
              /\ N(o) \in Nat /\ H(o) \in Nat /\ Q(o) \in Nat /\ S(o) \in Nat /\ WH(o) \in Nat
    BY <1>2, <1>7, <1>11, Frame, PartsAreNat, HeapFacts
<1>13. StrongCountIsOwners'
    <2>1. \A o : Owners(o)' = Owners(o)
        BY <1>10, <1>12, OwnersAre
    <2> QED BY <1>3, <1>6, <1>7, <2>1 DEF HInv, StrongCountIsOwners
<1>14. WeakCountIsOwners'
    <2>0. W("weak_release", p) \in Nat /\ W("weak_release", p)' = W("weak_release", p) - 1
        BY <1>9
    <2>1. WeakOwners(p)' = WeakOwners(p) - 1
        BY <1>12, <2>0, OwnersAre
    <2>2. \A o : o # p => WeakOwners(o)' = WeakOwners(o)
        BY <1>10, <1>12, OwnersAre
    <2> QED BY <1>1, <1>3, <1>6, <1>7, <2>1, <2>2 DEF HInv, WeakCountIsOwners
<1>15. Closed'
    BY <1>2, <1>3, <1>6, <1>7, HeapFacts DEF HInv, Closed, Known
<1>16. FieldsOnce' /\ Guarded(calls)'
    <2>1. \A op \in FieldOps : \A o : W(op, o)' = W(op, o)
        BY <1>10 DEF FieldOps
    <2> QED BY <1>2, <1>3, <1>6, <2>1, HeapFacts, GuardedTail DEF HInv, FieldsOnce
<1>17. Spotless'
    BY <1>1, <1>3, <1>7 DEF HInv, Spotless
<1>18. FreedIsDead'
    <2>1. heap[p].mem # "freed"
        BY <1>1, <1>4 DEF HInv, FreedIsDead
    <2>2. heap'[p].mem = "freed" => heap'[p].rc = 0 /\ heap'[p].wc = 0
        BY <1>6, <2>1 DEF m
    <2> QED BY <1>3, <1>7, <2>2 DEF HInv, FreedIsDead
<1> QED BY <1>8, <1>13, <1>14, <1>15, <1>16, <1>17, <1>18 DEF HInv

\* The reference of a strong field becomes a release that is owed.
LEMMA StrongFieldGoes ==
    ASSUME HInv, calls # <<>>, NEW p, p # Null, Head(calls) = C("release_strong_of", p),
           calls' = <<Release(heap[p].strong)>> \o Tail(calls), UNCHANGED <<heap, queue, name, self, sweeping>>
    PROVE  HInv'
<1> DEFINE q == heap[p].strong
<1>1. p \in Made /\ W("release_strong_of", p) # 0 /\ p \in Obj
    BY NextIs, HeapFacts DEF C
<1>2. heap[p].rc = 0 /\ W("release_strong_of", p) = 1
    BY <1>1 DEF HInv, FieldsOnce, FieldOps
<1>3. q \in Known /\ Release(q) \in Op /\ Made' = Made /\ Made \in SUBSET Obj
    BY <1>1, HeapFacts DEF HInv, Closed, Made, Known, Release, C, Op, Pointer
<1> HIDE DEF q
<1>4. calls' = <<Release(q)>> \o Tail(calls) /\ q = heap[p].strong
    BY DEF q
<1>5. calls' \in Seq(Op) /\ Guarded(calls)'
    <2>1. Tail(calls) \in Seq(Op) /\ Guarded(Tail(calls)) /\ Release(q).op \notin FieldOps
        BY HeapFacts, HeadIs, GuardedTail DEF HInv, Release, C, FieldOps
    <2>2. \A t \in Seq(Op), d \in Op : Guarded(t) /\ d.op \notin FieldOps => Guarded(<<d>> \o t)
        BY GuardedPrepend
    <2>3. \A t \in Seq(Op), d \in Op : <<d>> \o t \in Seq(Op)
        OBVIOUS
    <2> QED BY <1>3, <1>4, <2>1, <2>2, <2>3
<1>6. HeapTypes'
    BY <1>3, <1>5, HeapFacts DEF HeapTypes, TypeOK
<1>7. \A op, o : W(op, o) \in Nat
        /\ W(op, o)' = W(op, o) - (IF op = "release_strong_of" /\ o = p THEN 1 ELSE 0)
                        + (IF op = "release" /\ o = q THEN 1 ELSE 0)
    <2>1. \A op, o : /\ Head(calls) = C(op, o) <=> op = "release_strong_of" /\ o = p
                     /\ Release(q) = C(op, o) <=> op = "release" /\ o = q
        BY SameStatement DEF Release
    <2>2. \A d \in Op : \A op, o : calls' = <<d>> \o Tail(calls) =>
              W(op, o)' = W(op, o) - (IF Head(calls) = C(op, o) THEN 1 ELSE 0) + (IF d = C(op, o) THEN 1 ELSE 0)
        BY SMTT(30), HeapFacts, WSwap
    <2>3. \A op, o : W(op, o) \in Nat
        BY HeapFacts, PartsAreNat
    <2> QED BY <1>3, <1>4, <2>1, <2>2, <2>3
<1>8. /\ W("release_strong_of", p)' = 0
      /\ \A o : o # p => W("release_strong_of", o)' = W("release_strong_of", o)
      /\ \A o : W("weak_release_of", o)' = W("weak_release_of", o)
      /\ \A o : W("weak_release", o)' = W("weak_release", o)
      /\ \A o : W("release", o) \in Nat /\ W("release", o)' = W("release", o) + (IF o = q THEN 1 ELSE 0)
    <2>1. W("release_strong_of", p)' = 0 /\ \A o : o # p => W("release_strong_of", o)' = W("release_strong_of", o)
        BY <1>2, <1>7
    <2>2. \A o : W("weak_release_of", o)' = W("weak_release_of", o) /\ W("weak_release", o)' = W("weak_release", o)
        BY <1>7
    <2>3. \A o : W("release", o) \in Nat /\ W("release", o)' = W("release", o) + (IF o = q THEN 1 ELSE 0)
        BY <1>7
    <2> QED BY <2>1, <2>2, <2>3
<1>9. (\A o \in Made \ {p} : StrongSame(o)) /\ \A o \in Made : WeakSame(o)
    BY <1>5, <1>8, HeapFacts, HoldsIs DEF StrongSame, WeakSame
<1>10. \A o : /\ N(o)' = N(o) /\ Q(o)' = Q(o) /\ S(o)' = S(o) /\ WH(o)' = WH(o)
              /\ N(o) \in Nat /\ H(o) \in Nat /\ Q(o) \in Nat /\ S(o) \in Nat /\ WH(o) \in Nat
    BY <1>3, <1>9, Frame, PartsAreNat, HeapFacts
<1>11. \A o : H(o)' = H(o) - (IF o = q THEN 1 ELSE 0)
    <2>1. \A o : p \in HeldBy(o) <=> o = q
        BY <1>1, <1>2, <1>4, HeapFacts, HoldsIs DEF HeldBy
    <2>2. \A o : p \notin HeldBy(o)'
        BY <1>2, <1>5, <1>8, HoldsIs DEF HeldBy
    <2>3. \A o : H(o)' = H(o) - (IF p \in HeldBy(o) THEN 1 ELSE 0) + (IF p \in HeldBy(o)' THEN 1 ELSE 0)
        BY <1>3, <1>9, HeapFacts, HeldStays
    <2> QED BY <1>10, <2>1, <2>2, <2>3
<1>12. \A o : Owners(o)' = Owners(o) /\ WeakOwners(o)' = WeakOwners(o)
    <2>1. \A o : Owners(o)' = Owners(o)
        BY SMTT(30), <1>8, <1>10, <1>11, OwnersAre
    <2>2. \A o : WeakOwners(o)' = WeakOwners(o)
        BY <1>8, <1>10, OwnersAre
    <2> QED BY <2>1, <2>2
<1>13. StrongCountIsOwners' /\ WeakCountIsOwners'
    BY <1>3, <1>12 DEF HInv, StrongCountIsOwners, WeakCountIsOwners
<1>14. Closed'
    <2>1. \A i \in DOMAIN calls' : calls'[i].obj \in Known
        <3>1. Tail(calls) \in Seq(Op) /\ \A i \in DOMAIN Tail(calls) : Tail(calls)[i].obj \in Known
            BY HeapFacts DEF HInv, Closed
        <3>2. Release(q).obj \in Known
            BY <1>3 DEF Release, C
        <3> QED BY <1>3, <1>4, <3>1, <3>2
    <2> QED BY <1>3, <2>1 DEF HInv, Closed, Known
<1>15. FieldsOnce'
    BY <1>8 DEF HInv, FieldsOnce, FieldOps
<1>16. Spotless' /\ FreedIsDead'
    BY <1>3 DEF HInv, Spotless, FreedIsDead
<1> QED BY <1>5, <1>6, <1>13, <1>14, <1>15, <1>16 DEF HInv

\* The weak reference of a weak field likewise.
LEMMA WeakFieldGoes ==
    ASSUME HInv, calls # <<>>, NEW p, p # Null, Head(calls) = C("weak_release_of", p),
           calls' = <<WeakRelease(heap[p].weak)>> \o Tail(calls), UNCHANGED <<heap, queue, name, self, sweeping>>
    PROVE  HInv'
<1> DEFINE q == heap[p].weak
<1>1. p \in Made /\ W("weak_release_of", p) # 0 /\ p \in Obj
    BY NextIs, HeapFacts DEF C
<1>2. heap[p].rc = 0 /\ W("weak_release_of", p) = 1
    BY <1>1 DEF HInv, FieldsOnce, FieldOps
<1>3. q \in Known /\ WeakRelease(q) \in Op /\ Made' = Made /\ Made \in SUBSET Obj
    BY <1>1, HeapFacts DEF HInv, Closed, Made, Known, WeakRelease, C, Op, Pointer
<1> HIDE DEF q
<1>4. calls' = <<WeakRelease(q)>> \o Tail(calls) /\ q = heap[p].weak
    BY DEF q
<1>5. calls' \in Seq(Op) /\ Guarded(calls)'
    <2>1. Tail(calls) \in Seq(Op) /\ Guarded(Tail(calls)) /\ WeakRelease(q).op \notin FieldOps
        BY HeapFacts, HeadIs, GuardedTail DEF HInv, WeakRelease, C, FieldOps
    <2>2. \A t \in Seq(Op), d \in Op : Guarded(t) /\ d.op \notin FieldOps => Guarded(<<d>> \o t)
        BY GuardedPrepend
    <2>3. \A t \in Seq(Op), d \in Op : <<d>> \o t \in Seq(Op)
        OBVIOUS
    <2> QED BY <1>3, <1>4, <2>1, <2>2, <2>3
<1>6. HeapTypes'
    BY <1>3, <1>5, HeapFacts DEF HeapTypes, TypeOK
<1>7. \A op, o : W(op, o) \in Nat
        /\ W(op, o)' = W(op, o) - (IF op = "weak_release_of" /\ o = p THEN 1 ELSE 0)
                        + (IF op = "weak_release" /\ o = q THEN 1 ELSE 0)
    <2>1. \A op, o : /\ Head(calls) = C(op, o) <=> op = "weak_release_of" /\ o = p
                     /\ WeakRelease(q) = C(op, o) <=> op = "weak_release" /\ o = q
        BY SameStatement DEF WeakRelease
    <2>2. \A d \in Op : \A op, o : calls' = <<d>> \o Tail(calls) =>
              W(op, o)' = W(op, o) - (IF Head(calls) = C(op, o) THEN 1 ELSE 0) + (IF d = C(op, o) THEN 1 ELSE 0)
        BY SMTT(30), HeapFacts, WSwap
    <2>3. \A op, o : W(op, o) \in Nat
        BY HeapFacts, PartsAreNat
    <2> QED BY <1>3, <1>4, <2>1, <2>2, <2>3
<1>8. /\ W("weak_release_of", p)' = 0
      /\ \A o : o # p => W("weak_release_of", o)' = W("weak_release_of", o)
      /\ \A o : W("release_strong_of", o)' = W("release_strong_of", o)
      /\ \A o : W("release", o)' = W("release", o)
      /\ \A o : W("weak_release", o) \in Nat /\ W("weak_release", o)' = W("weak_release", o) + (IF o = q THEN 1 ELSE 0)
    <2>1. W("weak_release_of", p)' = 0 /\ \A o : o # p => W("weak_release_of", o)' = W("weak_release_of", o)
        BY <1>2, <1>7
    <2>2. \A o : W("release_strong_of", o)' = W("release_strong_of", o) /\ W("release", o)' = W("release", o)
        BY <1>7
    <2>3. \A o : W("weak_release", o) \in Nat /\ W("weak_release", o)' = W("weak_release", o) + (IF o = q THEN 1 ELSE 0)
        BY <1>7
    <2> QED BY <2>1, <2>2, <2>3
<1>9. (\A o \in Made \ {p} : WeakSame(o)) /\ \A o \in Made : StrongSame(o)
    BY <1>5, <1>8, HeapFacts, HoldsIs DEF WeakSame, StrongSame
<1>10. \A o : /\ N(o)' = N(o) /\ Q(o)' = Q(o) /\ S(o)' = S(o) /\ H(o)' = H(o)
              /\ N(o) \in Nat /\ WH(o) \in Nat /\ Q(o) \in Nat /\ S(o) \in Nat /\ H(o) \in Nat
    BY <1>3, <1>9, Frame, PartsAreNat, HeapFacts
<1>11. \A o : WH(o)' = WH(o) - (IF o = q THEN 1 ELSE 0)
    <2>1. \A o : p \in WeakHeldBy(o) <=> o = q
        BY <1>1, <1>2, <1>4, HeapFacts, HoldsIs DEF WeakHeldBy
    <2>2. \A o : p \notin WeakHeldBy(o)'
        BY <1>2, <1>5, <1>8, HoldsIs DEF WeakHeldBy
    <2>3. \A o : WH(o)' = WH(o) - (IF p \in WeakHeldBy(o) THEN 1 ELSE 0) + (IF p \in WeakHeldBy(o)' THEN 1 ELSE 0)
        BY <1>3, <1>9, HeapFacts, WeakHeldStays
    <2> QED BY <1>10, <2>1, <2>2, <2>3
<1>12. \A o : Owners(o)' = Owners(o) /\ WeakOwners(o)' = WeakOwners(o)
    <2>1. \A o : Owners(o)' = Owners(o)
        BY <1>8, <1>10, OwnersAre
    <2>2. \A o : WeakOwners(o)' = WeakOwners(o)
        BY SMTT(30), <1>8, <1>10, <1>11, OwnersAre
    <2> QED BY <2>1, <2>2
<1>13. StrongCountIsOwners' /\ WeakCountIsOwners'
    BY <1>3, <1>12 DEF HInv, StrongCountIsOwners, WeakCountIsOwners
<1>14. Closed'
    <2>1. \A i \in DOMAIN calls' : calls'[i].obj \in Known
        <3>1. Tail(calls) \in Seq(Op) /\ \A i \in DOMAIN Tail(calls) : Tail(calls)[i].obj \in Known
            BY HeapFacts DEF HInv, Closed
        <3>2. WeakRelease(q).obj \in Known
            BY <1>3 DEF WeakRelease, C
        <3> QED BY <1>3, <1>4, <3>1, <3>2
    <2> QED BY <1>3, <2>1 DEF HInv, Closed, Known
<1>15. FieldsOnce'
    BY <1>8 DEF HInv, FieldsOnce, FieldOps
<1>16. Spotless' /\ FreedIsDead'
    BY <1>3 DEF HInv, Spotless, FreedIsDead
<1> QED BY <1>5, <1>6, <1>13, <1>14, <1>15, <1>16 DEF HInv

LEMMA ExecKeeps ==
    ASSUME HInv, Exec
    PROVE  HInv'
<1> DEFINE d == Head(calls)
<1>1. calls # <<>> /\ d \in Op /\ d = C(d.op, d.obj) /\ UNCHANGED <<name, self, sweeping>>
    BY HeapFacts, HeadIs DEF Exec
<1>2. CASE d.obj = Null
    BY <1>1, <1>2, NullPops DEF Exec
<1>3. CASE d.obj # Null /\ d.op = "release"
    <2>1. d = Release(d.obj) /\ ExecRelease(d.obj, Tail(calls))
        BY <1>1, <1>3 DEF Exec, Release
    <2>2. CASE heap[d.obj].rc > 1
        BY <1>1, <1>3, <2>1, <2>2, ReleaseDrops
    <2>3. CASE ~(heap[d.obj].rc > 1) /\ QueuesDeinit(d.obj)
        BY <1>1, <1>3, <2>1, <2>3, ReleaseQueues
    <2>4. CASE ~(heap[d.obj].rc > 1) /\ ~QueuesDeinit(d.obj)
        BY <1>1, <1>3, <2>1, <2>4, ReleaseDies
    <2> QED BY <2>2, <2>3, <2>4
<1>4. CASE d.obj # Null /\ d.op = "weak_release"
    <2>1. d = WeakRelease(d.obj) /\ ExecWeakRelease(d.obj, Tail(calls))
        BY <1>1, <1>4 DEF Exec, WeakRelease
    <2> QED BY <1>1, <1>4, <2>1, WeakReleaseDrops
<1>5. CASE d.obj # Null /\ d.op = "release_strong_of"
    <2>1. calls' = <<Release(heap[d.obj].strong)>> \o Tail(calls) /\ UNCHANGED <<heap, queue>>
        BY <1>1, <1>5 DEF Exec
    <2> QED BY <1>1, <1>5, <2>1, StrongFieldGoes
<1>6. CASE d.obj # Null /\ d.op = "weak_release_of"
    <2>1. calls' = <<WeakRelease(heap[d.obj].weak)>> \o Tail(calls) /\ UNCHANGED <<heap, queue>>
        BY <1>1, <1>6 DEF Exec
    <2> QED BY <1>1, <1>6, <2>1, WeakFieldGoes
<1>7. d.op \in {"release", "release_strong_of", "weak_release_of", "weak_release"}
    BY <1>1 DEF Op
<1> QED BY <1>2, <1>3, <1>4, <1>5, <1>6, <1>7
--------------------------------------------------------------------------------
(* Statements of the program.                                              *)

\* When nothing is owed, the living hold their fields, and what a statement
\* leaves owed for a boundary lets no field go.
LEMMA StatementOwes ==
    ASSUME HInv, calls = <<>>, NEW d \in Op, d.op \notin FieldOps, calls' = <<d>>
    PROVE  /\ calls' \in Seq(Op) /\ Guarded(calls)' /\ FieldsOnce'
           /\ \A op, o : W(op, o) = 0 /\ W(op, o)' = IF d = C(op, o) THEN 1 ELSE 0
           /\ \A op \in FieldOps : \A o : /\ Holds(o, op) <=> heap[o].rc > 0
                                          /\ Holds(o, op)' <=> heap'[o].rc > 0
           /\ \A i \in DOMAIN calls' : calls'[i] = d
<1>1. /\ calls' \in Seq(Op) /\ DOMAIN calls' = {1} /\ calls'[1] = d /\ calls \in Seq(Op)
      /\ \A i \in DOMAIN calls' : calls'[i] = d
    BY HeapFacts
<1>2. \A op, o : W(op, o) = 0 /\ W(op, o)' = IF d = C(op, o) THEN 1 ELSE 0
    BY HeapFacts, WOwes
<1>3. \A op \in FieldOps : \A o : W(op, o) = 0 /\ W(op, o)' = 0
    BY <1>2 DEF C
<1>4. \A op \in FieldOps : \A o : /\ Holds(o, op) <=> heap[o].rc > 0
                                  /\ Holds(o, op)' <=> heap'[o].rc > 0
    BY <1>1, <1>3, HoldsIs
<1>5. Guarded(calls') /\ FieldsOnce'
    BY <1>1, <1>3 DEF Guarded, FieldsOnce
<1> QED BY <1>1, <1>2, <1>4, <1>5

LEMMA RetainedIs ==
    ASSUME HeapAssumption, NEW h \in [Obj -> HeapRecord], NEW v \in Pointer
    PROVE  /\ Retained(h, v) \in [Obj -> HeapRecord] /\ WeakRetained(h, v) \in [Obj -> HeapRecord]
           /\ \A o \in Obj : o # v => Retained(h, v)[o] = h[o] /\ WeakRetained(h, v)[o] = h[o]
           /\ \A o \in Obj : /\ Retained(h, v)[o].rc = h[o].rc + (IF o = v THEN 1 ELSE 0)
                             /\ Retained(h, v)[o].wc = h[o].wc
                             /\ Retained(h, v)[o].mem = h[o].mem /\ Retained(h, v)[o].kdropped = h[o].kdropped
                             /\ Retained(h, v)[o].strong = h[o].strong /\ Retained(h, v)[o].weak = h[o].weak
           /\ \A o \in Obj : /\ WeakRetained(h, v)[o].wc = h[o].wc + (IF o = v THEN 1 ELSE 0)
                             /\ WeakRetained(h, v)[o].rc = h[o].rc
                             /\ WeakRetained(h, v)[o].mem = h[o].mem
                             /\ WeakRetained(h, v)[o].kdropped = h[o].kdropped
                             /\ WeakRetained(h, v)[o].strong = h[o].strong
                             /\ WeakRetained(h, v)[o].weak = h[o].weak
<1>1. \A o \in Obj : h[o] \in HeapRecord /\ h[o].rc \in Nat /\ h[o].wc \in Nat
    BY DEF HeapRecord
<1>2. CASE v = Null
    BY <1>1, <1>2 DEF Retained, WeakRetained, HeapAssumption
<1>3. CASE v \in Obj
    <2>1. v # Null
        BY <1>3 DEF HeapAssumption
    <2>2. /\ Retained(h, v) = [h EXCEPT ![v] = [h[v] EXCEPT !.rc = h[v].rc + 1]]
          /\ WeakRetained(h, v) = [h EXCEPT ![v] = [h[v] EXCEPT !.wc = h[v].wc + 1]]
        BY <1>3, <2>1 DEF Retained, WeakRetained, HeapRecord
    <2>3. /\ [h[v] EXCEPT !.rc = h[v].rc + 1] \in HeapRecord
          /\ [h[v] EXCEPT !.wc = h[v].wc + 1] \in HeapRecord
        <3>1. h[v] \in HeapRecord /\ h[v].rc + 1 \in Nat /\ h[v].wc + 1 \in Nat
            BY <1>1, <1>3
        <3> QED BY <3>1, RecordsStay
    <2>4. Retained(h, v) \in [Obj -> HeapRecord] /\ WeakRetained(h, v) \in [Obj -> HeapRecord]
        BY <1>3, <2>2, <2>3
    <2>5. \A o \in Obj : o # v => Retained(h, v)[o] = h[o] /\ WeakRetained(h, v)[o] = h[o]
        BY <2>2
    <2>6. /\ Retained(h, v)[v].rc = h[v].rc + 1 /\ Retained(h, v)[v].wc = h[v].wc
          /\ Retained(h, v)[v].mem = h[v].mem /\ Retained(h, v)[v].kdropped = h[v].kdropped
          /\ Retained(h, v)[v].strong = h[v].strong /\ Retained(h, v)[v].weak = h[v].weak
        BY <1>1, <1>3, <2>2 DEF HeapRecord
    <2>7. /\ WeakRetained(h, v)[v].wc = h[v].wc + 1 /\ WeakRetained(h, v)[v].rc = h[v].rc
          /\ WeakRetained(h, v)[v].mem = h[v].mem /\ WeakRetained(h, v)[v].kdropped = h[v].kdropped
          /\ WeakRetained(h, v)[v].strong = h[v].strong /\ WeakRetained(h, v)[v].weak = h[v].weak
        BY <1>1, <1>3, <2>2 DEF HeapRecord
    <2> QED BY <1>1, <1>3, <2>4, <2>5, <2>6, <2>7
<1> QED BY <1>2, <1>3 DEF Pointer

\* What a statement can name, and what it can read from a living object.
Usable(v) == v = Null \/ (v \in Made /\ heap[v].rc > 0)

LEMMA NamedIsUsable ==
    ASSUME HInv
    PROVE  /\ \A v \in Named : Usable(v)
           /\ \A a \in Named \ {Null} : a \in Made /\ heap[a].rc > 0 /\ Usable(heap[a].strong)
                                        /\ Usable(WeakGet(heap[a].weak))
<1>1. ASSUME NEW v \in Named
      PROVE  Usable(v)
    <2>1. v \in Known /\ (self = v \/ NamedBy(v) # {})
        BY <1>1 DEF Named, NamedBy, HInv, Closed
    <2> QED BY <2>1, OwnedLives DEF Usable, Known
<1>2. ASSUME NEW a \in Named \ {Null}
      PROVE  a \in Made /\ heap[a].rc > 0 /\ Usable(heap[a].strong) /\ Usable(WeakGet(heap[a].weak))
    <2>1. a \in Made /\ heap[a].rc > 0
        BY <1>1, <1>2 DEF Usable
    <2>2. heap[a].strong \in Known /\ heap[a].weak \in Known
        BY <2>1 DEF HInv, Closed
    <2>3. a \in HeldBy(heap[a].strong)
        BY <2>1 DEF HeldBy, Holds
    <2>4. Usable(heap[a].strong)
        BY <2>2, <2>3, OwnedLives DEF Usable, Known
    <2>5. Usable(WeakGet(heap[a].weak))
        BY <2>2, HeapFacts DEF Usable, WeakGet, Known
    <2> QED BY <2>1, <2>4, <2>5
<1> QED BY <1>1, <1>2

\* `x = v`: the name's reference moves, and its old value's is owed.
LEMMA AssignKeeps ==
    ASSUME HInv, Steady, NEW x \in Name, NEW v, Usable(v), Assigned(heap, x, v)
    PROVE  HInv'
<1> DEFINE u == name[x]
           d == Release(u)
<1>1. /\ calls = <<>> /\ calls' = <<d>> /\ heap' = Retained(heap, v) /\ name' = [name EXCEPT ![x] = v]
      /\ queue' = queue /\ self' = self /\ sweeping' = TRUE
    BY DEF Steady, Assigned, EndsStatement
<1>2. u \in Known /\ v \in Known /\ v \in Pointer /\ d \in Op /\ d.op \notin FieldOps /\ d.obj = u
    BY HeapFacts DEF HInv, Closed, Known, Usable, Release, C, Op, Pointer, FieldOps
<1>3. \A op, o : d = C(op, o) <=> op = "release" /\ o = u
    BY SameStatement DEF Release
<1> HIDE DEF u, d
<1>4. /\ calls' \in Seq(Op) /\ Guarded(calls)' /\ FieldsOnce'
      /\ \A op, o : W(op, o) = 0 /\ W(op, o)' = IF d = C(op, o) THEN 1 ELSE 0
      /\ \A op \in FieldOps : \A o : /\ Holds(o, op) <=> heap[o].rc > 0
                                     /\ Holds(o, op)' <=> heap'[o].rc > 0
      /\ \A i \in DOMAIN calls' : calls'[i] = d
    BY <1>1, <1>2, StatementOwes
<1>5. heap' \in [Obj -> HeapRecord] /\ \A o \in Obj : o # v => heap'[o] = heap[o]
    BY <1>1, <1>2, HeapFacts, HeapAssumption, RetainedIs
<1>6. \A o \in Obj : /\ heap'[o].rc = heap[o].rc + (IF o = v THEN 1 ELSE 0) /\ heap'[o].wc = heap[o].wc
                     /\ heap'[o].mem = heap[o].mem
                     /\ heap'[o].strong = heap[o].strong /\ heap'[o].weak = heap[o].weak
    BY <1>1, <1>2, HeapFacts, HeapAssumption, RetainedIs
<1>7. Made' = Made /\ Made \in SUBSET Obj
    BY <1>6, MadeStays, HeapFacts DEF MadeSame
<1>8. HeapTypes'
    <2>1. name' \in [Name -> Pointer]
        BY <1>1, <1>2, HeapFacts
    <2> QED BY <1>1, <1>4, <1>5, <1>7, <2>1, HeapFacts DEF HeapTypes, TypeOK, HeapRecord
<1>9. \A o \in Made : StrongSame(o) /\ WeakSame(o)
    <2>1. \A o \in Made : heap'[o].rc > 0 <=> heap[o].rc > 0
        BY <1>6, <1>7, HeapFacts DEF Usable
    <2> QED BY <1>4, <1>6, <1>7, <2>1 DEF StrongSame, WeakSame, FieldOps
<1>10. \A o : N(o)' = N(o) - (IF o = u THEN 1 ELSE 0) + (IF o = v THEN 1 ELSE 0)
    <2>1. \A o, y : y # x => (y \in NamedBy(o)' <=> y \in NamedBy(o))
        BY <1>1, HeapFacts DEF NamedBy
    <2>2. \A o : (x \in NamedBy(o) <=> o = u) /\ (x \in NamedBy(o)' <=> o = v)
        BY <1>1, HeapFacts DEF NamedBy, u
    <2>3. \A o : N(o)' = N(o) - (IF x \in NamedBy(o) THEN 1 ELSE 0) + (IF x \in NamedBy(o)' THEN 1 ELSE 0)
        BY <2>1, HeapFacts, PartsAreNat, DifferInOne DEF N
    <2> QED BY <2>2, <2>3
<1>11. \A o : /\ H(o)' = H(o) /\ Q(o)' = Q(o) /\ S(o)' = S(o) /\ WH(o)' = WH(o)
              /\ N(o) \in Nat /\ H(o) \in Nat /\ Q(o) \in Nat /\ S(o) \in Nat /\ WH(o) \in Nat
    BY <1>1, <1>7, <1>9, Frame, PartsAreNat, HeapFacts
<1>12. \A o : W("release", o) = 0 /\ W("release", o)' = (IF o = u THEN 1 ELSE 0)
              /\ W("weak_release", o) = 0 /\ W("weak_release", o)' = 0
    BY <1>3, <1>4
<1>13. StrongCountIsOwners'
    <2>1. \A o : Owners(o)' = Owners(o) + (IF o = v THEN 1 ELSE 0)
        BY <1>10, <1>11, <1>12, OwnersAre
    <2> QED BY <1>6, <1>7, <2>1 DEF HInv, StrongCountIsOwners
<1>14. WeakCountIsOwners'
    <2>1. \A o : WeakOwners(o)' = WeakOwners(o)
        BY <1>11, <1>12, OwnersAre
    <2> QED BY <1>6, <1>7, <2>1 DEF HInv, WeakCountIsOwners
<1>15. Closed'
    <2>1. \A y \in Name : name'[y] \in Known
        BY <1>1, <1>2, HeapFacts DEF HInv, Closed
    <2>2. \A p \in Made : heap'[p].strong \in Known /\ heap'[p].weak \in Known
        BY <1>6, <1>7 DEF HInv, Closed
    <2> QED BY <1>1, <1>2, <1>4, <1>7, <2>1, <2>2 DEF HInv, Closed, Known
<1>16. Spotless'
    BY <1>5, <1>7, HeapFacts DEF HInv, Spotless, Usable
<1>17. FreedIsDead'
    <2>1. \A o \in Made : heap'[o].mem = "freed" => o # v
        BY <1>6, <1>7, HeapFacts DEF HInv, FreedIsDead, Usable
    <2> QED BY <1>5, <1>7, <2>1 DEF HInv, FreedIsDead
<1> QED BY <1>4, <1>8, <1>13, <1>14, <1>15, <1>16, <1>17 DEF HInv

\* A statement that makes an object: the objects there were keep their fields,
\* and nothing owns the new one but what the statement says.
LEMMA MakingKeeps ==
    ASSUME HInv, NEW c \in Obj, heap[c].mem = "unmade", heap' = Constructed(c)
    PROVE  /\ heap' \in [Obj -> HeapRecord] /\ IsFiniteSet(Made')
           /\ \A o \in Obj : o # c => heap'[o] = heap[o]
           /\ heap'[c].rc = 1 /\ heap'[c].wc = 0 /\ heap'[c].mem = "live"
           /\ heap'[c].strong = Null /\ heap'[c].weak = Null
           /\ c \notin Made /\ Made' = Made \cup {c} /\ Spotless'
           /\ \A x \in Name : name[x] # c
           /\ N(c) = 0 /\ H(c) = 0 /\ Q(c) = 0 /\ S(c) = 0 /\ WH(c) = 0
<1> DEFINE r == [Unmade EXCEPT !.mem = "live", !.rc = 1]
<1>1. r \in HeapRecord /\ r.rc = 1 /\ r.wc = 0 /\ r.mem = "live" /\ r.strong = Null /\ r.weak = Null
    BY DEF Unmade, HeapRecord, Pointer
<1>2. heap' = [heap EXCEPT ![c] = r]
    BY DEF Constructed
<1> HIDE DEF r
<1>3. heap' \in [Obj -> HeapRecord] /\ heap'[c] = r /\ \A o \in Obj : o # c => heap'[o] = heap[o]
    BY <1>1, <1>2, HeapFacts
<1>4. c \notin Made /\ Made' = Made \cup {c}
    BY <1>1, <1>3 DEF Made
<1>5. IsFiniteSet(Made')
    BY <1>4, HeapFacts, FS_AddElement DEF HeapTypes
<1>6. Spotless'
    BY <1>3, <1>4 DEF HInv, Spotless
<1>7. c \notin Known
    BY <1>4, HeapFacts DEF Known
<1>8. NamedBy(c) = {} /\ HeldBy(c) = {} /\ WeakHeldBy(c) = {} /\ self # c
    BY <1>4, <1>7 DEF HInv, Closed, NamedBy, HeldBy, WeakHeldBy
<1>9. N(c) = 0 /\ H(c) = 0 /\ WH(c) = 0 /\ S(c) = 0
    BY <1>8, FS_EmptySet DEF N, H, WH, S
<1>10. Q(c) = 0
    BY <1>4, HeapFacts, CountZero DEF HInv, Closed, Q
<1>11. \A x \in Name : name[x] # c
    BY <1>7 DEF HInv, Closed
<1> QED BY <1>1, <1>3, <1>4, <1>5, <1>6, <1>9, <1>10, <1>11

LEMMA MadeKeeps ==
    ASSUME HInv, Steady, NEW c \in Obj, heap[c].mem = "unmade", heap' = Constructed(c),
           NEW w, w \in Known \/ w = c, EndsStatement(<<Release(w)>>),
           name' \in [Name -> Pointer], \A x \in Name : name'[x] \in Known \/ name'[x] = c,
           \A o \in Obj : N(o)' = N(o) - (IF o = w THEN 1 ELSE 0) + (IF o = c THEN 1 ELSE 0)
    PROVE  HInv'
<1> DEFINE d == Release(w)
<1>1. /\ calls = <<>> /\ calls' = <<d>> /\ queue' = queue /\ self' = self /\ sweeping' = TRUE
    BY DEF Steady, EndsStatement
<1>2. d \in Op /\ d.op \notin FieldOps /\ d.obj = w
    BY HeapFacts DEF Known, Release, C, Op, Pointer, FieldOps
<1>3. \A op, o : d = C(op, o) <=> op = "release" /\ o = w
    BY SameStatement DEF Release
<1> HIDE DEF d
<1>4. /\ calls' \in Seq(Op) /\ Guarded(calls)' /\ FieldsOnce'
      /\ \A op, o : W(op, o) = 0 /\ W(op, o)' = IF d = C(op, o) THEN 1 ELSE 0
      /\ \A op \in FieldOps : \A o : /\ Holds(o, op) <=> heap[o].rc > 0
                                     /\ Holds(o, op)' <=> heap'[o].rc > 0
      /\ \A i \in DOMAIN calls' : calls'[i] = d
    BY <1>1, <1>2, StatementOwes
<1>5. /\ heap' \in [Obj -> HeapRecord] /\ IsFiniteSet(Made')
      /\ \A o \in Obj : o # c => heap'[o] = heap[o]
      /\ heap'[c].rc = 1 /\ heap'[c].wc = 0 /\ heap'[c].mem = "live"
      /\ heap'[c].strong = Null /\ heap'[c].weak = Null
      /\ c \notin Made /\ Made' = Made \cup {c} /\ Spotless'
      /\ N(c) = 0 /\ H(c) = 0 /\ Q(c) = 0 /\ S(c) = 0 /\ WH(c) = 0
    BY MakingKeeps
<1>6. Made \in SUBSET Obj /\ Null \notin Obj
    BY HeapFacts
<1>7. HeapTypes'
    BY <1>1, <1>4, <1>5, HeapFacts DEF HeapTypes, TypeOK, HeapRecord
<1>8. \A o \in Obj : H(o)' = H(o) /\ WH(o)' = WH(o)
    <2>1. \A o \in Obj : HeldBy(o)' = HeldBy(o) /\ WeakHeldBy(o)' = WeakHeldBy(o)
        BY <1>4, <1>5, <1>6 DEF HeldBy, WeakHeldBy, FieldOps
    <2> QED BY <2>1 DEF H, WH
<1>9. \A o : /\ Q(o)' = Q(o) /\ S(o)' = S(o)
             /\ N(o) \in Nat /\ H(o) \in Nat /\ Q(o) \in Nat /\ S(o) \in Nat /\ WH(o) \in Nat
    <2>1. \A o : Q(o)' = Q(o) /\ S(o)' = S(o)
        BY <1>1 DEF Q, S
    <2> QED BY <2>1, PartsAreNat, HeapFacts
<1>10. \A o : W("release", o) = 0 /\ W("release", o)' = (IF o = w THEN 1 ELSE 0)
              /\ W("weak_release", o) = 0 /\ W("weak_release", o)' = 0
    BY <1>3, <1>4
<1>11. StrongCountIsOwners'
    <2>1. \A o \in Obj : Owners(o)' = Owners(o) + (IF o = c THEN 1 ELSE 0)
        BY <1>8, <1>9, <1>10, OwnersAre
    <2>2. Owners(c) = 0
        <3>1. W("release", c) = 0
            BY <1>10
        <3> QED BY <1>5, <3>1, OwnersAre
    <2>3. heap'[c].rc = Owners(c)'
        BY <1>5, <2>1, <2>2
    <2>4. \A o \in Made : heap'[o].rc = Owners(o)'
        <3>1. \A o \in Made : heap[o].rc \in Nat /\ heap[o].rc = Owners(o) /\ heap'[o] = heap[o]
            BY <1>5, <1>6, HeapFacts DEF HInv, StrongCountIsOwners
        <3> QED BY <1>5, <1>6, <2>1, <3>1
    <2> QED BY <1>5, <2>3, <2>4 DEF StrongCountIsOwners
<1>12. WeakCountIsOwners'
    <2>1. \A o \in Obj : WeakOwners(o)' = WeakOwners(o)
        BY <1>8, <1>9, <1>10, OwnersAre
    <2>2. WeakOwners(c) = 0
        <3>1. W("weak_release", c) = 0
            BY <1>10
        <3> QED BY <1>5, <3>1, OwnersAre
    <2> QED BY <1>5, <1>6, <2>1, <2>2 DEF HInv, WeakCountIsOwners
<1>13. Closed'
    <2>1. \A p \in Made' : heap'[p].strong \in Known' /\ heap'[p].weak \in Known'
        BY <1>5, <1>6 DEF HInv, Closed, Known
    <2> QED BY <1>1, <1>2, <1>4, <1>5, <2>1 DEF HInv, Closed, Known
<1>14. FreedIsDead'
    BY <1>5, <1>6 DEF HInv, FreedIsDead
<1> QED BY <1>4, <1>5, <1>7, <1>11, <1>12, <1>13, <1>14 DEF HInv

LEMMA NewKeeps ==
    ASSUME HInv, NEW x \in Name, NEW c \in Obj, New(x, c)
    PROVE  HInv'
<1>1. /\ Steady /\ heap[c].mem = "unmade" /\ heap' = Constructed(c) /\ name' = [name EXCEPT ![x] = c]
      /\ EndsStatement(<<Release(name[x])>>)
    BY DEF New
<1>2. name[x] \in Known /\ c \in Pointer
    BY DEF HInv, Closed, Pointer
<1>3. name' \in [Name -> Pointer] /\ \A y \in Name : name'[y] \in Known \/ name'[y] = c
    BY <1>1, <1>2, HeapFacts DEF HInv, Closed
<1>4. \A o \in Obj : N(o)' = N(o) - (IF o = name[x] THEN 1 ELSE 0) + (IF o = c THEN 1 ELSE 0)
    <2>1. \A o, y : y # x => (y \in NamedBy(o)' <=> y \in NamedBy(o))
        BY <1>1, HeapFacts DEF NamedBy
    <2>2. \A o : (x \in NamedBy(o) <=> o = name[x]) /\ (x \in NamedBy(o)' <=> o = c)
        BY <1>1, HeapFacts DEF NamedBy
    <2>3. \A o : N(o)' = N(o) - (IF x \in NamedBy(o) THEN 1 ELSE 0) + (IF x \in NamedBy(o)' THEN 1 ELSE 0)
        BY <2>1, HeapFacts, PartsAreNat, DifferInOne DEF N
    <2> QED BY <2>2, <2>3
<1> QED BY <1>1, <1>2, <1>3, <1>4, MadeKeeps

LEMMA NewUnnamedKeeps ==
    ASSUME HInv, NEW c \in Obj, NewUnnamed(c)
    PROVE  HInv'
<1>1. /\ Steady /\ heap[c].mem = "unmade" /\ heap' = Constructed(c) /\ name' = name
      /\ EndsStatement(<<Release(c)>>)
    BY DEF NewUnnamed
<1>2. \A o \in Obj : N(o)' = N(o) - (IF o = c THEN 1 ELSE 0) + (IF o = c THEN 1 ELSE 0)
    BY <1>1, Frame, PartsAreNat, HeapFacts
<1>3. name' \in [Name -> Pointer] /\ \A x \in Name : name'[x] \in Known \/ name'[x] = c
    BY <1>1, HeapFacts DEF HInv, Closed
<1> QED BY <1>1, <1>2, <1>3, MadeKeeps

\* `a.strong = v`: the field's reference moves, and its old value's is owed.
LEMMA StoreKeeps ==
    ASSUME HInv, NEW a \in Named, NEW v \in Named, Store(a, v)
    PROVE  HInv'
<1> DEFINE u == heap[a].strong
           d == Release(u)
           h == [heap EXCEPT ![a] = [heap[a] EXCEPT !.strong = v]]
<1>1. a \in Made /\ heap[a].rc > 0 /\ Usable(v) /\ a \in Obj /\ Made \in SUBSET Obj /\ Null \notin Obj
    BY NamedIsUsable, HeapFacts DEF Store
<1>2. /\ Steady /\ calls = <<>> /\ calls' = <<d>> /\ heap' = Retained(h, v) /\ name' = name
      /\ queue' = queue /\ self' = self /\ sweeping' = TRUE
    BY <1>1, HeapFacts DEF Store, Steady, EndsStatement, HeapRecord
<1>3. u \in Known /\ v \in Known /\ v \in Pointer /\ d \in Op /\ d.op \notin FieldOps /\ d.obj = u
    BY <1>1, HeapFacts DEF HInv, Closed, Known, Usable, Release, C, Op, Pointer, FieldOps
<1>4. \A op, o : d = C(op, o) <=> op = "release" /\ o = u
    BY SameStatement DEF Release
<1>5. /\ h \in [Obj -> HeapRecord] /\ \A o \in Obj : o # a => h[o] = heap[o]
      /\ h[a].strong = v /\ h[a].weak = heap[a].weak /\ h[a].mem = heap[a].mem
      /\ h[a].rc = heap[a].rc /\ h[a].wc = heap[a].wc
    <2>1. heap[a] \in HeapRecord
        BY <1>1, HeapFacts
    <2>2. [heap[a] EXCEPT !.strong = v] \in HeapRecord
        BY <1>3, <2>1, RecordsStay
    <2> QED BY <1>1, <2>1, <2>2, HeapFacts DEF HeapRecord
<1>6. u = heap[a].strong
    OBVIOUS
<1> HIDE DEF u, d, h
<1>7. /\ calls' \in Seq(Op) /\ Guarded(calls)' /\ FieldsOnce'
      /\ \A op, o : W(op, o) = 0 /\ W(op, o)' = IF d = C(op, o) THEN 1 ELSE 0
      /\ \A op \in FieldOps : \A o : /\ Holds(o, op) <=> heap[o].rc > 0
                                     /\ Holds(o, op)' <=> heap'[o].rc > 0
      /\ \A i \in DOMAIN calls' : calls'[i] = d
    BY <1>2, <1>3, StatementOwes
<1>8. heap' \in [Obj -> HeapRecord] /\ \A o \in Obj : o # v => heap'[o] = h[o]
    BY <1>2, <1>3, <1>5, HeapAssumption, RetainedIs
<1>9. \A o \in Obj : /\ heap'[o].rc = heap[o].rc + (IF o = v THEN 1 ELSE 0) /\ heap'[o].wc = heap[o].wc
                     /\ heap'[o].mem = heap[o].mem /\ heap'[o].weak = heap[o].weak
                     /\ heap'[o].strong = IF o = a THEN v ELSE heap[o].strong
    <2>1. \A o \in Obj : /\ heap'[o].rc = h[o].rc + (IF o = v THEN 1 ELSE 0) /\ heap'[o].wc = h[o].wc
                         /\ heap'[o].mem = h[o].mem /\ heap'[o].weak = h[o].weak
                         /\ heap'[o].strong = h[o].strong
        BY <1>2, <1>3, <1>5, HeapAssumption, RetainedIs
    <2> QED BY <1>5, <2>1
<1>10. Made' = Made
    BY <1>9, MadeStays DEF MadeSame
<1>11. HeapTypes'
    BY <1>2, <1>7, <1>8, <1>10, HeapFacts DEF HeapTypes, TypeOK, HeapRecord
<1>12. (\A o \in Made \ {a} : StrongSame(o)) /\ \A o \in Made : WeakSame(o)
    <2>1. \A o \in Made : heap'[o].rc > 0 <=> heap[o].rc > 0
        BY <1>1, <1>9, HeapFacts DEF Usable
    <2> QED BY <1>1, <1>7, <1>9, <2>1 DEF StrongSame, WeakSame, FieldOps
<1>13. \A o : H(o)' = H(o) - (IF o = u THEN 1 ELSE 0) + (IF o = v THEN 1 ELSE 0)
    <2>1. \A o : a \in HeldBy(o) <=> o = u
        BY <1>1, <1>6, <1>7 DEF HeldBy, FieldOps
    <2>2. heap'[a].rc > 0
        BY <1>1, <1>9, HeapFacts
    <2>3. \A o : a \in HeldBy(o)' <=> o = v
        BY <1>1, <1>7, <1>9, <1>10, <2>2 DEF HeldBy, FieldOps
    <2>4. \A o : H(o)' = H(o) - (IF a \in HeldBy(o) THEN 1 ELSE 0) + (IF a \in HeldBy(o)' THEN 1 ELSE 0)
        BY <1>10, <1>12, HeapFacts, HeldStays
    <2> QED BY <2>1, <2>3, <2>4
<1>14. \A o : /\ N(o)' = N(o) /\ Q(o)' = Q(o) /\ S(o)' = S(o) /\ WH(o)' = WH(o)
              /\ N(o) \in Nat /\ H(o) \in Nat /\ Q(o) \in Nat /\ S(o) \in Nat /\ WH(o) \in Nat
    BY <1>2, <1>10, <1>12, Frame, PartsAreNat, HeapFacts
<1>15. \A o : W("release", o) = 0 /\ W("release", o)' = (IF o = u THEN 1 ELSE 0)
              /\ W("weak_release", o) = 0 /\ W("weak_release", o)' = 0
    BY <1>4, <1>7
<1>16. StrongCountIsOwners'
    <2>1. \A o : Owners(o)' = Owners(o) + (IF o = v THEN 1 ELSE 0)
        BY <1>13, <1>14, <1>15, OwnersAre
    <2> QED BY <1>1, <1>9, <1>10, <2>1 DEF HInv, StrongCountIsOwners
<1>17. WeakCountIsOwners'
    <2>1. \A o : WeakOwners(o)' = WeakOwners(o)
        BY <1>14, <1>15, OwnersAre
    <2> QED BY <1>1, <1>9, <1>10, <2>1 DEF HInv, WeakCountIsOwners
<1>18. Closed'
    <2>1. \A p \in Made : heap'[p].strong \in Known /\ heap'[p].weak \in Known
        BY <1>1, <1>3, <1>9 DEF HInv, Closed
    <2> QED BY <1>2, <1>3, <1>7, <1>10, <2>1 DEF HInv, Closed, Known
<1>19. Spotless'
    BY <1>1, <1>5, <1>8, <1>10 DEF HInv, Spotless, Usable
<1>20. FreedIsDead'
    <2>1. \A o \in Made : heap'[o].mem = "freed" => o # v /\ heap[o].mem = "freed"
        BY <1>1, <1>9 DEF HInv, FreedIsDead, Usable
    <2> QED BY <1>1, <1>9, <1>10, <2>1 DEF HInv, FreedIsDead
<1> QED BY <1>7, <1>11, <1>16, <1>17, <1>18, <1>19, <1>20 DEF HInv

\* `a.weak = v`: the same of the second count.
LEMMA StoreWeakKeeps ==
    ASSUME HInv, NEW a \in Named, NEW v \in Named, StoreWeak(a, v)
    PROVE  HInv'
<1> DEFINE u == heap[a].weak
           d == WeakRelease(u)
           h == [heap EXCEPT ![a] = [heap[a] EXCEPT !.weak = v]]
<1>1. a \in Made /\ heap[a].rc > 0 /\ Usable(v) /\ a \in Obj /\ Made \in SUBSET Obj /\ Null \notin Obj
    BY NamedIsUsable, HeapFacts DEF StoreWeak
<1>2. /\ Steady /\ calls = <<>> /\ calls' = <<d>> /\ heap' = WeakRetained(h, v) /\ name' = name
      /\ queue' = queue /\ self' = self /\ sweeping' = TRUE
    BY <1>1, HeapFacts DEF StoreWeak, Steady, EndsStatement, HeapRecord
<1>3. u \in Known /\ v \in Known /\ v \in Pointer /\ d \in Op /\ d.op \notin FieldOps /\ d.obj = u
    BY <1>1, HeapFacts DEF HInv, Closed, Known, Usable, WeakRelease, C, Op, Pointer, FieldOps
<1>4. \A op, o : d = C(op, o) <=> op = "weak_release" /\ o = u
    BY SameStatement DEF WeakRelease
<1>5. /\ h \in [Obj -> HeapRecord] /\ \A o \in Obj : o # a => h[o] = heap[o]
      /\ h[a].weak = v /\ h[a].strong = heap[a].strong /\ h[a].mem = heap[a].mem
      /\ h[a].rc = heap[a].rc /\ h[a].wc = heap[a].wc
    <2>1. heap[a] \in HeapRecord
        BY <1>1, HeapFacts
    <2>2. [heap[a] EXCEPT !.weak = v] \in HeapRecord
        BY <1>3, <2>1, RecordsStay
    <2> QED BY <1>1, <2>1, <2>2, HeapFacts DEF HeapRecord
<1>6. u = heap[a].weak
    OBVIOUS
<1> HIDE DEF u, d, h
<1>7. /\ calls' \in Seq(Op) /\ Guarded(calls)' /\ FieldsOnce'
      /\ \A op, o : W(op, o) = 0 /\ W(op, o)' = IF d = C(op, o) THEN 1 ELSE 0
      /\ \A op \in FieldOps : \A o : /\ Holds(o, op) <=> heap[o].rc > 0
                                     /\ Holds(o, op)' <=> heap'[o].rc > 0
      /\ \A i \in DOMAIN calls' : calls'[i] = d
    BY <1>2, <1>3, StatementOwes
<1>8. heap' \in [Obj -> HeapRecord] /\ \A o \in Obj : o # v => heap'[o] = h[o]
    BY <1>2, <1>3, <1>5, HeapAssumption, RetainedIs
<1>9. \A o \in Obj : /\ heap'[o].wc = heap[o].wc + (IF o = v THEN 1 ELSE 0) /\ heap'[o].rc = heap[o].rc
                     /\ heap'[o].mem = heap[o].mem /\ heap'[o].strong = heap[o].strong
                     /\ heap'[o].weak = IF o = a THEN v ELSE heap[o].weak
    <2>1. \A o \in Obj : /\ heap'[o].wc = h[o].wc + (IF o = v THEN 1 ELSE 0) /\ heap'[o].rc = h[o].rc
                         /\ heap'[o].mem = h[o].mem /\ heap'[o].strong = h[o].strong
                         /\ heap'[o].weak = h[o].weak
        BY <1>2, <1>3, <1>5, HeapAssumption, RetainedIs
    <2> QED BY <1>5, <2>1
<1>10. Made' = Made
    BY <1>9, MadeStays DEF MadeSame
<1>11. HeapTypes'
    BY <1>2, <1>7, <1>8, <1>10, HeapFacts DEF HeapTypes, TypeOK, HeapRecord
<1>12. (\A o \in Made \ {a} : WeakSame(o)) /\ \A o \in Made : StrongSame(o)
    <2>1. \A o \in Made : heap'[o].rc > 0 <=> heap[o].rc > 0
        BY <1>1, <1>9, HeapFacts DEF Usable
    <2> QED BY <1>1, <1>7, <1>9, <2>1 DEF WeakSame, StrongSame, FieldOps
<1>13. \A o : WH(o)' = WH(o) - (IF o = u THEN 1 ELSE 0) + (IF o = v THEN 1 ELSE 0)
    <2>1. \A o : a \in WeakHeldBy(o) <=> o = u
        BY <1>1, <1>6, <1>7 DEF WeakHeldBy, FieldOps
    <2>2. heap'[a].rc > 0
        BY <1>1, <1>9, HeapFacts
    <2>3. \A o : a \in WeakHeldBy(o)' <=> o = v
        BY <1>1, <1>7, <1>9, <1>10, <2>2 DEF WeakHeldBy, FieldOps
    <2>4. \A o : WH(o)' = WH(o) - (IF a \in WeakHeldBy(o) THEN 1 ELSE 0) + (IF a \in WeakHeldBy(o)' THEN 1 ELSE 0)
        BY <1>10, <1>12, HeapFacts, WeakHeldStays
    <2> QED BY <2>1, <2>3, <2>4
<1>14. \A o : /\ N(o)' = N(o) /\ Q(o)' = Q(o) /\ S(o)' = S(o) /\ H(o)' = H(o)
              /\ N(o) \in Nat /\ H(o) \in Nat /\ Q(o) \in Nat /\ S(o) \in Nat /\ WH(o) \in Nat
    BY <1>2, <1>10, <1>12, Frame, PartsAreNat, HeapFacts
<1>15. \A o : W("weak_release", o) = 0 /\ W("weak_release", o)' = (IF o = u THEN 1 ELSE 0)
              /\ W("release", o) = 0 /\ W("release", o)' = 0
    BY <1>4, <1>7
<1>16. StrongCountIsOwners'
    <2>1. \A o : Owners(o)' = Owners(o)
        BY <1>14, <1>15, OwnersAre
    <2> QED BY <1>1, <1>9, <1>10, <2>1 DEF HInv, StrongCountIsOwners
<1>17. WeakCountIsOwners'
    <2>1. \A o : WeakOwners(o)' = WeakOwners(o) + (IF o = v THEN 1 ELSE 0)
        BY <1>13, <1>14, <1>15, OwnersAre
    <2> QED BY <1>1, <1>9, <1>10, <2>1 DEF HInv, WeakCountIsOwners
<1>18. Closed'
    <2>1. \A p \in Made : heap'[p].strong \in Known /\ heap'[p].weak \in Known
        BY <1>1, <1>3, <1>9 DEF HInv, Closed
    <2> QED BY <1>2, <1>3, <1>7, <1>10, <2>1 DEF HInv, Closed, Known
<1>19. Spotless'
    BY <1>1, <1>5, <1>8, <1>10 DEF HInv, Spotless, Usable
<1>20. FreedIsDead'
    <2>1. \A o \in Made : heap'[o].mem = "freed" => o # v /\ heap[o].mem = "freed"
        BY <1>1, <1>9 DEF HInv, FreedIsDead, Usable
    <2> QED BY <1>1, <1>9, <1>10, <2>1 DEF HInv, FreedIsDead
<1> QED BY <1>7, <1>11, <1>16, <1>17, <1>18, <1>19, <1>20 DEF HInv

--------------------------------------------------------------------------------
(* The end of a block, and the sweep.                                      *)

\* A name of the block for every release the end of it owes, and one release
\* for every name.
LEMMA OwedAreTheLocals ==
    ASSUME NEW nm \in [Name -> Pointer], NEW o,
           NEW s, s = [i \in 1 .. Len(Local) |-> Release(nm[Reverse(Local)[i]])]
    PROVE  /\ s \in Seq(Op)
           /\ Count(s, Release(o)) = Cardinality({x \in Range(Local) : nm[x] = o})
<1> DEFINE n == Len(Local)
           A == At(s, Release(o))
           B == {x \in Range(Local) : nm[x] = o}
           f == [i \in A |-> Local[(n - i) + 1]]
<1>1. n \in Nat /\ DOMAIN Local = 1 .. n /\ IsInjective(Local) /\ Range(Local) \subseteq Name
    BY HeapAssumption DEF Name
<1>2. \A i \in 1 .. n : (n - i) + 1 \in 1 .. n /\ Reverse(Local)[i] = Local[(n - i) + 1]
    BY <1>1 DEF Reverse
<1>3. \A i \in 1 .. n : Local[(n - i) + 1] \in Range(Local)
    BY <1>1, <1>2 DEF Range
<1>4. \A v \in Pointer : Release(v) \in Op
    BY DEF Release, C, Op
<1>5. \A i \in 1 .. n : s[i] = Release(nm[Local[(n - i) + 1]]) /\ s[i] \in Op
    BY <1>1, <1>2, <1>3, <1>4
<1>6. s \in Seq(Op) /\ DOMAIN s = 1 .. n
    BY <1>1, <1>5
<1>7. \A u, v : Release(u) = Release(v) <=> u = v
    BY SameStatement DEF Release
<1>8. A = {i \in 1 .. n : nm[Local[(n - i) + 1]] = o}
    BY <1>5, <1>6, <1>7 DEF At
<1>9. f \in Bijection(A, B)
    <2>1. f \in [A -> B]
        BY <1>3, <1>8
    <2>2. \A i, j \in A : f[i] = f[j] => i = j
        BY <1>1, <1>2, <1>8 DEF IsInjective
    <2>3. \A x \in B : \E i \in A : f[i] = x
        <3> SUFFICES ASSUME NEW x \in B
                     PROVE  \E i \in A : f[i] = x
            OBVIOUS
        <3>1. PICK j \in 1 .. n : Local[j] = x
            BY <1>1 DEF Range
        <3>2. (n - j) + 1 \in 1 .. n /\ (n - ((n - j) + 1)) + 1 = j
            BY <1>1, <3>1
        <3>3. (n - j) + 1 \in A
            BY <1>8, <3>1, <3>2
        <3> QED BY <3>1, <3>2, <3>3
    <2> QED BY <2>1, <2>2, <2>3 DEF Bijection, Injection, Surjection, IsInjective
<1>10. IsFiniteSet(A)
    BY <1>6, AtIsFinite
<1> HIDE DEF f, A, B
<1>11. Cardinality(A) = Cardinality(B)
    BY <1>9, <1>10, FS_Bijection DEF ExistsBijection
<1> QED BY <1>6, <1>11 DEF Count, A, B

LEMMA CloseScopeKeeps ==
    ASSUME HInv, CloseScope
    PROVE  HInv'
<1> DEFINE L(o) == {x \in Range(Local) : name[x] = o}
           s == [i \in 1 .. Len(Local) |-> Release(name[Reverse(Local)[i]])]
<1>1. /\ calls = <<>> /\ calls' = s /\ heap' = heap /\ queue' = queue /\ self' = self /\ sweeping' = TRUE
      /\ name' = [x \in Name |-> IF x \in Global THEN name[x] ELSE Null]
    BY DEF CloseScope, Steady, EndsStatement
<1>2. /\ name \in [Name -> Pointer] /\ Made' = Made /\ Made \in SUBSET Obj /\ Null \notin Obj /\ Null \in Pointer
      /\ calls \in Seq(Op)
    BY <1>1, HeapFacts DEF Made, Pointer
<1>3. s \in Seq(Op) /\ \A o : Count(s, Release(o)) = Cardinality(L(o))
    BY <1>2, OwedAreTheLocals
<1>4. \A i \in DOMAIN s : s[i].op = "release" /\ s[i].obj \in Known
    <2>1. \A i \in 1 .. Len(Local) : Reverse(Local)[i] \in Name
        BY HeapAssumption DEF Reverse, Range, Name
    <2>2. \A v : Release(v).op = "release" /\ Release(v).obj = v
        BY DEF Release, C
    <2> QED BY <2>1, <2>2 DEF HInv, Closed
<1> HIDE DEF s
<1>5. \A op, o : /\ W(op, o) = 0
                 /\ W(op, o)' = IF op = "release" THEN Cardinality(L(o)) ELSE 0
    <2>1. \A op, o : op # "release" => Count(s, C(op, o)) = 0
        BY <1>3, <1>4, CountZero DEF C
    <2> QED BY <1>1, <1>3, <2>1, CountNothing DEF W, Release
<1>6. \A op \in FieldOps : \A o : W(op, o)' = 0
    BY <1>5 DEF FieldOps
<1>7. Guarded(calls)' /\ FieldsOnce'
    BY <1>1, <1>4, <1>6 DEF Guarded, FieldsOnce, FieldOps
<1>8. HeapTypes'
    <2>1. name' \in [Name -> Pointer]
        BY <1>1, <1>2
    <2> QED BY <1>1, <1>2, <1>3, <2>1, HeapFacts DEF HeapTypes, TypeOK
<1>9. \A o \in Made : StrongSame(o) /\ WeakSame(o)
    BY <1>1, <1>2, <1>3, <1>5, <1>6, HoldsIs DEF StrongSame, WeakSame, FieldOps
<1>10. \A o \in Obj : N(o) = N(o)' + Cardinality(L(o)) /\ N(o)' \in Nat /\ Cardinality(L(o)) \in Nat
    <2> SUFFICES ASSUME NEW o \in Obj
                 PROVE  N(o) = N(o)' + Cardinality(L(o)) /\ N(o)' \in Nat /\ Cardinality(L(o)) \in Nat
        OBVIOUS
    <2>1. Range(Local) \intersect Global = {} /\ Name = Range(Local) \union Global
        BY HeapAssumption DEF Name
    <2>2. NamedBy(o) = NamedBy(o)' \union L(o) /\ NamedBy(o)' \intersect L(o) = {}
        BY <1>1, <1>2, <2>1 DEF NamedBy
    <2>3. IsFiniteSet(NamedBy(o)') /\ IsFiniteSet(L(o))
        BY <2>2, HeapFacts, PartsAreNat, FS_Subset
    <2> HIDE DEF L
    <2>4. Cardinality(NamedBy(o)' \union L(o)) = Cardinality(NamedBy(o)') + Cardinality(L(o))
              - Cardinality(NamedBy(o)' \intersect L(o))
        BY <2>3, FS_Union
    <2>5. /\ Cardinality(NamedBy(o)' \intersect L(o)) = 0
          /\ Cardinality(NamedBy(o)') \in Nat /\ Cardinality(L(o)) \in Nat
        BY <2>2, <2>3, FS_EmptySet, FS_CardinalityType
    <2> QED BY <2>2, <2>4, <2>5 DEF N
<1>11. \A o : /\ H(o)' = H(o) /\ Q(o)' = Q(o) /\ S(o)' = S(o) /\ WH(o)' = WH(o)
              /\ H(o) \in Nat /\ Q(o) \in Nat /\ S(o) \in Nat /\ WH(o) \in Nat
    BY <1>1, <1>2, <1>9, Frame, PartsAreNat, HeapFacts
<1> HIDE DEF L
<1>12. \A o \in Made : Owners(o)' = Owners(o) /\ WeakOwners(o)' = WeakOwners(o)
    <2>1. \A o \in Made : Owners(o)' = Owners(o)
        <3>1. \A o : W("release", o) = 0 /\ W("release", o)' = Cardinality(L(o))
            BY <1>5
        <3> QED BY <1>2, <1>10, <1>11, <3>1, OwnersAre
    <2>2. \A o \in Made : WeakOwners(o)' = WeakOwners(o)
        <3>1. \A o : W("weak_release", o) = 0 /\ W("weak_release", o)' = 0
            BY <1>5
        <3> QED BY <1>11, <3>1, OwnersAre
    <2> QED BY <2>1, <2>2
<1>13. StrongCountIsOwners' /\ WeakCountIsOwners'
    BY <1>1, <1>2, <1>12 DEF HInv, StrongCountIsOwners, WeakCountIsOwners
<1>14. Closed'
    BY <1>1, <1>2, <1>4 DEF HInv, Closed, Known
<1>15. Spotless' /\ FreedIsDead'
    BY <1>1, <1>2 DEF HInv, Spotless, FreedIsDead
<1> QED BY <1>7, <1>8, <1>13, <1>14, <1>15 DEF HInv

\* Where nothing but the owners of an object change kind, its counts stay.
LEMMA SweepKeeps ==
    ASSUME HInv, heap' = heap, name' = name, HeapTypes', Closed', Guarded(calls)',
           \A op \in FieldOps \union {"weak_release"} : \A o : W(op, o)' = W(op, o),
           \A o \in Made : Q(o)' + S(o)' + W("release", o)' = Q(o) + S(o) + W("release", o)
    PROVE  HInv'
<1>1. Made' = Made
    BY DEF Made
<1>2. \A o \in Made : StrongSame(o) /\ WeakSame(o)
    <2>1. calls \in Seq(Op) /\ calls' \in Seq(Op)
        BY HeapFacts DEF HeapTypes, TypeOK
    <2> QED BY <2>1, HoldsIs DEF StrongSame, WeakSame, FieldOps
<1>3. \A o : N(o)' = N(o) /\ H(o)' = H(o) /\ WH(o)' = WH(o) /\ N(o) \in Nat /\ H(o) \in Nat /\ WH(o) \in Nat
    BY <1>1, <1>2, Frame, PartsAreNat, HeapFacts
<1>4. \A o \in Made : Q(o) \in Nat /\ S(o) \in Nat /\ W("release", o) \in Nat
    BY PartsAreNat, HeapFacts
<1>5. \A o \in Made : Owners(o)' = Owners(o)
    <2>1. \A o : S(o)' \in Nat
        BY DEF S
    <2>2. \A o : Q(o)' \in Nat /\ W("release", o)' \in Nat
        <3>1. queue' \in Seq(Obj) /\ calls' \in Seq(Op)
            BY DEF HeapTypes, TypeOK
        <3> QED BY <3>1, AtIsFinite DEF Q, W
    <2> QED BY <1>3, <1>4, <2>1, <2>2, OwnersAre
<1>6. \A o : WeakOwners(o)' = WeakOwners(o)
    BY <1>3, OwnersAre
<1>7. StrongCountIsOwners' /\ WeakCountIsOwners'
    BY <1>1, <1>5, <1>6 DEF HInv, StrongCountIsOwners, WeakCountIsOwners
<1>8. Spotless' /\ FreedIsDead' /\ FieldsOnce'
    BY <1>1 DEF HInv, Spotless, FreedIsDead, FieldsOnce
<1> QED BY <1>7, <1>8 DEF HInv

LEMMA StartDeinitKeeps ==
    ASSUME HInv, StartDeinit
    PROVE  HInv'
<1>1. /\ self = Null /\ queue # <<>> /\ self' = Head(queue) /\ queue' = Tail(queue)
      /\ UNCHANGED <<heap, name, calls, sweeping>>
    BY DEF StartDeinit, Swept
<1>2. /\ queue \in Seq(Obj) /\ queue' \in Seq(Obj) /\ Head(queue) \in Obj /\ Head(queue) \in Made /\ Made' = Made
      /\ \A i \in DOMAIN queue' : queue'[i] \in Made
    BY <1>1, HeapFacts DEF HInv, Closed, Made
<1>3. HeapTypes'
    BY <1>1, <1>2, HeapFacts DEF HeapTypes, TypeOK, Pointer
<1>4. Closed' /\ Guarded(calls)'
    BY <1>1, <1>2 DEF HInv, Closed, Known
<1>5. \A op, o : W(op, o)' = W(op, o)
    BY <1>1 DEF W
<1>6. \A o \in Made : Q(o)' + S(o)' + W("release", o)' = Q(o) + S(o) + W("release", o)
    <2>1. \A o : Q(o) = Q(o)' + (IF Head(queue) = o THEN 1 ELSE 0)
        BY <1>1, <1>2, CountTail DEF Q
    <2>2. \A o \in Made : S(o) = 0 /\ S(o)' = IF Head(queue) = o THEN 1 ELSE 0
        BY <1>1, HeapFacts DEF S
    <2>3. \A o : Q(o)' \in Nat /\ W("release", o) \in Nat
        BY <1>2, HeapFacts, PartsAreNat, AtIsFinite DEF Q
    <2> QED BY <1>5, <2>1, <2>2, <2>3
<1> QED BY <1>1, <1>3, <1>4, <1>5, <1>6, SweepKeeps

LEMMA EndDeinitKeeps ==
    ASSUME HInv, NEW panics \in BOOLEAN, EndDeinit(panics)
    PROVE  HInv'
<1>1. /\ self # Null /\ calls = <<>> /\ calls' = <<Release(self)>> /\ self' = Null /\ sweeping' \in BOOLEAN
      /\ UNCHANGED <<heap, name, queue>>
    BY DEF EndDeinit
<1>2. /\ Release(self) \in Op /\ Release(self).op \notin FieldOps /\ Release(self).obj = self
      /\ self \in Made /\ Made' = Made
    BY <1>1, HeapFacts DEF HInv, Closed, Known, Made, Release, C, Op, Pointer, FieldOps
<1>3. /\ calls' \in Seq(Op) /\ Guarded(calls)'
      /\ \A op, o : W(op, o) = 0 /\ W(op, o)' = IF Release(self) = C(op, o) THEN 1 ELSE 0
      /\ \A i \in DOMAIN calls' : calls'[i] = Release(self)
    BY <1>1, <1>2, StatementOwes
<1>4. \A op, o : Release(self) = C(op, o) <=> op = "release" /\ o = self
    BY SameStatement DEF Release
<1>5. HeapTypes'
    BY <1>1, <1>2, <1>3, HeapFacts DEF HeapTypes, TypeOK, Pointer
<1>6. Closed'
    BY <1>1, <1>2, <1>3 DEF HInv, Closed, Known
<1>7. \A op \in FieldOps \union {"weak_release"} : \A o : W(op, o)' = W(op, o)
    BY <1>3, <1>4 DEF FieldOps
<1>8. \A o \in Made : Q(o)' + S(o)' + W("release", o)' = Q(o) + S(o) + W("release", o)
    <2>1. \A o \in Made : S(o) = (IF o = self THEN 1 ELSE 0) /\ S(o)' = 0
        BY <1>1, HeapFacts DEF S
    <2>2. \A o : W("release", o) = 0 /\ W("release", o)' = IF o = self THEN 1 ELSE 0
        BY <1>3, <1>4
    <2>3. \A o : Q(o)' = Q(o) /\ Q(o) \in Nat
        BY <1>1, HeapFacts, PartsAreNat DEF Q
    <2> QED BY <2>1, <2>2, <2>3
<1> QED BY <1>1, <1>3, <1>5, <1>6, <1>7, <1>8, SweepKeeps

LEMMA SameKeeps ==
    ASSUME HInv, UNCHANGED <<heap, name, calls, queue, self>>, sweeping' \in BOOLEAN
    PROVE  HInv'
<1>1. Made' = Made
    BY DEF Made
<1>2. HeapTypes' /\ Closed' /\ Guarded(calls)'
    BY <1>1 DEF HInv, HeapTypes, TypeOK, Closed, Known
<1>3. \A o : (\A op : W(op, o)' = W(op, o)) /\ Q(o)' = Q(o) /\ S(o)' = S(o)
    BY DEF W, Q, S
<1> QED BY <1>2, <1>3, SweepKeeps

LEMMA InitCounts == Init => HInv
<1> SUFFICES ASSUME Init
             PROVE  HInv
    OBVIOUS
<1>1. Made = {} /\ Null \notin Obj
    BY HeapAssumption DEF Init, Made, Unmade
<1>2. HeapTypes
    <2>1. Unmade \in HeapRecord
        BY DEF Unmade, HeapRecord, Pointer
    <2>2. heap \in [Obj -> HeapRecord] /\ name \in [Name -> Pointer]
        BY <2>1 DEF Init, Pointer
    <2>3. calls \in Seq(Op) /\ queue \in Seq(Obj) /\ self \in Pointer /\ sweeping \in BOOLEAN
        <3>1. calls = <<>> /\ queue = <<>> /\ self = Null /\ sweeping = FALSE
            BY DEF Init
        <3>2. Null \in Pointer
            BY DEF Pointer
        <3>3. <<>> \in Seq(Op) /\ <<>> \in Seq(Obj)
            OBVIOUS
        <3> QED BY <3>1, <3>2, <3>3
    <2>4. TypeOK
        BY <2>2, <2>3 DEF TypeOK, HeapRecord
    <2> QED BY <1>1, <2>4, FS_EmptySet DEF HeapTypes
<1>3. Spotless /\ Closed /\ FreedIsDead /\ StrongCountIsOwners /\ WeakCountIsOwners /\ Guarded(calls)
    BY <1>1 DEF Init, Spotless, Closed, FreedIsDead, StrongCountIsOwners, WeakCountIsOwners,
       Guarded, Known
<1>4. FieldsOnce
    BY CountNothing DEF Init, FieldsOnce, W
<1> QED BY <1>2, <1>3, <1>4 DEF HInv

LEMMA NextCounts == HInv /\ [Next]_vars => HInv'
<1> SUFFICES ASSUME HInv, [Next]_vars
             PROVE  HInv'
    OBVIOUS
<1>1. CASE Exec
    BY <1>1, ExecKeeps
<1>2. CASE Statement
    <2>1. ASSUME NEW x \in Name, NEW v \in Named, Copy(x, v)
          PROVE  HInv'
        BY <2>1, NamedIsUsable, AssignKeeps DEF Copy
    <2>2. ASSUME NEW x \in Name, NEW o \in Obj, New(x, o)
          PROVE  HInv'
        BY <2>2, NewKeeps
    <2>3. ASSUME NEW o \in Obj, NewUnnamed(o)
          PROVE  HInv'
        BY <2>3, NewUnnamedKeeps
    <2>4. ASSUME NEW a \in Named, NEW v \in Named, Store(a, v) \/ StoreWeak(a, v)
          PROVE  HInv'
        BY <2>4, StoreKeeps, StoreWeakKeeps
    <2>5. ASSUME NEW x \in Name, NEW a \in Named, Load(x, a) \/ LoadWeak(x, a)
          PROVE  HInv'
        BY <2>5, NamedIsUsable, AssignKeeps DEF Load, LoadWeak
    <2> QED BY <1>2, <2>1, <2>2, <2>3, <2>4, <2>5, CloseScopeKeeps DEF Statement
<1>3. CASE StartDeinit
    BY <1>3, StartDeinitKeeps
<1>4. ASSUME NEW panics \in BOOLEAN, EndDeinit(panics)
      PROVE  HInv'
    BY <1>4, EndDeinitKeeps
<1>5. CASE EndSweep
    BY <1>5, SameKeeps DEF EndSweep
<1>6. CASE UNCHANGED vars
    BY <1>6, HeapFacts, SameKeeps DEF vars
<1> QED BY <1>1, <1>2, <1>3, <1>4, <1>5, <1>6 DEF Next

\* What a release, a name, a field, the queue or the sweep points at is not
\* freed: it has a count above zero, and what is freed has none.
LEMMA PointedLives == HInv => NoUseAfterFree
<1> SUFFICES ASSUME HInv
             PROVE  NoUseAfterFree
    OBVIOUS
<1>1. ASSUME NEW o \in Made, heap[o].rc > 0 \/ heap[o].wc > 0
      PROVE  heap[o].mem = "live"
    <2>1. heap[o].mem \in {"unmade", "live", "freed"} /\ heap[o].mem # "unmade"
        BY <1>1, HeapFacts DEF Made, HeapRecord
    <2> QED BY <1>1, <2>1, HeapFacts DEF HInv, FreedIsDead
<1>2. ASSUME NEW i \in DOMAIN calls, calls[i].obj # Null
      PROVE  heap[calls[i].obj].mem = "live"
    <2> DEFINE o == calls[i].obj
    <2>1. /\ calls[i] = C(calls[i].op, o) /\ o \in Made
          /\ calls[i].op \in FieldOps \union {"release", "weak_release"}
        <3>0. calls[i] \in Op
            BY <1>2, HeapFacts
        <3>1. calls[i] \in Op /\ \A d \in Op : d = C(d.op, d.obj)
            BY <3>0 DEF Op, C
        <3>2. calls[i].op \in FieldOps \union {"release", "weak_release"}
            BY <3>1 DEF Op, FieldOps
        <3>3. o \in Made
            BY <1>2 DEF HInv, Closed, Known
        <3> QED BY <3>1, <3>2, <3>3
    <2>2. \A j \in DOMAIN calls : \A op : calls[j] = C(op, o) => W(op, o) # 0
        BY HeapFacts, CountZero DEF W
    <2>3. CASE calls[i].op \in {"release", "weak_release"}
        BY <1>1, <2>1, <2>2, <2>3, OwnedLives
    <2>4. CASE calls[i].op \in FieldOps
        <3>1. PICK j \in DOMAIN calls : calls[j] = WeakRelease(o)
            BY <1>2, <2>4 DEF HInv, Guarded
        <3>2. W("weak_release", o) # 0
            BY <2>2, <3>1 DEF WeakRelease
        <3> QED BY <1>1, <2>1, <3>2, OwnedLives
    <2> QED BY <2>1, <2>3, <2>4
<1>3. ASSUME NEW x \in Name, name[x] # Null
      PROVE  heap[name[x]].mem = "live"
    <2>1. name[x] \in Made /\ x \in NamedBy(name[x])
        BY <1>3 DEF HInv, Closed, Known, NamedBy
    <2> QED BY <1>1, <2>1, OwnedLives
<1>4. ASSUME NEW i \in DOMAIN queue
      PROVE  heap[queue[i]].mem = "live"
    <2>1. queue[i] \in Made
        BY DEF HInv, Closed
    <2>2. Q(queue[i]) # 0
        BY HeapFacts, CountZero DEF Q
    <2> QED BY <1>1, <2>1, <2>2, OwnedLives
<1>5. self # Null => heap[self].mem = "live"
    BY <1>1, OwnedLives DEF HInv, Closed, Known
<1>6. ASSUME NEW p \in Made
      PROVE  /\ Holds(p, "release_strong_of") /\ heap[p].strong # Null => heap[heap[p].strong].mem = "live"
             /\ Holds(p, "weak_release_of") /\ heap[p].weak # Null => heap[heap[p].weak].mem = "live"
    <2>1. /\ heap[p].strong # Null => heap[p].strong \in Made
          /\ heap[p].weak # Null => heap[p].weak \in Made
        BY DEF HInv, Closed, Known
    <2>2. /\ Holds(p, "release_strong_of") => p \in HeldBy(heap[p].strong)
          /\ Holds(p, "weak_release_of") => p \in WeakHeldBy(heap[p].weak)
        BY DEF HeldBy, WeakHeldBy
    <2> QED BY <1>1, <2>1, <2>2, OwnedLives
<1>7. Range(queue) = {queue[i] : i \in DOMAIN queue}
    BY DEF Range
<1> QED BY <1>2, <1>3, <1>4, <1>5, <1>6, <1>7 DEF NoUseAfterFree

\* Both counts of every object are its owners', in every graph of any number of
\* objects, at every C statement of every cascade: what the emitted retain,
\* release, weak_retain and weak_release (cbackend.rs, class_functions_named)
\* and keal_drain_drops (runtime.c) add up to.
THEOREM CountsAlwaysAreOwners == Spec => []CountsAreOwners
<1>1. HInv => CountsAreOwners
    BY DEF HInv, CountsAreOwners
<1> QED BY <1>1, InitCounts, NextCounts, PTL DEF Spec

\* Nothing that will be read, written or released is ever freed.
THEOREM NothingFreedIsUsed == Spec => []NoUseAfterFree
BY InitCounts, NextCounts, PointedLives, PTL DEF Spec

\* Structs, names, pending C statements and the queue of deinits keep their
\* types; in particular no count falls below zero.
THEOREM HeapTypesHold == Spec => []TypeOK
<1>1. HInv => TypeOK
    BY DEF HInv, HeapTypes
<1> QED BY <1>1, InitCounts, NextCounts, PTL DEF Spec

--------------------------------------------------------------------------------
(* What is not on a cycle goes.                                            *)

\* A dead object that is not freed waits for a weak reference.
DeadAreHeld == \A o \in Obj : heap[o].mem = "live" /\ heap[o].rc = 0 => heap[o].wc > 0

\* It is enough that what becomes of an object leaves it a reference, or frees it.
LEMMA HeldIfReferred ==
    ASSUME DeadAreHeld,
           \A o \in Obj : \/ heap'[o].mem # "live" \/ heap'[o].rc > 0 \/ heap'[o].wc > 0
                          \/ /\ heap'[o].mem = heap[o].mem /\ heap'[o].rc = heap[o].rc
                             /\ heap'[o].wc = heap[o].wc
    PROVE  DeadAreHeld'
BY DEF DeadAreHeld

LEMMA CountsAreNat ==
    ASSUME HInv
    PROVE  \A o \in Obj : heap[o] \in HeapRecord /\ heap[o].rc \in Nat /\ heap[o].wc \in Nat
BY HeapFacts DEF HeapRecord

LEMMA ExecHolds ==
    ASSUME HInv, DeadAreHeld, Exec
    PROVE  DeadAreHeld'
<1> DEFINE d == Head(calls)
           p == d.obj
<1>1. calls # <<>> /\ d \in Op /\ d = C(d.op, p)
    BY HeapFacts, HeadIs DEF Exec
<1>2. CASE heap' = heap
    BY <1>2, HeldIfReferred
<1>3. p # Null => p \in Made /\ p \in Obj /\ W(d.op, p) # 0
    BY <1>1, NextIs, HeapFacts
<1>4. CASE p # Null /\ d.op = "release"
    <2>1. ExecRelease(p, Tail(calls)) /\ heap[p].rc > 0
        BY <1>1, <1>3, <1>4, OwnedLives DEF Exec
    <2>2. \A o \in Obj : o # p => heap'[o] = heap[o]
        BY <2>1, <1>3, <1>4, HeapFacts DEF ExecRelease, Resurrected, SelfGuard
    <2>3. heap'[p].rc > 0 \/ heap'[p].wc > 0
        <3>1. heap[p].rc \in Nat /\ heap[p].wc \in Nat /\ heap[p] \in HeapRecord
            BY <1>3, <1>4, CountsAreNat
        <3>2. CASE heap[p].rc > 1
            <4>1. heap'[p].rc = heap[p].rc - 1
                BY <1>3, <1>4, <2>1, <3>1, <3>2, HeapFacts DEF ExecRelease, HeapRecord
            <4> QED BY <3>1, <3>2, <4>1
        <3>3. CASE ~(heap[p].rc > 1) /\ QueuesDeinit(p)
            <4>1. heap'[p].rc = 1
                BY <1>3, <1>4, <2>1, <3>1, <3>3, HeapFacts DEF ExecRelease, Resurrected, HeapRecord
            <4> QED BY <4>1
        <3>4. CASE ~(heap[p].rc > 1) /\ ~QueuesDeinit(p)
            <4>1. heap' = SelfGuard(p)
                BY <2>1, <3>4 DEF ExecRelease
            <4>2. p \in DOMAIN heap /\ DOMAIN heap[p] = {"mem", "rc", "wc", "kdropped", "strong", "weak"}
                BY <1>3, <1>4, <3>1, HeapFacts DEF HeapRecord
            <4>3. heap'[p].wc = heap[p].wc + 1
                BY <4>1, <4>2 DEF SelfGuard
            <4> QED BY <3>1, <4>3
        <3> QED BY <3>2, <3>3, <3>4
    <2> QED BY <2>2, <2>3, HeldIfReferred
<1>5. CASE p # Null /\ d.op = "weak_release"
    <2>1. ExecWeakRelease(p, Tail(calls)) /\ heap[p].wc > 0
        BY <1>1, <1>3, <1>5, OwnedLives DEF Exec
    <2>2. \A o \in Obj : o # p => heap'[o] = heap[o]
        BY <2>1, <1>3, <1>5, HeapFacts DEF ExecWeakRelease
    <2>3. heap[p].rc \in Nat /\ heap[p].wc \in Nat /\ heap[p] \in HeapRecord
        BY <1>3, <1>5, CountsAreNat
    <2>4. /\ heap'[p].rc = heap[p].rc /\ heap'[p].wc = heap[p].wc - 1
          /\ heap[p].wc = 1 /\ heap[p].rc = 0 => heap'[p].mem = "freed"
        BY <1>3, <1>5, <2>1, <2>3, HeapFacts DEF ExecWeakRelease, HeapRecord
    <2>5. heap'[p].mem # "live" \/ heap'[p].rc > 0 \/ heap'[p].wc > 0
        <3>1. CASE heap[p].wc = 1 /\ heap[p].rc = 0
            BY <2>4, <3>1
        <3>2. CASE heap[p].wc # 1 \/ heap[p].rc # 0
            BY <2>1, <2>3, <2>4, <3>2
        <3> QED BY <3>1, <3>2
    <2> QED BY <2>2, <2>5, HeldIfReferred
<1> QED BY <1>1, <1>2, <1>4, <1>5 DEF Exec, Op
LEMMA ConstructedHolds ==
    ASSUME HInv, DeadAreHeld, NEW o \in Obj, heap' = Constructed(o)
    PROVE  DeadAreHeld'
<1>1. heap'[o].rc = 1 /\ \A p \in Obj : p # o => heap'[p] = heap[p]
    BY HeapFacts DEF Constructed, Unmade
<1> QED BY <1>1, HeldIfReferred

\* A statement retains: no count falls.
LEMMA RetainedHolds ==
    ASSUME HInv, DeadAreHeld, NEW h \in [Obj -> HeapRecord], NEW v \in Pointer,
           \A o \in Obj : h[o].mem = heap[o].mem /\ h[o].rc = heap[o].rc /\ h[o].wc = heap[o].wc,
           heap' = Retained(h, v) \/ heap' = WeakRetained(h, v)
    PROVE  DeadAreHeld'
<1>1. ASSUME NEW o \in Obj
      PROVE  /\ heap'[o].mem = heap[o].mem
             /\ heap'[o].rc = heap[o].rc \/ heap'[o].rc = heap[o].rc + 1
             /\ heap'[o].wc = heap[o].wc \/ heap'[o].wc = heap[o].wc + 1
    <2>1. CASE heap' = Retained(h, v)
        <3>1. /\ heap'[o].rc = h[o].rc + (IF o = v THEN 1 ELSE 0)
              /\ heap'[o].wc = h[o].wc /\ heap'[o].mem = h[o].mem
            BY <2>1, HeapAssumption, RetainedIs
        <3> QED BY <3>1, CountsAreNat
    <2>2. CASE heap' = WeakRetained(h, v)
        <3>1. /\ heap'[o].wc = h[o].wc + (IF o = v THEN 1 ELSE 0)
              /\ heap'[o].rc = h[o].rc /\ heap'[o].mem = h[o].mem
            BY <2>2, HeapAssumption, RetainedIs
        <3> QED BY <3>1, CountsAreNat
    <2> QED BY <2>1, <2>2
<1> QED BY <1>1, CountsAreNat DEF DeadAreHeld

LEMMA StatementHolds ==
    ASSUME HInv, DeadAreHeld, Statement
    PROVE  DeadAreHeld'
<1>1. \A v \in Named : v \in Pointer
    BY HeapFacts DEF Named, Pointer
<1>2. \A a \in Named \ {Null} : heap[a].strong \in Pointer /\ WeakGet(heap[a].weak) \in Pointer /\ a \in Obj
    <2>1. \A a \in Named \ {Null} : a \in Obj
        BY <1>1 DEF Pointer
    <2> QED BY <2>1, CountsAreNat DEF HeapRecord, WeakGet, Pointer
<1>3. ASSUME NEW x \in Name, NEW v \in Pointer, Assigned(heap, x, v)
      PROVE  DeadAreHeld'
    BY <1>3, HeapFacts, RetainedHolds DEF Assigned
<1>4. ASSUME NEW a \in Named, NEW v \in Named, Store(a, v) \/ StoreWeak(a, v)
      PROVE  DeadAreHeld'
    <2>1. a \in Obj /\ v \in Pointer
        BY <1>1, <1>2, <1>4 DEF Store, StoreWeak
    <2> DEFINE h1 == [heap EXCEPT ![a].strong = v]
               h2 == [heap EXCEPT ![a].weak = v]
    <2>2. /\ h1 \in [Obj -> HeapRecord] /\ h2 \in [Obj -> HeapRecord]
          /\ \A o \in Obj : h1[o].mem = heap[o].mem /\ h1[o].rc = heap[o].rc /\ h1[o].wc = heap[o].wc
          /\ \A o \in Obj : h2[o].mem = heap[o].mem /\ h2[o].rc = heap[o].rc /\ h2[o].wc = heap[o].wc
        BY <2>1, CountsAreNat, HeapFacts DEF HeapRecord
    <2>3. heap' = Retained(h1, v) \/ heap' = WeakRetained(h2, v)
        BY <1>4 DEF Store, StoreWeak
    <2> HIDE DEF h1, h2
    <2> QED BY <2>1, <2>2, <2>3, RetainedHolds
<1>5. ASSUME NEW x \in Name, NEW v \in Named, Copy(x, v)
      PROVE  DeadAreHeld'
    BY <1>1, <1>3, <1>5 DEF Copy
<1>6. ASSUME NEW x \in Name, NEW a \in Named, Load(x, a) \/ LoadWeak(x, a)
      PROVE  DeadAreHeld'
    BY <1>2, <1>3, <1>6 DEF Load, LoadWeak
<1>7. ASSUME NEW x \in Name, NEW o \in Obj, New(x, o)
      PROVE  DeadAreHeld'
    BY <1>7, ConstructedHolds DEF New
<1>8. ASSUME NEW o \in Obj, NewUnnamed(o)
      PROVE  DeadAreHeld'
    BY <1>8, ConstructedHolds DEF NewUnnamed
<1>9. CASE CloseScope
    BY <1>9, HeldIfReferred DEF CloseScope
<1> QED BY <1>4, <1>5, <1>6, <1>7, <1>8, <1>9 DEF Statement

LEMMA InitHolds == Init => DeadAreHeld
BY DEF Init, DeadAreHeld, Unmade

LEMMA NextHolds == HInv /\ DeadAreHeld /\ [Next]_vars => DeadAreHeld'
<1> SUFFICES ASSUME HInv, DeadAreHeld, [Next]_vars
             PROVE  DeadAreHeld'
    OBVIOUS
<1>1. CASE heap' = heap
    BY <1>1, HeldIfReferred
<1>2. Exec \/ Statement \/ heap' = heap
    BY DEF Next, StartDeinit, EndDeinit, EndSweep, vars
<1> QED BY <1>1, <1>2, ExecHolds, StatementHolds

\* Reach leads on, and is led to by what it is of.
LEMMA ReachLeadsOn ==
    ASSUME HInv, NEW X, NEW p \in Alive, p \in Reach(X)
    PROVE  heap[p].strong \in Reach(X) \union {Null}
<1>1. heap[p].strong \in Obj \union {Null}
    BY HeapFacts, CountsAreNat DEF Alive, HeapRecord, Pointer
<1> QED BY <1>1 DEF Reach, Led

\* From a set of living objects each of which another of them holds, one is on
\* a cycle: that of which the fewest lead to it.
LEMMA HeldAmongThemselves ==
    ASSUME HInv, NEW L \in SUBSET Alive, L # {}, \A z \in L : \E p \in L : heap[p].strong = z
    PROVE  \E z \in L : z \in OnCycle
<1> DEFINE Up(z) == {p \in L : z \in Reach({heap[p].strong})}
           Sizes == {Cardinality(Up(z)) : z \in L}
<1>1. Made \in SUBSET Obj /\ IsFiniteSet(Made) /\ Null \notin Obj /\ Alive \in SUBSET Made /\ L \in SUBSET Made
    BY HeapFacts DEF HeapTypes, Alive
<1>2. \A z \in L : IsFiniteSet(Up(z)) /\ Cardinality(Up(z)) \in Nat
    <2>1. IsFiniteSet(L)
        BY <1>1, FS_Subset
    <2>2. \A z \in L : Up(z) \in SUBSET L
        OBVIOUS
    <2> QED BY <2>1, <2>2, FS_Subset, FS_CardinalityType
<1>3. \A z \in L : Up(z) # {}
    <2> TAKE z \in L
    <2>1. PICK p \in L : heap[p].strong = z
        OBVIOUS
    <2>2. z \in Reach({z})
        BY <1>1 DEF Reach
    <2> QED BY <2>1, <2>2
<1>4. ASSUME NEW z \in L, NEW p \in Up(z)
      PROVE  Up(p) \subseteq Up(z)
    <2> SUFFICES ASSUME NEW q \in Up(p)
                 PROVE  q \in Up(z)
        OBVIOUS
    <2>1. z \in Reach({heap[p].strong}) /\ p \in Reach({heap[q].strong}) /\ p \in Alive /\ q \in L
        OBVIOUS
    <2>2. ASSUME NEW T \in SUBSET Obj, {heap[q].strong} \subseteq T \union {Null}, Led(T)
          PROVE  z \in T
        <3>1. p \in T
            BY <2>1, <2>2 DEF Reach
        <3>2. heap[p].strong \in T \union {Null}
            BY <2>1, <2>2, <3>1 DEF Led
        <3> QED BY <2>1, <2>2, <3>2 DEF Reach
    <2>3. z \in Reach({heap[q].strong})
        BY <1>1, <2>2 DEF Reach
    <2> QED BY <2>1, <2>3
<1>5. PICK z \in L : \A y \in L : ~(Cardinality(Up(y)) < Cardinality(Up(z)))
    <2>1. Sizes \subseteq Nat /\ Sizes # {}
        <3>1. \A y \in L : Cardinality(Up(y)) \in Nat
            BY <1>2
        <3> HIDE DEF Up
        <3> QED BY <3>1
    <2>2. PICK k \in Sizes : \A m \in Sizes : ~(<<m, k>> \in OpToRel(<, Nat))
        BY <2>1, WFMin, NatLessThanWellFounded
    <2>3. \A m \in Sizes : ~(m < k)
        BY <2>1, <2>2 DEF OpToRel
    <2> QED BY <2>2, <2>3
<1>6. PICK p \in Up(z) : TRUE
    BY <1>3
<1>7. Up(p) = Up(z)
    <2>1. p \in L /\ Up(p) \in SUBSET Up(z)
        BY <1>4
    <2>2. Cardinality(Up(p)) <= Cardinality(Up(z)) /\ ~(Cardinality(Up(p)) < Cardinality(Up(z)))
        BY <1>2, <1>5, <2>1, FS_Subset
    <2>3. Cardinality(Up(p)) = Cardinality(Up(z))
        <3>1. Cardinality(Up(p)) \in Nat /\ Cardinality(Up(z)) \in Nat
            BY <1>2, <2>1
        <3> HIDE DEF Up
        <3> QED BY <2>2, <3>1
    <2> QED BY <1>2, <2>1, <2>3, FS_Subset
<1>8. p \in Reach({heap[p].strong}) /\ p \in L
    BY <1>6, <1>7
<1> QED BY <1>8 DEF OnCycle

LEMMA LeaksAreCycles == HInv /\ DeadAreHeld => OnlyCyclesLeak
<1> SUFFICES ASSUME HInv, DeadAreHeld, calls = <<>>, queue = <<>>, self = Null, NEW o \in Made,
                    heap[o].mem # "freed"
             PROVE  \/ o \in Alive /\ o \in Reach({name[x] : x \in Name} \union OnCycle)
                    \/ o \notin Alive /\ \E p \in Alive : heap[p].weak = o
    BY DEF OnlyCyclesLeak
<1> DEFINE from == {name[x] : x \in Name} \union OnCycle
           lost == Alive \ Reach(from)
<1>1. Made \in SUBSET Obj /\ Null \notin Obj /\ Alive \in SUBSET Made /\ \A p \in Obj : heap[p] \in HeapRecord
    BY HeapFacts DEF Alive
<1>2. \A q : Q(q) = 0 /\ S(q) = (IF q = Null THEN 1 ELSE 0) /\ \A op : W(op, q) = 0
    BY CountNothing DEF Q, S, W
<1>3. \A p \in Made : \A op \in FieldOps : Holds(p, op) => p \in Alive
    BY <1>2, HoldsIs, HeapFacts DEF Alive
<1>4. CASE o \notin Alive
    <2>1. heap[o].rc = 0 /\ heap[o].mem = "live"
        BY <1>1, <1>4 DEF Alive, Made, HeapRecord
    <2>2. heap[o].wc > 0
        BY <1>1, <2>1 DEF DeadAreHeld
    <2>3. heap[o].wc = WH(o) /\ WH(o) \in Nat
        BY <1>2, OwnersAre, PartsAreNat, HeapFacts DEF HInv, WeakCountIsOwners
    <2>4. WeakHeldBy(o) # {}
        BY <2>2, <2>3, FS_EmptySet DEF WH
    <2> QED BY <1>3, <1>4, <2>4 DEF WeakHeldBy, FieldOps
<1>5. ASSUME NEW z \in Alive
      PROVE  (\E x \in Name : name[x] = z) \/ \E p \in Alive : heap[p].strong = z
    <2>1. z \in Made /\ heap[z].rc > 0 /\ z # Null
        BY <1>1 DEF Alive
    <2>2. heap[z].rc = N(z) + H(z) /\ N(z) \in Nat /\ H(z) \in Nat
        <3>1. heap[z].rc = N(z) + H(z) + Q(z) + S(z) + W("release", z)
            BY <2>1, OwnersAre DEF HInv, StrongCountIsOwners
        <3>2. N(z) \in Nat /\ H(z) \in Nat
            BY PartsAreNat, HeapFacts
        <3> QED BY <1>2, <2>1, <3>1, <3>2
    <2>3. N(z) # 0 \/ H(z) # 0
        BY <2>1, <2>2
    <2>4. NamedBy(z) # {} \/ HeldBy(z) # {}
        BY <2>3, FS_EmptySet DEF N, H
    <2> QED BY <1>3, <2>4 DEF NamedBy, HeldBy, FieldOps
<1>6. \A z \in from : z \in Obj => z \in Reach(from)
    BY <1>1 DEF Reach
<1>7. ASSUME o \in Alive, o \notin Reach(from)
      PROVE  FALSE
    <2>1. \A z \in lost : \E p \in lost : heap[p].strong = z
        <3> TAKE z \in lost
        <3>1. z \in Obj /\ z \notin from
            BY <1>1, <1>6
        <3>2. PICK p \in Alive : heap[p].strong = z
            BY <1>5, <3>1
        <3>3. p \notin Reach(from)
            BY <1>1, <3>1, <3>2, ReachLeadsOn
        <3> QED BY <3>2, <3>3
    <2>2. PICK z \in lost : z \in OnCycle
        BY <1>7, <2>1, HeldAmongThemselves
    <2> QED BY <1>1, <1>6, <2>2
<1> QED BY <1>4, <1>7

\* Between statements, whatever graph the program has built and taken apart, an
\* object is there only if a name or a cycle of strong fields leads to it, and
\* a dead one's header only for a weak field of a living one: what is not a
\* cycle is freed at once (docs/drop.md).
THEOREM OnlyCyclesEverLeak == Spec => []OnlyCyclesLeak
<1>1. Init => HInv /\ DeadAreHeld
    BY InitCounts, InitHolds
<1>2. HInv /\ DeadAreHeld /\ [Next]_vars => (HInv /\ DeadAreHeld)'
    BY NextCounts, NextHolds
<1> QED BY <1>1, <1>2, LeaksAreCycles, PTL DEF Spec

--------------------------------------------------------------------------------
(* The counts implement Lifetimes.                                         *)

Life == [Lifetime!Next]_(Lifetime!vars)

\* Most steps move counts only: no object is born, dies or goes.
LEMMA SameLife ==
    ASSUME HInv, QueuedOnce, queue' = queue, self' = self, \A o \in Obj : MadeSame(o),
           \A o \in Made : heap'[o].kdropped = heap[o].kdropped /\ (heap'[o].rc = 0 <=> heap[o].rc = 0)
    PROVE  QueuedOnce' /\ Life
<1>1. Made' = Made
    BY MadeStays
<1>2. QueuedOnce'
    BY DEF QueuedOnce, HInv, Closed, Known
<1>3. Started' = Started /\ {o \in Made : heap[o].rc = 0}' = {o \in Made : heap[o].rc = 0}
    BY <1>1 DEF Started
<1> QED BY <1>1, <1>2, <1>3 DEF Life, Lifetime!vars

LEMMA ReleaseLife ==
    ASSUME HInv, QueuedOnce, calls # <<>>, NEW p, p # Null, Head(calls) = Release(p),
           ExecRelease(p, Tail(calls)), UNCHANGED <<name, self, sweeping>>
    PROVE  QueuedOnce' /\ Life
<1>1. p \in Made /\ W("release", p) # 0 /\ p \in Obj /\ heap[p].rc > 0 /\ heap[p].rc \in Nat
    <2>1. p \in Made /\ W("release", p) # 0
        BY NextIs DEF Release, C
    <2> QED BY <2>1, OwnedLives, HeapFacts
<1>2. CASE heap[p].rc > 1
    <2>1. heap' = [heap EXCEPT ![p] = [heap[p] EXCEPT !.rc = heap[p].rc - 1]] /\ queue' = queue
        BY <1>1, <1>2, HeapFacts DEF ExecRelease, HeapRecord
    <2>2. /\ heap'[p].rc = heap[p].rc - 1 /\ heap'[p].mem = heap[p].mem /\ heap'[p].kdropped = heap[p].kdropped
          /\ \A o \in Obj : o # p => heap'[o] = heap[o]
        BY <1>1, <2>1, HeapFacts DEF HeapRecord
    <2> QED BY <1>1, <1>2, <2>1, <2>2, HeapFacts, SameLife DEF MadeSame
<1>3. CASE ~(heap[p].rc > 1) /\ QueuesDeinit(p)
    <2>1. /\ heap' = [heap EXCEPT ![p] = [[heap[p] EXCEPT !.kdropped = TRUE] EXCEPT !.rc = 1]]
          /\ queue' = Append(queue, p)
        BY <1>1, <1>3, HeapFacts DEF ExecRelease, Resurrected, HeapRecord
    <2>2. /\ heap'[p].rc = 1 /\ heap'[p].mem = heap[p].mem /\ heap'[p].kdropped = TRUE
          /\ \A o \in Obj : o # p => heap'[o] = heap[o]
        BY <1>1, <2>1, HeapFacts DEF HeapRecord
    <2>3. Made' = Made /\ Made \in SUBSET Obj /\ Null \notin Obj
        BY <2>2, MadeStays, HeapFacts DEF MadeSame
    <2>4. heap[p].kdropped = FALSE /\ p \in Finalized
        BY <1>1, <1>3, HeapFacts DEF QueuesDeinit, HeapRecord
    <2>5. p \notin Range(queue) /\ p # self /\ Range(queue') = Range(queue) \union {p}
        <3>1. Range(queue) = {queue[i] : i \in DOMAIN queue} /\ Range(queue') = {queue'[i] : i \in DOMAIN queue'}
            BY DEF Range
        <3>2. p \notin Range(queue) /\ p # self
            BY <1>1, <2>3, <2>4, <3>1 DEF QueuedOnce
        <3>3. Range(queue') = Range(queue) \union {p}
            BY SMTT(30), <2>1, <3>1, HeapFacts
        <3> QED BY <3>2, <3>3
    <2>6. QueuedOnce'
        <3>1. \A i \in DOMAIN queue' : heap'[queue'[i]].kdropped
            BY <2>1, <2>2, <2>3, HeapFacts DEF QueuedOnce, HInv, Closed
        <3>2. \A i, j \in DOMAIN queue' : queue'[i] = queue'[j] => i = j
            <4>1. \A i \in DOMAIN queue : queue[i] # p
                BY <2>5 DEF Range
            <4> QED BY <2>1, <4>1, HeapFacts DEF QueuedOnce
        <3>3. self # Null => heap'[self].kdropped /\ self \notin Range(queue')
            BY <2>2, <2>3, <2>5 DEF QueuedOnce, HInv, Closed, Known
        <3> QED BY <3>1, <3>2, <3>3 DEF QueuedOnce
    <2>7. Started' = Started /\ {o \in Made : heap[o].rc = 0}' = {o \in Made : heap[o].rc = 0}
        BY <1>1, <2>2, <2>3, <2>4, <2>5 DEF Started
    <2>8. p \in (Made \intersect Finalized) \ (Range(queue) \union Started \union {o \in Made : heap[o].rc = 0})
        BY <1>1, <2>4, <2>5 DEF Started
    <2>9. Lifetime!Dies(p)
        BY <2>1, <2>3, <2>7, <2>8 DEF Lifetime!Dies, Range, Lifetime!Range
    <2> QED BY <1>1, <2>6, <2>9 DEF Life, Lifetime!Next
<1>4. CASE ~(heap[p].rc > 1) /\ ~QueuesDeinit(p)
    <2>1. /\ heap' = [heap EXCEPT ![p] = [[heap[p] EXCEPT !.rc = 0] EXCEPT !.wc = heap[p].wc + 1]]
          /\ queue' = queue
        BY <1>1, <1>4, HeapFacts DEF ExecRelease, SelfGuard, HeapRecord
    <2>2. /\ heap'[p].rc = 0 /\ heap'[p].mem = heap[p].mem /\ heap'[p].kdropped = heap[p].kdropped
          /\ \A o \in Obj : o # p => heap'[o] = heap[o]
        BY <1>1, <2>1, HeapFacts DEF HeapRecord
    <2>3. Made' = Made /\ Made \in SUBSET Obj /\ Null \notin Obj
        BY <2>2, MadeStays, HeapFacts DEF MadeSame
    <2>4. p \notin Range(queue) /\ p # self
        <3>1. N(p) \in Nat /\ H(p) \in Nat /\ Q(p) \in Nat /\ S(p) \in {0, 1} /\ W("release", p) \in Nat
            BY HeapFacts, PartsAreNat
        <3>2. N(p) + H(p) + Q(p) + S(p) + W("release", p) = heap[p].rc
            BY <1>1, OwnersAre DEF HInv, StrongCountIsOwners
        <3>3. Q(p) = 0 /\ S(p) = 0
            BY <1>1, <1>4, <3>1, <3>2
        <3>4. p \notin Range(queue)
            BY <3>3, HeapFacts, CountZero DEF Q, Range
        <3> QED BY <3>3, <3>4 DEF S
    <2>5. QueuedOnce'
        BY <2>1, <2>2, <2>3 DEF QueuedOnce, HInv, Closed, Known
    <2>6. /\ Started' = Started
          /\ {o \in Made : heap[o].rc = 0}' = {o \in Made : heap[o].rc = 0} \union {p}
        BY <1>1, <2>1, <2>2, <2>3 DEF Started
    <2>7. /\ p \in Made \ {o \in Made : heap[o].rc = 0}
          /\ p \in Made \intersect Finalized => p \in Started
        BY <1>1, <1>4, <2>4 DEF Started, QueuesDeinit
    <2>8. Lifetime!Goes(p)
        BY <2>1, <2>3, <2>4, <2>6, <2>7 DEF Lifetime!Goes
    <2> QED BY <1>1, <2>5, <2>8 DEF Life, Lifetime!Next
<1> QED BY <1>2, <1>3, <1>4

LEMMA ExecLife ==
    ASSUME HInv, QueuedOnce, Exec
    PROVE  QueuedOnce' /\ Life
<1> DEFINE d == Head(calls)
<1>1. /\ calls # <<>> /\ d \in Op /\ d = C(d.op, d.obj) /\ UNCHANGED <<name, self, sweeping>>
      /\ d.op \in {"release", "weak_release"} \union FieldOps
    <2>1. d \in Op /\ d = C(d.op, d.obj)
        BY HeapFacts, HeadIs DEF Exec
    <2>2. d.op \in {"release", "weak_release"} \union FieldOps
        BY <2>1 DEF Op, FieldOps
    <2> QED BY <2>1, <2>2 DEF Exec
<1>2. CASE d.obj = Null \/ d.op \in FieldOps
    <2>1. UNCHANGED <<heap, queue>>
        BY <1>1, <1>2 DEF Exec, FieldOps
    <2> QED BY <1>1, <2>1, SameLife DEF MadeSame
<1>3. CASE d.obj # Null /\ d.op = "release"
    <2>1. d = Release(d.obj) /\ ExecRelease(d.obj, Tail(calls))
        BY <1>1, <1>3 DEF Exec, Release
    <2> QED BY <1>1, <1>3, <2>1, ReleaseLife
<1>4. CASE d.obj # Null /\ d.op = "weak_release"
    <2> DEFINE p == d.obj
               m == IF heap[p].wc = 1 /\ heap[p].rc = 0 THEN "freed" ELSE heap[p].mem
    <2>1. p \in Made /\ p \in Obj
        BY <1>1, <1>4, NextIs, HeapFacts
    <2>2. ExecWeakRelease(p, Tail(calls))
        BY <1>1, <1>4 DEF Exec
    <2>3. heap' = [heap EXCEPT ![p] = [[heap[p] EXCEPT !.wc = heap[p].wc - 1] EXCEPT !.mem = m]] /\ queue' = queue
        BY <2>1, <2>2, HeapFacts DEF ExecWeakRelease, HeapRecord
    <2>4. m # "unmade" /\ heap[p].mem # "unmade"
        BY <2>1 DEF Made
    <2> HIDE DEF p, m
    <2>5. /\ heap'[p].rc = heap[p].rc /\ heap'[p].mem = m /\ heap'[p].kdropped = heap[p].kdropped
          /\ \A o \in Obj : o # p => heap'[o] = heap[o]
        BY <2>1, <2>3, HeapFacts DEF HeapRecord
    <2> QED BY <1>1, <2>1, <2>3, <2>4, <2>5, HeapFacts, SameLife DEF MadeSame
<1> QED BY <1>1, <1>2, <1>3, <1>4

LEMMA AssignLife ==
    ASSUME HInv, QueuedOnce, NEW x \in Name, NEW v, Usable(v), Assigned(heap, x, v)
    PROVE  QueuedOnce' /\ Life
<1>1. heap' = Retained(heap, v) /\ queue' = queue /\ self' = self /\ v \in Pointer
    BY HeapFacts DEF Assigned, EndsStatement, Usable, Pointer
<1>2. \A o \in Obj : /\ heap'[o].rc = heap[o].rc + (IF o = v THEN 1 ELSE 0)
                     /\ heap'[o].mem = heap[o].mem /\ heap'[o].kdropped = heap[o].kdropped
    BY <1>1, HeapFacts, HeapAssumption, RetainedIs
<1>3. \A o \in Made : heap'[o].rc = 0 <=> heap[o].rc = 0
    <2>1. \A o \in Made : o \in Obj /\ heap[o].rc \in Nat /\ (o = v => heap[o].rc > 0)
        BY HeapFacts DEF Usable
    <2> QED BY <1>2, <2>1
<1> QED BY <1>1, <1>2, <1>3, HeapFacts, SameLife DEF MadeSame

LEMMA StoreLife ==
    ASSUME HInv, QueuedOnce, NEW a \in Named, NEW v \in Named, Store(a, v) \/ StoreWeak(a, v)
    PROVE  QueuedOnce' /\ Life
<1>1. a \in Made /\ Usable(v) /\ a \in Obj /\ v \in Pointer /\ Made \in SUBSET Obj
    BY NamedIsUsable, HeapFacts DEF Store, StoreWeak, Usable, Pointer
<1>2. queue' = queue /\ self' = self
    BY DEF Store, StoreWeak, EndsStatement
<1>3. CASE Store(a, v)
    <2> DEFINE h == [heap EXCEPT ![a] = [heap[a] EXCEPT !.strong = v]]
    <2>1. heap' = Retained(h, v)
        BY <1>1, <1>3, HeapFacts DEF Store, HeapRecord
    <2>2. h \in [Obj -> HeapRecord]
        <3>1. heap[a] \in HeapRecord
            BY <1>1, HeapFacts
        <3>2. [heap[a] EXCEPT !.strong = v] \in HeapRecord
            BY <1>1, <3>1, RecordsStay
        <3> QED BY <1>1, <3>2, HeapFacts
    <2>3. \A o \in Obj : h[o].rc = heap[o].rc /\ h[o].mem = heap[o].mem /\ h[o].kdropped = heap[o].kdropped
        BY <1>1, HeapFacts DEF HeapRecord
    <2> HIDE DEF h
    <2>4. \A o \in Obj : /\ heap'[o].rc = h[o].rc + (IF o = v THEN 1 ELSE 0)
                         /\ heap'[o].mem = h[o].mem /\ heap'[o].kdropped = h[o].kdropped
        BY <1>1, <2>1, <2>2, HeapAssumption, RetainedIs
    <2>5. \A o \in Made : heap'[o].rc = 0 <=> heap[o].rc = 0
        <3>1. \A o \in Made : o \in Obj /\ heap[o].rc \in Nat /\ (o = v => heap[o].rc > 0)
            BY <1>1, HeapFacts DEF Usable
        <3> QED BY <2>3, <2>4, <3>1
    <2> QED BY <1>1, <1>2, <2>3, <2>4, <2>5, SameLife DEF MadeSame
<1>4. CASE StoreWeak(a, v)
    <2> DEFINE h == [heap EXCEPT ![a] = [heap[a] EXCEPT !.weak = v]]
    <2>1. heap' = WeakRetained(h, v)
        BY <1>1, <1>4, HeapFacts DEF StoreWeak, HeapRecord
    <2>2. h \in [Obj -> HeapRecord]
        <3>1. heap[a] \in HeapRecord
            BY <1>1, HeapFacts
        <3>2. [heap[a] EXCEPT !.weak = v] \in HeapRecord
            BY <1>1, <3>1, RecordsStay
        <3> QED BY <1>1, <3>2, HeapFacts
    <2>3. \A o \in Obj : h[o].rc = heap[o].rc /\ h[o].mem = heap[o].mem /\ h[o].kdropped = heap[o].kdropped
        BY <1>1, HeapFacts DEF HeapRecord
    <2> HIDE DEF h
    <2>4. \A o \in Obj : heap'[o].rc = h[o].rc /\ heap'[o].mem = h[o].mem /\ heap'[o].kdropped = h[o].kdropped
        BY <1>1, <2>1, <2>2, HeapAssumption, RetainedIs
    <2> QED BY <1>1, <1>2, <2>3, <2>4, SameLife DEF MadeSame
<1> QED BY <1>3, <1>4

LEMMA MadeLife ==
    ASSUME HInv, QueuedOnce, NEW c \in Obj, heap[c].mem = "unmade", heap' = Constructed(c),
           queue' = queue, self' = self
    PROVE  QueuedOnce' /\ Life
<1>1. /\ \A o \in Obj : o # c => heap'[o] = heap[o]
      /\ heap'[c].rc = 1 /\ c \notin Made /\ Made' = Made \union {c}
    BY MakingKeeps
<1>2. heap'[c].kdropped = FALSE
    <2>1. [Unmade EXCEPT !.mem = "live", !.rc = 1].kdropped = FALSE
        BY DEF Unmade
    <2> QED BY <2>1, HeapFacts DEF Constructed
<1>3. Made \in SUBSET Obj /\ Null \notin Obj
    BY HeapFacts
<1>4. QueuedOnce'
    BY <1>1, <1>3 DEF QueuedOnce, HInv, Closed, Known
<1>5. Started' = Started /\ {o \in Made : heap[o].rc = 0}' = {o \in Made : heap[o].rc = 0}
    BY <1>1, <1>2, <1>3 DEF Started
<1>6. (Made \intersect Finalized)' \in {Made \intersect Finalized, (Made \intersect Finalized) \union {c}}
    BY <1>1
<1>7. Lifetime!Born(c)
    BY <1>1, <1>5, <1>6 DEF Lifetime!Born
<1> QED BY <1>4, <1>7 DEF Life, Lifetime!Next

LEMMA SweepLife ==
    ASSUME HInv, QueuedOnce, StartDeinit \/ \E panics \in BOOLEAN : EndDeinit(panics)
    PROVE  QueuedOnce' /\ Life
<1>1. heap' = heap /\ Made' = Made
    BY DEF StartDeinit, EndDeinit, Made
<1>2. CASE StartDeinit
    <2> DEFINE o == Head(queue)
    <2>1. self = Null /\ queue # <<>> /\ self' = o /\ queue' = Tail(queue) /\ queue \in Seq(Obj)
        BY <1>2, HeapFacts DEF StartDeinit, Swept
    <2>2. /\ 1 \in DOMAIN queue /\ queue[1] = o
          /\ DOMAIN queue' = 1 .. Len(queue) - 1 /\ DOMAIN queue = 1 .. Len(queue) /\ Len(queue) \in Nat
          /\ \A i \in 1 .. Len(queue) - 1 : queue'[i] = queue[i + 1]
        BY <2>1
    <2>3. \A i \in DOMAIN queue' : i + 1 \in DOMAIN queue /\ i + 1 # 1 /\ i \in Int /\ queue'[i] = queue[i + 1]
        BY <2>2
    <2>4. \A i \in DOMAIN queue : i = 1 \/ (i - 1 \in DOMAIN queue' /\ queue'[i - 1] = queue[i])
        BY <2>2
    <2>5. o \in Made /\ heap[o].kdropped
        BY <2>2 DEF QueuedOnce, HInv, Closed
    <2>6. \A i \in DOMAIN queue' : queue'[i] # o
        BY <2>2, <2>3 DEF QueuedOnce
    <2> HIDE DEF o
    <2>7. o \notin Range(queue') /\ Range(queue) = Range(queue') \union {o}
        BY <2>2, <2>6, <2>3, <2>4 DEF Range
    <2>8. QueuedOnce'
        <3>1. \A i \in DOMAIN queue' : heap[queue'[i]].kdropped
            BY <2>3 DEF QueuedOnce
        <3>2. \A i, j \in DOMAIN queue' : queue'[i] = queue'[j] => i = j
            <4> SUFFICES ASSUME NEW i \in DOMAIN queue', NEW j \in DOMAIN queue', queue'[i] = queue'[j]
                         PROVE  i = j
                OBVIOUS
            <4>1. i + 1 = j + 1 /\ i \in Int /\ j \in Int
                BY <2>3 DEF QueuedOnce
            <4> QED BY <4>1
        <3> QED BY <1>1, <2>1, <2>5, <2>7, <3>1, <3>2 DEF QueuedOnce
    <2>9. Started' = Started \union {o}
        BY <1>1, <2>5, <2>7 DEF Started
    <2>10. Lifetime!Runs
        BY <1>1, <2>1, <2>9 DEF Lifetime!Runs, o
    <2> QED BY <2>8, <2>10 DEF Life, Lifetime!Next
<1>3. CASE \E panics \in BOOLEAN : EndDeinit(panics)
    <2>1. self # Null /\ self' = Null /\ queue' = queue
        BY <1>3 DEF EndDeinit
    <2>2. QueuedOnce' /\ Started' = Started
        BY <1>1, <2>1 DEF QueuedOnce, Started
    <2>3. Lifetime!Ends
        BY <1>1, <2>1, <2>2 DEF Lifetime!Ends
    <2> QED BY <2>2, <2>3 DEF Life, Lifetime!Next
<1> QED BY <1>2, <1>3

LEMMA InitLife == Init => QueuedOnce /\ Lifetime!Init
<1> SUFFICES ASSUME Init
             PROVE  QueuedOnce /\ Lifetime!Init
    OBVIOUS
<1>1. Made = {} /\ Started = {} /\ queue = <<>> /\ self = Null
    BY DEF Init, Made, Unmade, Started
<1> QED BY <1>1 DEF QueuedOnce, Lifetime!Init

LEMMA NextLife == HInv /\ QueuedOnce /\ [Next]_vars => QueuedOnce' /\ Life
<1> SUFFICES ASSUME HInv, QueuedOnce, [Next]_vars
             PROVE  QueuedOnce' /\ Life
    OBVIOUS
<1>1. CASE Exec
    BY <1>1, ExecLife
<1>2. CASE Statement
    <2>1. ASSUME NEW x \in Name, NEW v \in Named, Copy(x, v)
          PROVE  QueuedOnce' /\ Life
        BY <2>1, NamedIsUsable, AssignLife DEF Copy
    <2>2. ASSUME NEW o \in Obj, NewUnnamed(o) \/ \E x \in Name : New(x, o)
          PROVE  QueuedOnce' /\ Life
        BY <2>2, MadeLife DEF New, NewUnnamed, EndsStatement
    <2>3. ASSUME NEW a \in Named, NEW v \in Named, Store(a, v) \/ StoreWeak(a, v)
          PROVE  QueuedOnce' /\ Life
        BY <2>3, StoreLife
    <2>4. ASSUME NEW x \in Name, NEW a \in Named, Load(x, a) \/ LoadWeak(x, a)
          PROVE  QueuedOnce' /\ Life
        BY <2>4, NamedIsUsable, AssignLife DEF Load, LoadWeak
    <2>5. CASE CloseScope
        BY <2>5, SameLife DEF CloseScope, EndsStatement, MadeSame
    <2> QED BY <1>2, <2>1, <2>2, <2>3, <2>4, <2>5 DEF Statement
<1>3. CASE StartDeinit \/ \E panics \in BOOLEAN : EndDeinit(panics)
    BY <1>3, SweepLife
<1>4. CASE EndSweep \/ UNCHANGED vars
    BY <1>4, SameLife DEF EndSweep, vars, MadeSame
<1> QED BY <1>1, <1>2, <1>3, <1>4 DEF Next

\* The two counts, the queue and the sweep give every object the lifetime
\* docs/drop.md promises: deinits run in the order of the deaths, one at a
\* time, once each, and before their object goes.
THEOREM CountsGiveLifetimes == Spec => DeinitsAsPromised
BY InitCounts, NextCounts, InitLife, NextLife, PTL DEF Spec, DeinitsAsPromised, Lifetime!Spec, Life
================================================================================
