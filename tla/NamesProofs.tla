------------------------------ MODULE NamesProofs ------------------------------
(* What the VM's lists of slots, cells and captured variables give a name is  *)
(* the binding the checker read (Names), for every text and every run of it.  *)
(*                                                                            *)
(* First the text: brackets close what they open, what a place sees is what   *)
(* is bound before it in the scopes around it, the slots of bindings that     *)
(* live together are apart (SlotsApart), and a function holds the cell of     *)
(* what a use in it captures (UseCaptures).  Then the run.  The VM keeps no   *)
(* scopes: the proof gives every scope an instance.  t[k] is the bracket      *)
(* scope k is an instance of, e[k] the instance each bracket around it has in *)
(* its chain, and h[<<k, d>>] the cell of the boxed binding d in instance k.  *)
(* Sound says that such t, e and h exist for the scopes, closures, cells and  *)
(* frames there are, and every step keeps it.                                 *)
EXTENDS Names, FiniteSetTheorems, SequenceTheorems, WellFoundedInduction, TLAPS

(* Brackets.  A text is a sequence of tokens; place i is before token i, and  *)
(* the last place behind the text.                                            *)
Written == prog \in Seq(Token)
Places == 1 .. Len(prog) + 1

\* A bounded set of numbers has a largest, any set of them a smallest.
LEMMA LargestOf ==
    ASSUME NEW S, NEW m \in Nat, S \subseteq 0 .. m, S # {}
    PROVE  Max(S) \in S /\ \A x \in S : x <= Max(S)
<1> DEFINE T == {m - x : x \in S}
<1>1. T \subseteq Nat /\ T # {}
  <2>1. \A x \in S : m - x \in Nat
    BY SMT
  <2> QED BY <2>1
<1>2. PICK y \in T : \A z \in T : ~(<<z, y>> \in OpToRel(<, Nat))
    BY <1>1, WFMin, NatLessThanWellFounded
<1>3. \A z \in T : ~(z < y)
    BY <1>1, <1>2 DEF OpToRel
<1>4. PICK x \in S : y = m - x
    OBVIOUS
<1>5. \A w \in S : x >= w
  <2> TAKE w \in S
  <2>1. ~(m - w < m - x)
      BY <1>3, <1>4
  <2> QED BY <2>1
<1>6. \E x1 \in S : \A w \in S : x1 >= w
    BY <1>5
<1>7. Max(S) \in S /\ \A w \in S : Max(S) >= w
    BY <1>6, Zenon DEF Max
<1> QED BY <1>7

LEMMA SmallestOf ==
    ASSUME NEW S, S \subseteq Nat, S # {}
    PROVE  Min(S) \in S /\ \A x \in S : Min(S) <= x
<1>2. PICK y \in S : \A z \in S : ~(<<z, y>> \in OpToRel(<, Nat))
    BY WFMin, NatLessThanWellFounded
<1>3. \A z \in S : ~(z < y)
    BY <1>2 DEF OpToRel
<1>4. \A z \in S : y =< z
    BY <1>3
<1>5. Min(S) \in S /\ \A w \in S : Min(S) =< w
    BY <1>4, Zenon DEF Min
<1> QED BY <1>5

LEMMA SizeIs == Written => Len(prog) \in Nat /\ Text \subseteq Places
BY LenProperties DEF Written, Text, Places

\* A count of the numbers below a place goes on by one at a member.
LEMMA CountsOn ==
    ASSUME NEW P, NEW i \in Nat, i >= 1
    PROVE  LET S(k) == {j \in 1 .. k - 1 : j \in P} IN
           /\ Cardinality(S(i)) \in Nat
           /\ Cardinality(S(i + 1)) = Cardinality(S(i)) + IF i \in P THEN 1 ELSE 0
<1> DEFINE S(k) == {j \in 1 .. k - 1 : j \in P}
<1>1. IsFiniteSet(1 .. i - 1)
    BY FS_Interval
<1>2. IsFiniteSet(S(i)) /\ Cardinality(S(i)) \in Nat
    BY <1>1, FS_Subset, FS_CardinalityType
<1>3. i \notin S(i)
    OBVIOUS
<1>4. ASSUME i \in P PROVE Cardinality(S(i + 1)) = Cardinality(S(i)) + 1
  <2>1. S(i + 1) = S(i) \cup {i}
      BY <1>4
  <2> HIDE DEF S
  <2> QED BY <1>2, <1>3, <1>4, <2>1, FS_AddElement
<1>5. ASSUME i \notin P PROVE Cardinality(S(i + 1)) = Cardinality(S(i))
  <2>1. S(i + 1) = S(i)
      BY <1>5
  <2> HIDE DEF S
  <2> QED BY <2>1
<1> HIDE DEF S
<1>6. Cardinality(S(i + 1)) = Cardinality(S(i)) + IF i \in P THEN 1 ELSE 0
    BY <1>2, <1>4, <1>5
<1> QED BY <1>2, <1>6 DEF S

\* How a token changes the depth.
LEMMA DepthSteps ==
    ASSUME Written, NEW i \in Text
    PROVE  /\ Depth(i) \in Int /\ Depth(i + 1) \in Int
           /\ Op(i) \in Brackets => Depth(i + 1) = Depth(i) + 1
           /\ Op(i) = "end" => Depth(i + 1) = Depth(i) - 1
           /\ Op(i) \notin Brackets \cup {"end"} => Depth(i + 1) = Depth(i)
<1> DEFINE Open == {j \in Nat : Op(j) \in Brackets}
           Shut == {j \in Nat : Op(j) = "end"}
           O(k) == {j \in 1 .. k - 1 : j \in Open}
           C(k) == {j \in 1 .. k - 1 : j \in Shut}
<1>1. i \in Nat /\ i >= 1
    BY SizeIs DEF Text
<1>2. \A k \in Nat : {j \in 1 .. k - 1 : Op(j) \in Brackets} = O(k) /\ {j \in 1 .. k - 1 : Op(j) = "end"} = C(k)
    OBVIOUS
<1>3. \A k \in Nat : Depth(k) = Cardinality(O(k)) - Cardinality(C(k))
    BY <1>2 DEF Depth
<1>4. i + 1 \in Nat
    BY <1>1
<1>5. Depth(i) = Cardinality(O(i)) - Cardinality(C(i)) /\ Depth(i + 1) = Cardinality(O(i + 1)) - Cardinality(C(i + 1))
    BY <1>1, <1>3, <1>4
<1>6. /\ i \in Open <=> Op(i) \in Brackets
      /\ i \in Shut <=> Op(i) = "end"
    BY <1>1
<1> HIDE DEF Open, Shut
<1>7. Cardinality(O(i)) \in Nat /\ Cardinality(O(i + 1)) = Cardinality(O(i)) + IF i \in Open THEN 1 ELSE 0
    BY <1>1, CountsOn
<1>8. Cardinality(C(i)) \in Nat /\ Cardinality(C(i + 1)) = Cardinality(C(i)) + IF i \in Shut THEN 1 ELSE 0
    BY <1>1, CountsOn
<1> HIDE DEF O, C
<1>9. "end" \notin Brackets
    BY DEF Brackets
<1> QED BY <1>5, <1>6, <1>7, <1>8, <1>9

\* How deep a place is.
LEMMA DepthIs ==
    ASSUME Written, NEW i \in Places
    PROVE  Depth(i) \in Int
<1>1. CASE i \in Text
    BY <1>1, DepthSteps
<1>2. CASE i = Len(prog) + 1 /\ Len(prog) \in Text
    BY <1>2, DepthSteps
<1>3. CASE i = 1
  <2>1. 1 .. i - 1 = {}
      BY <1>3
  <2> QED BY <2>1, FS_EmptySet DEF Depth
<1> QED BY <1>1, <1>2, <1>3, SizeIs DEF Places, Text

\* The way down passes every level, and comes to each by the end of a bracket.
LEMMA WayDown ==
    ASSUME Written, NEW i \in Places, NEW k \in Places, NEW level \in Int,
           i <= k, Depth(i) > level, Depth(k) <= level
    PROVE  \E m \in i .. k - 1 : Op(m) = "end" /\ Depth(m + 1) = level
<1> DEFINE S == {x \in i .. k : Depth(x) <= level}
           least == Min(S)
<1>1. i \in Nat /\ k \in Nat /\ i >= 1
    BY SizeIs DEF Places
<1>2. S \subseteq Nat /\ k \in S
    BY <1>1
<1>3. least \in S /\ \A x \in S : least <= x
    BY <1>2, SmallestOf
<1>4. least \in i .. k /\ Depth(least) <= level
    BY <1>3
<1>5. \A x \in i .. k : x < least => Depth(x) > level
  <2> TAKE x \in i .. k
  <2> HAVE x < least
  <2>1. x \notin S
      BY <1>1, <1>3, <1>4
  <2>2. x \in Places
      BY <1>1, SizeIs DEF Places
  <2> QED BY <2>1, <2>2, DepthIs
<1> HIDE DEF least, S
<1>6. least # i
    BY <1>4, DepthIs
<1> DEFINE m == least - 1
<1>7. m \in i .. k - 1 /\ m \in Text /\ m + 1 = least /\ m < least /\ m \in i .. k
    BY <1>1, <1>4, <1>6, SizeIs DEF Places, Text
<1> HIDE DEF m
<1>8. Depth(m) > level /\ Depth(m + 1) <= level
    BY <1>4, <1>5, <1>7
<1>9. Op(m) = "end" /\ Depth(m + 1) = level
    BY <1>7, <1>8, DepthSteps
<1> QED BY <1>7, <1>9

\* Where a bracket closes, and what is before it.
LEMMA ClosesIs ==
    ASSUME Written, NEW j \in Text, Op(j) \in Brackets
    PROVE  /\ Closes(j) \in j + 1 .. Len(prog) + 1
           /\ Closes(j) \in Text => Op(Closes(j)) = "end" /\ Depth(Closes(j) + 1) = Depth(j)
           /\ \A m \in j + 1 .. Closes(j) : Depth(m) > Depth(j)
<1> DEFINE C == {k \in j + 1 .. Len(prog) : Op(k) = "end" /\ Depth(k + 1) = Depth(j)}
           S == C \cup {Len(prog) + 1}
<1>1. Len(prog) \in Nat /\ j \in Nat /\ j >= 1 /\ j <= Len(prog)
    BY SizeIs DEF Text
<1>2. S \subseteq Nat /\ S # {}
    BY <1>1
<1>3. Closes(j) = Min(S)
    BY DEF Closes
<1>4. Closes(j) \in S /\ \A x \in S : Closes(j) <= x
    BY <1>2, <1>3, SmallestOf
<1>5. Closes(j) \in j + 1 .. Len(prog) + 1
    BY <1>1, <1>4
<1>6. Closes(j) \in Text => Closes(j) \in C
    BY <1>1, <1>4 DEF Text
<1>7. ASSUME NEW m \in j + 1 .. Closes(j) PROVE Depth(m) > Depth(j)
  <2>1. m \in Places /\ j + 1 \in Places /\ j \in Places /\ j + 1 <= m
      BY <1>1, <1>5 DEF Places
  <2>2. Depth(j) \in Int /\ Depth(m) \in Int /\ Depth(j + 1) > Depth(j)
      BY <2>1, DepthIs, DepthSteps
  <2> SUFFICES ASSUME Depth(m) <= Depth(j) PROVE FALSE
      BY <2>2
  <2>3. PICK x \in j + 1 .. m - 1 : Op(x) = "end" /\ Depth(x + 1) = Depth(j)
      BY <2>1, <2>2, WayDown
  <2>4. x \in C
      BY <1>1, <1>5, <2>3
  <2>5. Closes(j) <= x
      BY <1>4, <2>4
  <2> QED BY <1>1, <1>5, <2>5
<1> QED BY <1>5, <1>6, <1>7

\* Brackets nest.
LEMMA BracketsNest ==
    ASSUME Written, NEW j \in Text, NEW k \in Text, Op(j) \in Brackets, Op(k) \in Brackets,
           j < k, k <= Closes(j)
    PROVE  Closes(k) <= Closes(j) /\ (Closes(j) \in Text => Closes(k) < Closes(j))
<1>1. Len(prog) \in Nat /\ j \in Nat /\ k \in Nat /\ j >= 1 /\ k <= Len(prog)
    BY SizeIs DEF Text
<1>2. Closes(j) \in j + 1 .. Len(prog) + 1 /\ Closes(k) \in k + 1 .. Len(prog) + 1
    BY ClosesIs
<1>3. CASE Closes(j) \notin Text
    BY <1>1, <1>2, <1>3 DEF Text
<1>4. CASE Closes(j) \in Text
  <2> DEFINE e == Closes(j)
  <2>1. Op(e) = "end" /\ Depth(e + 1) = Depth(j) /\ e \in Nat /\ e <= Len(prog) /\ k <= e
      BY <1>1, <1>4, ClosesIs DEF Text
  <2>2. k # e
      BY <2>1 DEF Brackets
  <2>3. k \in j + 1 .. e /\ Depth(k) > Depth(j)
    <3>1. k \in j + 1 .. Closes(j)
        BY <1>1, <1>2
    <3> QED BY <3>1, ClosesIs
  <2> HIDE DEF e
  <2>4. k + 1 \in Places /\ e + 1 \in Places /\ k + 1 <= e + 1 /\ k \in Places /\ j \in Places
      BY <1>1, <2>1 DEF Places
  <2>5. Depth(k) \in Int /\ Depth(k + 1) > Depth(k) /\ Depth(j) \in Int
      BY <2>4, DepthIs, DepthSteps
  <2>6. Depth(e + 1) <= Depth(k)
      BY <2>1, <2>3, <2>5
  <2>7. PICK m \in k + 1 .. (e + 1) - 1 : Op(m) = "end" /\ Depth(m + 1) = Depth(k)
      BY <2>4, <2>5, <2>6, WayDown
  <2>8. m <= e
      BY <1>1, <2>1, <2>7
  <2>9. m # e
      BY <2>1, <2>3, <2>5, <2>7
  <2>10. Closes(k) <= m
    <3> DEFINE S == {x \in k + 1 .. Len(prog) : Op(x) = "end" /\ Depth(x + 1) = Depth(k)} \cup {Len(prog) + 1}
    <3>1. m \in S /\ S \subseteq Nat
        BY <1>1, <2>1, <2>7, <2>8
    <3>2. Closes(k) = Min(S)
        BY DEF Closes
    <3> HIDE DEF S
    <3> QED BY <3>1, <3>2, SmallestOf
  <2> QED BY <1>1, <1>2, <2>1, <2>7, <2>8, <2>9, <2>10 DEF e
<1> QED BY <1>3, <1>4

\* What is around what is around a place is around it, and of two brackets
\* around a place the earlier is around the later.
LEMMA AroundIs ==
    ASSUME Written, NEW i \in Places
    PROVE  /\ Around(i) \subseteq 0 .. i - 1 /\ 0 \in Around(i)
           /\ \A k \in Around(i) : k # 0 => k \in Text /\ Op(k) \in Brackets /\ k < i /\ Closes(k) >= i
           /\ \A k \in Text : Op(k) \in Brackets /\ k < i /\ Closes(k) >= i => k \in Around(i)
<1>1. i \in Nat /\ i >= 1 /\ Len(prog) \in Nat /\ i <= Len(prog) + 1
    BY SizeIs DEF Places
<1> QED BY <1>1 DEF Around, Text

\* The brackets around a bracket around a place are around the place.
LEMMA AroundChains ==
    ASSUME Written, NEW i \in Places, NEW s \in Around(i), s # 0
    PROVE  s \in Places /\ Around(s) \subseteq Around(i)
<1>1. s \in Text /\ Op(s) \in Brackets /\ s < i /\ Closes(s) >= i /\ s \in Places /\ s \in Nat /\ i \in Nat
    BY AroundIs, SizeIs DEF Places
<1>2. ASSUME NEW k \in Around(s), k # 0 PROVE k \in Around(i)
  <2>1. k \in Text /\ Op(k) \in Brackets /\ k < s /\ Closes(k) >= s /\ k \in Nat
      BY <1>1, <1>2, AroundIs, SizeIs DEF Places
  <2>2. Closes(k) \in k + 1 .. Len(prog) + 1 /\ Closes(s) \in s + 1 .. Len(prog) + 1 /\ Len(prog) \in Nat
      BY <1>1, <2>1, ClosesIs, SizeIs
  <2>3. s <= Closes(k)
      BY <1>1, <2>1, <2>2
  <2>4. Closes(s) <= Closes(k)
      BY <1>1, <2>1, <2>3, BracketsNest
  <2>5. k < i /\ Closes(k) >= i
      BY <1>1, <2>1, <2>2, <2>4
  <2> QED BY <2>1, <2>5, AroundIs
<1> QED BY <1>1, <1>2, AroundIs

\* Of two brackets around a place the outer is around the inner.
LEMMA AroundBoth ==
    ASSUME Written, NEW i \in Places, NEW k \in Around(i), NEW s \in Around(i), k < s
    PROVE  k \in Around(s)
<1>1. s # 0 /\ i \in Nat /\ s \in Nat /\ k \in Nat
  <2>1. s \in 0 .. i - 1 /\ k \in 0 .. i - 1 /\ i \in Nat
      BY AroundIs, SizeIs DEF Places
  <2> QED BY <2>1
<1>2. s \in Text /\ s < i /\ s \in Places
    BY <1>1, AroundIs, SizeIs
<1>3. CASE k = 0
    BY <1>2, <1>3, AroundIs
<1>4. CASE k # 0
  <2>1. k \in Text /\ Op(k) \in Brackets /\ Closes(k) >= i
      BY <1>4, AroundIs
  <2>2. Closes(k) \in k + 1 .. Len(prog) + 1 /\ Len(prog) \in Nat
      BY <2>1, ClosesIs, SizeIs
  <2>3. Closes(k) >= s
      BY <1>1, <1>2, <2>1, <2>2
  <2> QED BY <1>2, <2>1, <2>3, AroundIs
<1> QED BY <1>3, <1>4

\* The scope of a binding.
LEMMA InnermostIs ==
    ASSUME Written, NEW i \in Places
    PROVE  Max(Around(i)) \in Around(i) /\ \A x \in Around(i) : x <= Max(Around(i))
<1>1. Around(i) \subseteq 0 .. i - 1 /\ Around(i) # {} /\ i - 1 \in Nat
    BY AroundIs, SizeIs DEF Places
<1> QED BY <1>1, LargestOf

\* The scope a binding is in.
LEMMA ScopeIs ==
    ASSUME Written, NEW d \in Text
    PROVE  /\ d \in Places /\ ScopeOf(d) \in Nat /\ ScopeOf(d) <= d
           /\ Op(d) = "for" => ScopeOf(d) = d
           /\ Op(d) # "for" => ScopeOf(d) = Max(Around(d)) /\ ScopeOf(d) < d /\ ScopeOf(d) \in Around(d)
<1>1. d \in Places /\ d \in Nat
    BY SizeIs DEF Text
<1>2. CASE Op(d) = "for"
    BY <1>1, <1>2 DEF ScopeOf
<1>3. CASE Op(d) # "for"
  <2>1. ScopeOf(d) = Max(Around(d))
      BY <1>3 DEF ScopeOf
  <2>2. Max(Around(d)) \in Around(d) /\ Around(d) \subseteq 0 .. d - 1
      BY <1>1, InnermostIs, AroundIs
  <2>3. Max(Around(d)) \in 0 .. d - 1
      BY <2>2
  <2> QED BY <1>1, <1>3, <2>1, <2>2, <2>3
<1> QED BY <1>2, <1>3

\* Where a binding is in scope, so is all that was in scope where it was bound.
LEMMA ScopesChain ==
    ASSUME Written, NEW d \in Text, NEW i \in Places, d < i, ScopeOf(d) \in Around(i)
    PROVE  Around(d) \subseteq Around(i)
<1>1. d \in Places /\ d \in Nat /\ i \in Nat
    BY SizeIs DEF Text, Places
<1>2. CASE Op(d) = "for"
  <2>1. ScopeOf(d) = d
      BY <1>2, ScopeIs
  <2>2. d # 0
      BY SizeIs DEF Text
  <2> QED BY <2>1, <2>2, AroundChains
<1>3. CASE Op(d) # "for"
  <2> DEFINE s == ScopeOf(d)
  <2>1. s = Max(Around(d)) /\ s \in Around(d) /\ s \in Nat
      BY <1>3, ScopeIs
  <2>2. \A x \in Around(d) : x <= s
      BY <1>1, <2>1, InnermostIs
  <2> SUFFICES ASSUME NEW k \in Around(d) PROVE k \in Around(i)
      OBVIOUS
  <2>3. k <= s /\ k \in 0 .. d - 1
      BY <1>1, <2>2, AroundIs
  <2>4. CASE k = s
      BY <2>4
  <2>5. CASE k < s
    <3>1. k \in Around(s) /\ s # 0
        BY <1>1, <2>1, <2>3, <2>5, AroundBoth
    <3> QED BY <3>1, AroundChains
  <2> QED BY <2>1, <2>3, <2>4, <2>5
<1> QED BY <1>2, <1>3

\* A binding in scope at i was in scope at each place between where it still was.
LEMMA InScopeBetween ==
    ASSUME Written, NEW d \in Text, NEW x \in Places, NEW i \in Places, d < x, x <= i,
           ScopeOf(d) \in Around(i)
    PROVE  ScopeOf(d) \in Around(x)
<1>1. d \in Nat /\ x \in Nat /\ i \in Nat /\ ScopeOf(d) \in Nat /\ ScopeOf(d) <= d
    BY ScopeIs, SizeIs DEF Text, Places
<1>2. CASE ScopeOf(d) = 0
    BY <1>2, AroundIs
<1>3. CASE ScopeOf(d) # 0
  <2>1. ScopeOf(d) \in Text /\ Op(ScopeOf(d)) \in Brackets /\ Closes(ScopeOf(d)) >= i
      BY <1>3, AroundIs
  <2>2. Closes(ScopeOf(d)) \in ScopeOf(d) + 1 .. Len(prog) + 1 /\ Len(prog) \in Nat
      BY <2>1, ClosesIs, SizeIs
  <2>3. ScopeOf(d) < x /\ Closes(ScopeOf(d)) >= x
      BY <1>1, <2>1, <2>2
  <2> QED BY <2>1, <2>3, AroundIs
<1> QED BY <1>2, <1>3
--------------------------------------------------------------------------------
(* Slots.  What is bound and not in a cell fills one; a loop has its state    *)
(* besides, which is in two, or three when its variable is in a cell.         *)
Binding == {d \in Text : Op(d) \in Binders}
Width(d) == IF Op(d) = "for" THEN 3 ELSE IF Boxed(d) THEN 0 ELSE 1
Slots(d) == NextSlot(d) .. NextSlot(d) + Width(d) - 1
Live(d) == {j \in 1 .. d - 1 : Op(j) \in Binders /\ FunOf(j) = FunOf(d) /\ ~Boxed(j) /\ ScopeOf(j) \in Around(d)}

\* The next slot, as a sum: one for each live local, a loop's state for each
\* loop before.
LEMMA NextSlotIs ==
    ASSUME Written, NEW d \in Text
    PROVE  /\ IsFiniteSet(Live(d)) /\ Live(d) \subseteq 1 .. d - 1 /\ Cardinality(Live(d)) \in Nat
           /\ IsFiniteSet(LoopsBefore(d)) /\ LoopsBefore(d) \subseteq 1 .. d - 1 /\ Cardinality(LoopsBefore(d)) \in Nat
           /\ Cardinality({j \in LoopsBefore(d) : Boxed(j)}) \in Nat
           /\ NextSlot(d) = Cardinality(Live(d)) + 2 * Cardinality(LoopsBefore(d))
                              + Cardinality({j \in LoopsBefore(d) : Boxed(j)})
           /\ NextSlot(d) \in Nat
<1> DEFINE inCells == {j \in LoopsBefore(d) : Boxed(j)}
<1>1. d \in Nat /\ d >= 1
    BY SizeIs DEF Text
<1>2. IsFiniteSet(1 .. d - 1)
    BY <1>1, FS_Interval
<1>3. Locals(d) \subseteq 1 .. d - 1 /\ Released(d) \subseteq Locals(d) /\ Live(d) \subseteq 1 .. d - 1
      /\ LoopsBefore(d) \subseteq 1 .. d - 1 /\ inCells \subseteq 1 .. d - 1
    BY DEF Locals, Released, Live, LoopsBefore
<1>4. Live(d) = Locals(d) \ Released(d) /\ Live(d) \cup Released(d) = Locals(d) /\ Live(d) \cap Released(d) = {}
    BY DEF Locals, Released, Live
<1>5. IsFiniteSet(Live(d)) /\ IsFiniteSet(Released(d)) /\ IsFiniteSet(LoopsBefore(d)) /\ IsFiniteSet(inCells)
  <2>1. Released(d) \subseteq 1 .. d - 1
      BY <1>3
  <2> QED BY <1>2, <1>3, <2>1, FS_Subset
<1> HIDE DEF inCells
<1>6. Cardinality(Live(d)) \in Nat /\ Cardinality(Released(d)) \in Nat /\ Cardinality(LoopsBefore(d)) \in Nat
      /\ Cardinality(inCells) \in Nat
    BY <1>5, FS_CardinalityType
<1>7. Cardinality(Locals(d)) = Cardinality(Live(d)) + Cardinality(Released(d))
  <2>1. Cardinality(Live(d) \cup Released(d))
          = Cardinality(Live(d)) + Cardinality(Released(d)) - Cardinality(Live(d) \cap Released(d))
      BY <1>5, FS_Union
  <2>2. Cardinality(Live(d) \cap Released(d)) = 0
      BY <1>4, FS_EmptySet
  <2> QED BY <1>4, <1>6, <2>1, <2>2
<1>8. NextSlot(d) = Cardinality(Live(d)) + 2 * Cardinality(LoopsBefore(d)) + Cardinality(inCells)
  <2>1. NextSlot(d) = Cardinality(Locals(d)) - Cardinality(Released(d))
                        + (2 * Cardinality(LoopsBefore(d)) + Cardinality(inCells))
      BY DEF NextSlot, LoopSlots, inCells
  <2> QED BY <1>6, <1>7, <2>1
<1>9. NextSlot(d) \in Nat
    BY <1>6, <1>8
<1> QED BY <1>3, <1>5, <1>6, <1>8, <1>9 DEF inCells

\* The number of elements of a set is at most that of one around it, and less by
\* those it lacks.
LEMMA GrownBy ==
    ASSUME NEW S, NEW T, IsFiniteSet(T), S \subseteq T
    PROVE  /\ IsFiniteSet(S) /\ Cardinality(S) \in Nat /\ Cardinality(T) \in Nat /\ Cardinality(S) <= Cardinality(T)
           /\ \A x \in T : x \notin S => Cardinality(S) + 1 <= Cardinality(T)
<1>1. IsFiniteSet(S) /\ Cardinality(S) <= Cardinality(T) /\ Cardinality(S) \in Nat /\ Cardinality(T) \in Nat
    BY FS_Subset, FS_CardinalityType
<1>2. ASSUME NEW x \in T, x \notin S PROVE Cardinality(S) + 1 <= Cardinality(T)
  <2>1. Cardinality(S \cup {x}) = Cardinality(S) + 1
      BY <1>1, <1>2, FS_AddElement
  <2>2. S \cup {x} \subseteq T
      BY <1>2
  <2>3. Cardinality(S \cup {x}) <= Cardinality(T)
      BY <2>2, FS_Subset
  <2> QED BY <2>1, <2>3
<1> QED BY <1>1, <1>2

\* What is bound where another binding is in scope comes behind its slots.
LEMMA SlotsGrow ==
    ASSUME Written, NEW c \in Binding, NEW d \in Text, c < d, FunOf(c) = FunOf(d), ScopeOf(c) \in Around(d)
    PROVE  NextSlot(c) + Width(c) <= NextSlot(d)
<1> DEFINE inCells(x) == {j \in LoopsBefore(x) : Boxed(j)}
<1>1. c \in Text /\ Op(c) \in Binders /\ c \in Nat /\ d \in Nat /\ c >= 1 /\ d \in Places
    BY SizeIs DEF Binding, Text
<1>2. Live(c) \subseteq Live(d)
  <2>1. Around(c) \subseteq Around(d)
      BY <1>1, ScopesChain
  <2> QED BY <1>1, <2>1 DEF Live
<1>3. c \notin Live(c) /\ (~Boxed(c) => c \in Live(d))
    BY <1>1 DEF Live
<1>4. LoopsBefore(c) \subseteq LoopsBefore(d) /\ c \notin LoopsBefore(c) /\ (Op(c) = "for" => c \in LoopsBefore(d))
    BY <1>1 DEF LoopsBefore
<1>5. inCells(c) \subseteq inCells(d) /\ c \notin inCells(c) /\ (Op(c) = "for" /\ Boxed(c) => c \in inCells(d))
    BY <1>4
<1>6. IsFiniteSet(Live(d)) /\ IsFiniteSet(LoopsBefore(d))
    BY NextSlotIs
<1>7. IsFiniteSet(inCells(d))
    BY <1>6, FS_Subset
<1>8. /\ NextSlot(c) = Cardinality(Live(c)) + 2 * Cardinality(LoopsBefore(c)) + Cardinality(inCells(c))
      /\ NextSlot(d) = Cardinality(Live(d)) + 2 * Cardinality(LoopsBefore(d)) + Cardinality(inCells(d))
    BY <1>1, NextSlotIs
<1> HIDE DEF inCells
<1>9. /\ Cardinality(Live(c)) \in Nat /\ Cardinality(Live(d)) \in Nat /\ Cardinality(Live(c)) <= Cardinality(Live(d))
      /\ ~Boxed(c) => Cardinality(Live(c)) + 1 <= Cardinality(Live(d))
    BY <1>2, <1>3, <1>6, GrownBy
<1>10. /\ Cardinality(LoopsBefore(c)) \in Nat /\ Cardinality(LoopsBefore(d)) \in Nat
       /\ Cardinality(LoopsBefore(c)) <= Cardinality(LoopsBefore(d))
       /\ Op(c) = "for" => Cardinality(LoopsBefore(c)) + 1 <= Cardinality(LoopsBefore(d))
    BY <1>4, <1>6, GrownBy
<1>11. /\ Cardinality(inCells(c)) \in Nat /\ Cardinality(inCells(d)) \in Nat /\ Cardinality(inCells(c)) <= Cardinality(inCells(d))
       /\ Op(c) = "for" /\ Boxed(c) => Cardinality(inCells(c)) + 1 <= Cardinality(inCells(d))
    BY <1>5, <1>7, GrownBy
<1>12. CASE Op(c) = "for" /\ Boxed(c)
    BY <1>8, <1>9, <1>10, <1>11, <1>12 DEF Width
<1>13. CASE Op(c) = "for" /\ ~Boxed(c)
    BY <1>8, <1>9, <1>10, <1>11, <1>13 DEF Width
<1>14. CASE Op(c) # "for"
    BY <1>8, <1>9, <1>10, <1>11, <1>14 DEF Width
<1> QED BY <1>12, <1>13, <1>14

\* Two bindings of one function that are in scope at one place have no slot in
\* common: a slot is used again when the binding in it is gone (declare_local
\* and pop_scope of src/src/compiler.rs, and the slots of a loop's state).
THEOREM SlotsApart ==
    ASSUME Written, NEW i \in Places, NEW c \in Binding, NEW d \in Binding, c # d, c < i, d < i,
           FunOf(c) = FunOf(d), ScopeOf(c) \in Around(i), ScopeOf(d) \in Around(i)
    PROVE  Slots(c) \cap Slots(d) = {}
<1>1. ASSUME NEW x \in Binding, NEW y \in Binding, x < y, y < i, FunOf(x) = FunOf(y), ScopeOf(x) \in Around(i)
      PROVE  Slots(x) \cap Slots(y) = {}
  <2>1. x \in Text /\ y \in Text /\ y \in Places /\ x \in Nat /\ y \in Nat /\ i \in Nat
      BY SizeIs DEF Binding, Text, Places
  <2>2. ScopeOf(x) \in Around(y)
    <3>1. y <= i
        BY <1>1, <2>1
    <3> QED BY <1>1, <2>1, <3>1, InScopeBetween
  <2>3. NextSlot(x) + Width(x) <= NextSlot(y)
      BY <1>1, <2>1, <2>2, SlotsGrow
  <2>4. NextSlot(x) \in Nat /\ NextSlot(y) \in Nat /\ Width(x) \in Nat /\ Width(y) \in Nat
      BY <2>1, NextSlotIs DEF Width
  <2> QED BY <2>3, <2>4 DEF Slots
<1>2. c \in Nat /\ d \in Nat
    BY SizeIs DEF Binding, Text
<1>3. CASE c < d
    BY <1>1, <1>3
<1>4. CASE d < c
    BY <1>1, <1>4
<1> QED BY <1>2, <1>3, <1>4

--------------------------------------------------------------------------------
(* From a place to the next.                                                  *)
Reach(j) == IF j = 0 THEN {0} ELSE Around(j) \cup {j}
Inner(i) == Max(Around(i))
\* Nothing is closed that was not opened; in the end everything is closed.
EndsClose == \A i \in Text : Op(i) = "end" => Depth(i) > 0
AllClosed == EndsClose /\ Depth(Len(prog) + 1) = 0

\* The brackets around a place are the innermost of them with those around it.
LEMMA AroundReaches ==
    ASSUME Written, NEW i \in Places
    PROVE  Around(i) = Reach(Inner(i))
<1>1. Inner(i) \in Around(i) /\ \A x \in Around(i) : x <= Inner(i)
    BY InnermostIs DEF Inner
<1>2. Around(i) \subseteq 0 .. i - 1 /\ 0 \in Around(i) /\ i \in Nat
    BY AroundIs, SizeIs DEF Places
<1> DEFINE s == Inner(i)
<1>3. s \in Nat /\ \A x \in Around(i) : x \in Nat
    BY <1>1, <1>2
<1>4. CASE s = 0
    BY <1>1, <1>2, <1>3, <1>4 DEF Reach
<1>5. CASE s # 0
  <2>1. Around(s) \subseteq Around(i)
      BY <1>1, <1>5, AroundChains
  <2>2. \A x \in Around(i) : x < s => x \in Around(s)
      BY <1>1, AroundBoth
  <2>3. \A x \in Around(i) : x < s \/ x = s
      BY <1>1, <1>3
  <2> QED BY <1>1, <1>5, <2>1, <2>2, <2>3 DEF Reach
<1> QED BY <1>4, <1>5

LEMMA ReachOfBracket ==
    ASSUME Written, NEW b \in Text, Op(b) \in Brackets
    PROVE  Reach(b) = Around(b) \cup {b} /\ b # 0 /\ b \in Places
BY SizeIs DEF Reach, Text

\* What is around the place behind a token, by the kind of token.
LEMMA AfterPlain ==
    ASSUME Written, NEW i \in Text, Op(i) \notin Brackets \cup {"end"}
    PROVE  i + 1 \in Places /\ Around(i + 1) = Around(i)
<1>1. i \in Nat /\ i >= 1 /\ Len(prog) \in Nat /\ i \in Places /\ i + 1 \in Places
    BY SizeIs DEF Text, Places
<1>2. ASSUME NEW k \in Text, Op(k) \in Brackets PROVE k < i + 1 /\ Closes(k) >= i + 1 <=> k < i /\ Closes(k) >= i
  <2>1. k \in Nat /\ Closes(k) \in k + 1 .. Len(prog) + 1
      BY <1>2, ClosesIs DEF Text
  <2>2. k # i
      BY <1>2
  <2>3. Closes(k) # i
    <3>1. Closes(k) = i => Closes(k) \in Text /\ Op(Closes(k)) # "end"
        OBVIOUS
    <3> QED BY <1>2, <3>1, ClosesIs
  <2> QED BY <1>1, <2>1, <2>2, <2>3
<1>3. Around(i) = {0} \cup {k \in Text : Op(k) \in Brackets /\ k < i /\ Closes(k) >= i}
    BY <1>1, AroundIs
<1>4. Around(i + 1) = {0} \cup {k \in Text : Op(k) \in Brackets /\ k < i + 1 /\ Closes(k) >= i + 1}
    BY <1>1, AroundIs
<1> QED BY <1>1, <1>2, <1>3, <1>4

LEMMA AfterBracket ==
    ASSUME Written, NEW i \in Text, Op(i) \in Brackets
    PROVE  i + 1 \in Places /\ Around(i + 1) = Around(i) \cup {i} /\ Inner(i + 1) = i
<1>1. i \in Nat /\ i >= 1 /\ Len(prog) \in Nat /\ i \in Places /\ i + 1 \in Places
    BY SizeIs DEF Text, Places
<1>2. ASSUME NEW k \in Text, Op(k) \in Brackets, k # i
      PROVE k < i + 1 /\ Closes(k) >= i + 1 <=> k < i /\ Closes(k) >= i
  <2>1. k \in Nat /\ Closes(k) \in k + 1 .. Len(prog) + 1
      BY <1>2, ClosesIs DEF Text
  <2>2. Closes(k) # i
    <3>1. Closes(k) = i => Closes(k) \in Text /\ Op(Closes(k)) # "end"
        BY DEF Brackets
    <3> QED BY <1>2, <3>1, ClosesIs
  <2> QED BY <1>1, <1>2, <2>1, <2>2
<1>3. Around(i) = {0} \cup {k \in Text : Op(k) \in Brackets /\ k < i /\ Closes(k) >= i}
    BY <1>1, AroundIs
<1>4. Around(i + 1) = {0} \cup {k \in Text : Op(k) \in Brackets /\ k < i + 1 /\ Closes(k) >= i + 1}
    BY <1>1, AroundIs
<1>5. i < i + 1 /\ Closes(i) >= i + 1 /\ ~(i < i)
    BY <1>1, ClosesIs
<1>6. Around(i + 1) = Around(i) \cup {i}
    BY <1>2, <1>3, <1>4, <1>5
<1>7. Inner(i + 1) \in Around(i + 1) /\ i <= Inner(i + 1) /\ Around(i) \subseteq 0 .. i - 1
    BY <1>1, <1>6, InnermostIs, AroundIs DEF Inner
<1>8. Inner(i + 1) = i
    BY <1>1, <1>6, <1>7
<1> QED BY <1>1, <1>6, <1>8

\* Behind its end a bracket is gone, and nothing else is.
LEMMA AfterClosed ==
    ASSUME Written, NEW b \in Text, Op(b) \in Brackets, Closes(b) \in Text
    PROVE  Closes(b) + 1 \in Places /\ Around(Closes(b) + 1) = Around(b)
<1> DEFINE e == Closes(b)
<1>1. b \in Nat /\ b >= 1 /\ Len(prog) \in Nat /\ b \in Places /\ e + 1 \in Places /\ e \in Nat /\ b < e /\ e <= Len(prog)
    BY ClosesIs, SizeIs DEF Text, Places
<1>2. Op(e) = "end"
    BY ClosesIs
<1> HIDE DEF e
<1>3. ASSUME NEW k \in Text, Op(k) \in Brackets
      PROVE  k < e + 1 /\ Closes(k) >= e + 1 <=> k < b /\ Closes(k) >= b
  <2>1. k \in Nat /\ Closes(k) \in k + 1 .. Len(prog) + 1
      BY <1>3, ClosesIs DEF Text
  <2>2. k # e
      BY <1>2, <1>3 DEF Brackets
  <2>3. CASE k < b
    <3>1. Closes(k) >= b => b <= Closes(k)
        BY <1>1, <2>1
    <3>2. Closes(k) >= b => e <= Closes(k) /\ (Closes(k) \in Text => e < Closes(k))
        BY <1>3, <2>3, <3>1, BracketsNest DEF e
    <3>3. Closes(k) \in Text \/ Closes(k) = Len(prog) + 1
        BY <1>1, <2>1 DEF Text
    <3> QED BY <1>1, <2>1, <2>3, <3>2, <3>3
  <2>4. CASE k = b
      BY <1>1, <2>4 DEF e
  <2>5. CASE k > b
    <3>1. k <= e => Closes(k) < e
        BY <1>1, <1>3, <2>5, BracketsNest DEF e
    <3> QED BY <1>1, <2>1, <2>2, <2>5, <3>1
  <2> QED BY <1>1, <2>1, <2>3, <2>4, <2>5
<1>4. Around(b) = {0} \cup {k \in Text : Op(k) \in Brackets /\ k < b /\ Closes(k) >= b}
    BY <1>1, AroundIs
<1>5. Around(e + 1) = {0} \cup {k \in Text : Op(k) \in Brackets /\ k < e + 1 /\ Closes(k) >= e + 1}
    BY <1>1, AroundIs
<1> QED BY <1>1, <1>3, <1>4, <1>5 DEF e

\* The end of a bracket is the end of the innermost one.
LEMMA EndIs ==
    ASSUME Written, EndsClose, NEW e \in Text, Op(e) = "end"
    PROVE  LET b == Inner(e) IN
           /\ b \in Text /\ Op(b) \in Brackets /\ Closes(b) = e /\ Around(e) = Around(b) \cup {b}
           /\ \A j \in Text : Op(j) \in Brackets /\ Closes(j) = e => j = b
<1> DEFINE level == Depth(e) - 1
           S == {x \in 1 .. e - 1 : Depth(x) <= level}
           b == Max(S)
<1>1. e \in Nat /\ e >= 1 /\ Len(prog) \in Nat /\ e <= Len(prog) /\ e \in Places /\ 1 \in Places
    BY SizeIs DEF Text, Places
<1>2. Depth(e) \in Int /\ Depth(e) > 0 /\ Depth(1) = 0 /\ level \in Int /\ level >= 0
  <2>1. 1 .. 1 - 1 = {}
      OBVIOUS
  <2>2. Depth(1) = 0
      BY <2>1, FS_EmptySet DEF Depth
  <2>3. Depth(e) \in Int
      BY <1>1, DepthIs
  <2> QED BY <2>2, <2>3 DEF EndsClose
<1> HIDE DEF level
<1>3. e # 1 /\ 1 \in S /\ S \subseteq 0 .. e
    BY <1>1, <1>2
<1>4. b \in S /\ \A x \in S : x <= b
    BY <1>1, <1>3, LargestOf
<1>5. b \in 1 .. e - 1 /\ Depth(b) <= level
    BY <1>4
<1>6. \A x \in b + 1 .. e : Depth(x) > level
  <2> TAKE x \in b + 1 .. e
  <2>1. x \in Places /\ Depth(x) \in Int
      BY <1>1, <1>5, DepthIs DEF Places
  <2>2. CASE x = e
      BY <1>2, <2>2 DEF level
  <2>3. CASE x # e
    <3>1. x \notin S
        BY <1>1, <1>4, <1>5
    <3> QED BY <1>1, <1>5, <2>1, <2>3, <3>1, <1>2
  <2> QED BY <2>2, <2>3
<1> HIDE DEF b, S
<1>7. b \in Text /\ b \in Nat /\ b < e /\ b + 1 \in b + 1 .. e
    BY <1>1, <1>5 DEF Text
<1>8. Depth(b + 1) > level
    BY <1>6, <1>7
<1>9. Op(b) \in Brackets /\ Depth(b) = level
    BY <1>2, <1>5, <1>7, <1>8, DepthSteps
<1>10. Depth(e + 1) = Depth(b)
    BY <1>2, <1>9, DepthSteps DEF level
<1>11. Closes(b) = e
  <2> DEFINE C == {k \in b + 1 .. Len(prog) : Op(k) = "end" /\ Depth(k + 1) = Depth(b)} \cup {Len(prog) + 1}
  <2>1. Closes(b) = Min(C)
      BY DEF Closes
  <2>2. e \in C /\ C \subseteq Nat
      BY <1>1, <1>7, <1>10
  <2>3. Closes(b) <= e /\ Closes(b) \in C
      BY <2>1, <2>2, SmallestOf
  <2>4. Closes(b) \in b + 1 .. e
      BY <1>1, <1>7, <2>3
  <2>5. Closes(b) \in Text
      BY <1>1, <1>7, <2>4 DEF Text
  <2>6. Depth(Closes(b) + 1) = level
      BY <1>7, <1>9, <2>5, ClosesIs
  <2>7. ~(Closes(b) + 1 \in b + 1 .. e)
      BY <1>2, <1>6, <2>6
  <2> QED BY <1>1, <1>7, <2>4, <2>7
<1>12. ASSUME NEW j \in Text, Op(j) \in Brackets, Closes(j) = e PROVE j = b
  <2>1. j \in Nat /\ Closes(j) \in j + 1 .. Len(prog) + 1
      BY <1>12, ClosesIs DEF Text
  <2>2. j < e
      BY <1>1, <1>12, <2>1
  <2>3. CASE j < b
      BY <1>1, <1>7, <1>9, <1>11, <1>12, <2>1, <2>3, BracketsNest
  <2>4. CASE b < j
      BY <1>1, <1>7, <1>9, <1>11, <1>12, <2>1, <2>2, <2>4, BracketsNest
  <2> QED BY <1>7, <2>1, <2>3, <2>4
<1>13. Around(e) = Around(b) \cup {b}
  <2>1. b \in Around(e)
      BY <1>1, <1>7, <1>9, <1>11, AroundIs
  <2>2. b # 0 /\ b \in Places
      BY <1>7, SizeIs DEF Text
  <2>3. Around(b) \subseteq Around(e)
      BY <1>1, <2>1, <2>2, AroundChains
  <2>4. ASSUME NEW k \in Around(e), k # 0, k # b PROVE k \in Around(b)
    <3>1. k \in Text /\ Op(k) \in Brackets /\ k < e /\ Closes(k) >= e
        BY <1>1, <2>4, AroundIs
    <3>2. Closes(k) \in k + 1 .. Len(prog) + 1 /\ k \in Nat
        BY <3>1, ClosesIs DEF Text
    <3>3. ~(b < k)
        BY <1>1, <1>7, <1>9, <1>11, <3>1, <3>2, BracketsNest
    <3>4. k < b
        BY <1>7, <2>4, <3>2, <3>3
    <3> QED BY <1>1, <2>1, <3>4, AroundBoth
  <2>5. 0 \in Around(b)
      BY <2>2, AroundIs
  <2> QED BY <2>1, <2>3, <2>4, <2>5
<1>14. b = Inner(e)
  <2>1. Inner(e) \in Around(e) /\ \A x \in Around(e) : x <= Inner(e)
      BY <1>1, InnermostIs DEF Inner
  <2>2. b \in Around(e) /\ Around(b) \subseteq 0 .. b - 1 /\ b \in Places
      BY <1>7, <1>13, AroundIs, SizeIs
  <2> QED BY <1>7, <1>13, <2>1, <2>2
<1> QED BY <1>7, <1>9, <1>11, <1>12, <1>13, <1>14

\* In a balanced text every bracket has an end.
LEMMA EveryCloses ==
    ASSUME Written, AllClosed, NEW b \in Text, Op(b) \in Brackets
    PROVE  Closes(b) \in Text
<1>1. Len(prog) \in Nat /\ b \in Nat /\ b >= 1 /\ b <= Len(prog) /\ b \in Places /\ 1 \in Places /\ Len(prog) + 1 \in Places
    BY SizeIs DEF Text, Places
<1>2. Closes(b) \in b + 1 .. Len(prog) + 1
    BY ClosesIs
<1> SUFFICES ASSUME Closes(b) = Len(prog) + 1 PROVE FALSE
    BY <1>1, <1>2 DEF Text
<1>3. Depth(Len(prog) + 1) > Depth(b)
    BY <1>1, ClosesIs
<1>4. Depth(b) < 0 /\ Depth(b) \in Int
    BY <1>1, <1>3, DepthIs DEF AllClosed
<1>5. Depth(1) = 0
  <2>1. 1 .. 1 - 1 = {}
      OBVIOUS
  <2> QED BY <2>1, FS_EmptySet DEF Depth
<1>6. PICK m \in 1 .. b - 1 : Op(m) = "end" /\ Depth(m + 1) = -1
    BY <1>1, <1>4, <1>5, WayDown
<1>7. m \in Text
    BY <1>1, <1>6 DEF Text
<1>8. Depth(m + 1) = Depth(m) - 1 /\ Depth(m) > 0 /\ Depth(m) \in Int
    BY <1>6, <1>7, DepthSteps DEF AllClosed, EndsClose
<1> QED BY <1>6, <1>8

--------------------------------------------------------------------------------
(* Functions, and what was bound in scope before a place.                     *)
Seen(i) == {d \in Binding : d < i /\ ScopeOf(d) \in Around(i)}

\* The function a place is in.
LEMMA FunIs ==
    ASSUME Written, NEW i \in Places
    PROVE  /\ FunOf(i) \in Home(i) /\ FunOf(i) \in Around(i) /\ FunOf(i) \in Nat /\ FunOf(i) < i
           /\ \A x \in Around(i) : x # 0 /\ Op(x) \in Functions => x <= FunOf(i)
           /\ FunOf(i) # 0 => FunOf(i) \in Text /\ Op(FunOf(i)) \in Functions
<1>1. Home(i) \subseteq 0 .. i - 1 /\ 0 \in Home(i) /\ i - 1 \in Nat /\ i \in Nat
    BY AroundIs, SizeIs DEF Home, Places
<1>2. FunOf(i) \in Home(i) /\ \A x \in Home(i) : x <= FunOf(i)
    BY <1>1, LargestOf DEF FunOf
<1>3. FunOf(i) \in 0 .. i - 1
    BY <1>1, <1>2
<1>4. Home(i) \subseteq Around(i)
    BY AroundIs DEF Home
<1>5. FunOf(i) # 0 => FunOf(i) \in Text /\ Op(FunOf(i)) \in Functions
    BY <1>2, <1>4, AroundIs DEF Home
<1>6. \A x \in Around(i) : x # 0 /\ Op(x) \in Functions => x <= FunOf(i)
    BY <1>2 DEF Home
<1> QED BY <1>1, <1>2, <1>3, <1>4, <1>5, <1>6

\* The function a place is in depends on what is around it.
LEMMA FunWithin ==
    ASSUME Written, NEW i \in Places, NEW k \in Places, Around(i) = Around(k)
    PROVE  FunOf(i) = FunOf(k)
BY DEF FunOf, Home

\* A block does not leave its function; a function is its own.
LEMMA FunOfBlock ==
    ASSUME Written, NEW b \in Text, Op(b) \in {"if", "for"}, NEW i \in Places, Around(i) = Around(b) \cup {b}
    PROVE  FunOf(i) = FunOf(b)
<1>1. Op(b) \notin Functions
    BY DEF Functions
<1>2. Home(i) = Home(b)
    BY <1>1 DEF Home
<1> QED BY <1>2 DEF FunOf

LEMMA FunOfBody ==
    ASSUME Written, NEW g \in Text, Op(g) \in Functions, NEW i \in Places, Around(i) = Around(g) \cup {g}
    PROVE  FunOf(i) = g
<1>1. g \in Places /\ g \in Nat /\ g >= 1 /\ Around(g) \subseteq 0 .. g - 1
    BY SizeIs, AroundIs DEF Text, Places
<1>2. g <= FunOf(i) /\ FunOf(i) \in Around(i)
    BY <1>1, FunIs
<1> QED BY <1>1, <1>2

\* A binding in scope is one of a function around, and an outer function's was
\* bound before the inner began, or is its name.
LEMMA BoundOutside ==
    ASSUME Written, NEW i \in Places, NEW d \in Seen(i)
    PROVE  /\ d \in Text /\ d \in Places /\ d \in Nat /\ Op(d) \in Binders
           /\ FunOf(d) \in Home(i) /\ FunOf(d) <= FunOf(i)
           /\ FunOf(d) # FunOf(i) => d <= FunOf(i)
           /\ FunOf(d) = FunOf(i) => FunOf(i) < d
<1>1. d \in Text /\ d < i /\ ScopeOf(d) \in Around(i) /\ d \in Places /\ d \in Nat /\ i \in Nat /\ Op(d) \in Binders
    BY SizeIs DEF Seen, Binding, Text, Places
<1>2. Around(d) \subseteq Around(i)
    BY <1>1, ScopesChain
<1>3. FunOf(d) \in Home(d) /\ FunOf(d) \in Around(d) /\ FunOf(d) \in Nat /\ FunOf(d) < d
    BY <1>1, FunIs
<1>4. FunOf(d) \in Home(i)
    BY <1>2, <1>3 DEF Home
<1>5. FunOf(i) \in Nat /\ FunOf(i) \in Around(i)
    BY FunIs
<1>6. FunOf(d) <= FunOf(i)
    BY <1>1, <1>2, <1>3, <1>5, FunIs
<1>7. ASSUME FunOf(d) # FunOf(i), FunOf(i) < d PROVE FALSE
  <2>1. FunOf(i) # 0
      BY <1>3, <1>5, <1>6, <1>7
  <2>2. FunOf(i) \in Text /\ Op(FunOf(i)) \in Functions /\ Op(FunOf(i)) \in Brackets /\ Closes(FunOf(i)) >= i
      BY <1>5, <2>1, FunIs, AroundIs
  <2>3. Closes(FunOf(i)) \in FunOf(i) + 1 .. Len(prog) + 1 /\ Len(prog) \in Nat
      BY <2>2, ClosesIs, SizeIs
  <2>4. FunOf(i) \in Around(d)
      BY <1>1, <1>5, <1>7, <2>2, <2>3, AroundIs
  <2>5. FunOf(i) <= FunOf(d)
      BY <1>1, <2>1, <2>2, <2>4, FunIs
  <2> QED BY <1>3, <1>5, <1>6, <1>7, <2>5
<1> QED BY <1>1, <1>3, <1>4, <1>5, <1>6, <1>7

\* The scope of a binding is no further out than its function.
LEMMA ScopeInFunction ==
    ASSUME Written, NEW d \in Text
    PROVE  FunOf(d) <= ScopeOf(d)
<1>1. d \in Places /\ d \in Nat
    BY SizeIs DEF Text
<1>2. FunOf(d) \in Around(d) /\ FunOf(d) < d /\ FunOf(d) \in Nat
    BY <1>1, FunIs
<1>3. Op(d) = "for" => ScopeOf(d) = d
    BY ScopeIs
<1>4. Op(d) # "for" => ScopeOf(d) = Max(Around(d))
    BY ScopeIs
<1>5. FunOf(d) <= Max(Around(d))
    BY <1>1, <1>2, InnermostIs
<1> QED BY <1>1, <1>2, <1>3, <1>4, <1>5

\* How what was bound changes from a place to the next.
LEMMA SeenAfterPlain ==
    ASSUME Written, NEW i \in Text, Op(i) \notin Brackets \cup {"end"}
    PROVE  Seen(i + 1) = IF Op(i) \in Binders THEN Seen(i) \cup {i} ELSE Seen(i)
<1>1. i \in Nat /\ i \in Places /\ i + 1 \in Places /\ Around(i + 1) = Around(i)
    BY AfterPlain, SizeIs DEF Text
<1>2. Op(i) # "for"
    BY DEF Brackets
<1>3. ScopeOf(i) \in Around(i)
    BY <1>2, ScopeIs
<1>4. \A d \in Binding : d \in Nat /\ (d < i + 1 <=> d < i \/ d = i)
    BY <1>1, SizeIs DEF Binding, Text
<1>5. i \in Binding <=> Op(i) \in Binders
    BY DEF Binding
<1> QED BY <1>1, <1>3, <1>4, <1>5 DEF Seen

\* What is seen behind a bracket that opens, and behind one that closes.
LEMMA SeenAfterBracket ==
    ASSUME Written, NEW i \in Text, Op(i) \in Brackets
    PROVE  Seen(i + 1) = IF Op(i) \in Binders THEN Seen(i) \cup {i} ELSE Seen(i)
<1>1. i \in Nat /\ i \in Places /\ i + 1 \in Places /\ Around(i + 1) = Around(i) \cup {i}
    BY AfterBracket, SizeIs DEF Text
<1>2. ScopeOf(i) \in Around(i) \cup {i}
    BY ScopeIs
<1>3. \A d \in Binding : d \in Nat /\ (d < i + 1 <=> d < i \/ d = i)
    BY <1>1, SizeIs DEF Binding, Text
<1>4. i \in Binding <=> Op(i) \in Binders
    BY DEF Binding
<1>5. \A d \in Binding : d < i => ScopeOf(d) # i
  <2> TAKE d \in Binding
  <2>1. d \in Text /\ d \in Nat /\ ScopeOf(d) <= d /\ ScopeOf(d) \in Nat
      BY ScopeIs, <1>3 DEF Binding
  <2> QED BY <1>1, <2>1
<1> QED BY <1>1, <1>2, <1>3, <1>4, <1>5 DEF Seen

LEMMA SeenAfterClosed ==
    ASSUME Written, NEW b \in Text, Op(b) \in Brackets, Closes(b) \in Text
    PROVE  Seen(Closes(b) + 1) = Seen(b) \cup (IF Op(b) \in Functions THEN {b} ELSE {})
<1> DEFINE e == Closes(b)
<1>1. b \in Nat /\ b \in Places /\ e + 1 \in Places /\ e \in Nat /\ b < e /\ Around(e + 1) = Around(b)
    BY AfterClosed, ClosesIs, SizeIs DEF Text
<1>2. Op(e) = "end"
    BY ClosesIs
<1>3. ASSUME NEW d \in Binding, b < d, d < e + 1 PROVE ScopeOf(d) \notin Around(b)
  <2>1. d \in Text /\ d \in Nat /\ d \in Places /\ d # e
      BY <1>2, SizeIs DEF Binding, Binders, Text
  <2>2. b \in Around(d)
      BY <1>1, <1>3, <2>1, AroundIs
  <2>3. ScopeOf(d) >= b /\ ScopeOf(d) \in Nat
    <3>1. b <= Max(Around(d)) /\ Max(Around(d)) \in Around(d)
        BY <2>1, <2>2, InnermostIs
    <3>2. Op(d) = "for" => ScopeOf(d) = d
        BY <2>1, ScopeIs
    <3>3. Op(d) # "for" => ScopeOf(d) = Max(Around(d))
        BY <2>1, ScopeIs
    <3>4. ScopeOf(d) \in Nat
        BY <2>1, ScopeIs
    <3> QED BY <1>1, <1>3, <2>1, <3>1, <3>2, <3>3, <3>4
  <2>4. Around(b) \subseteq 0 .. b - 1
      BY <1>1, AroundIs
  <2> QED BY <1>1, <2>3, <2>4
<1>4. \A d \in Binding : d \in Nat
    BY SizeIs DEF Binding, Text
<1>5. CASE Op(b) \in Functions
  <2>1. b \in Binding /\ ScopeOf(b) \in Around(b)
      BY <1>5, ScopeIs DEF Binding, Functions, Binders
  <2> HIDE DEF e
  <2>2. ASSUME NEW d \in Binding PROVE d \in Seen(e + 1) <=> d \in Seen(b) \/ d = b
    <3>1. d \in Nat
        BY <1>4
    <3>2. CASE d < b
        BY <1>1, <3>1, <3>2 DEF Seen
    <3>3. CASE d = b
        BY <1>1, <2>1, <3>3 DEF Seen
    <3>4. CASE b < d
        BY <1>1, <1>3, <3>1, <3>4 DEF Seen
    <3> QED BY <1>1, <3>1, <3>2, <3>3, <3>4
  <2>3. Seen(e + 1) \subseteq Binding /\ Seen(b) \subseteq Binding
      BY DEF Seen
  <2>4. Seen(e + 1) = Seen(b) \cup {b}
      BY <2>1, <2>2, <2>3
  <2> QED BY <1>5, <2>4 DEF e
<1>6. CASE Op(b) \notin Functions
  <2>1. ScopeOf(b) \notin Around(b) \/ b \notin Binding
    <3>1. Op(b) = "for" \/ Op(b) = "if"
        BY <1>6 DEF Brackets, Functions
    <3>2. Op(b) = "for" => ScopeOf(b) = b /\ Around(b) \subseteq 0 .. b - 1
        BY <1>1, ScopeIs, AroundIs
    <3>3. Op(b) = "if" => b \notin Binding
        BY DEF Binding, Binders
    <3> QED BY <1>1, <3>1, <3>2, <3>3
  <2> HIDE DEF e
  <2> QED BY <1>1, <1>3, <1>4, <1>6, <2>1 DEF Seen, e
<1> QED BY <1>5, <1>6

\* What was bound before a place that is in scope later was bound there too.
LEMMA SeenBefore ==
    ASSUME Written, NEW b \in Places, NEW i \in Places, b <= i, Around(b) \subseteq Around(i)
    PROVE  Seen(b) \subseteq Seen(i)
<1>1. \A d \in Binding : d \in Nat
    BY SizeIs DEF Binding, Text
<1>2. b \in Nat /\ i \in Nat
    BY SizeIs DEF Places
<1> QED BY <1>1, <1>2 DEF Seen

--------------------------------------------------------------------------------
(* What a use is resolved to.                                                 *)
\* The checker lets no use pass that means nothing, nor an assignment to what is
\* no `var`.
UsesMean ==
    \A i \in Text :
        /\ Op(i) \in {"set", "call"} => Meaning(i) # 0
        /\ Op(i) = "set" => Op(Meaning(i)) = "var"
        /\ Op(i) = "read" => Meaning(i) # 0 \/ Name(i) \in Global

\* The newest of a set of bindings, 0 if there is none.
LEMMA NewestIs ==
    ASSUME NEW m \in Nat, NEW S, S \subseteq 1 .. m
    PROVE  /\ S = {} => Newest(S) = 0
           /\ S # {} => Newest(S) \in S /\ \A x \in S : x <= Newest(S)
           /\ Newest(S) = 0 => S = {}
<1>1. S \cup {0} \subseteq 0 .. m /\ S \cup {0} # {}
    OBVIOUS
<1>2. Newest(S) \in S \cup {0} /\ \A x \in S \cup {0} : x <= Newest(S)
    BY <1>1, LargestOf DEF Newest
<1>3. \A x \in S : x \in Nat /\ x >= 1
    OBVIOUS
<1>4. Newest(S) = 0 => S = {}
    BY <1>2, <1>3
<1> QED BY <1>2, <1>4

\* Of two sets with the same newest there.
LEMMA NewestWithin ==
    ASSUME NEW m \in Nat, NEW S, S \subseteq 1 .. m, NEW T, T \subseteq S, S # {} => Newest(S) \in T
    PROVE  Newest(T) = Newest(S)
<1>1. CASE S = {}
    BY <1>1
<1>2. CASE S # {}
  <2>1. T \subseteq 1 .. m /\ T # {}
      BY <1>2
  <2>2. Newest(T) \in T /\ \A x \in T : x <= Newest(T)
      BY <2>1, NewestIs
  <2>3. Newest(S) \in T /\ \A x \in S : x <= Newest(S)
      BY <1>2, NewestIs
  <2>4. Newest(T) \in 1 .. m /\ Newest(S) \in 1 .. m
      BY <2>1, <2>2, <2>3
  <2>5. Newest(T) <= Newest(S) /\ Newest(S) <= Newest(T)
      BY <2>2, <2>3
  <2> QED BY <2>4, <2>5
<1> QED BY <1>1, <1>2

\* A use means a binding it sees, and the compiler has the same one in scope.
LEMMA MeaningIs ==
    ASSUME Written, NEW i \in Text, ~NamesItself, Op(i) \in Uses
    PROVE  /\ Newest(Declared(i, Name(i))) = Meaning(i)
           /\ Meaning(i) # 0 => Meaning(i) \in Seen(i) /\ Name(Meaning(i)) = Name(i)
                                 /\ ~(Op(Meaning(i)) \in Functions /\ Meaning(i) \in Around(i))
<1> DEFINE S == InScope(i, Name(i))
           T == Declared(i, Name(i))
<1>1. i \in Nat /\ i - 1 \in Nat
    BY SizeIs DEF Text
<1>2. S \subseteq 1 .. i - 1 /\ T \subseteq S
    BY DEF InScope, Declared, Functions
<1>3. Meaning(i) = Newest(S)
    BY DEF Meaning
<1>4. \A x \in S : x # 0
    BY <1>2
<1>5. S # {} => Newest(S) \in S
    BY <1>1, <1>2, NewestIs
<1>6. S # {} => Meaning(i) \notin Around(i) \/ Op(Meaning(i)) # "fun"
    BY <1>3, <1>4, <1>5 DEF NamesItself
<1>7. S # {} => Meaning(i) \in T
  <2> HAVE S # {}
  <2>1. Meaning(i) \in S
      BY <1>3, <1>5
  <2> QED BY <1>6, <2>1 DEF InScope, Declared, Functions
<1>8. Newest(T) = Newest(S)
    BY <1>1, <1>2, <1>3, <1>7, NewestWithin
<1>9. ASSUME Meaning(i) # 0
      PROVE  Meaning(i) \in Seen(i) /\ Name(Meaning(i)) = Name(i)
             /\ ~(Op(Meaning(i)) \in Functions /\ Meaning(i) \in Around(i))
  <2>1. S # {}
      BY <1>1, <1>2, <1>3, <1>9, NewestIs
  <2>2. Meaning(i) \in T /\ Meaning(i) \in 1 .. i - 1
      BY <1>2, <1>7, <2>1
  <2>3. Meaning(i) \in Text /\ Op(Meaning(i)) \in Binders /\ Name(Meaning(i)) = Name(i)
      BY <2>2 DEF Declared, Binds
  <2> QED BY <1>1, <2>2, <2>3 DEF Declared, Seen, Binding
<1> QED BY <1>3, <1>8, <1>9

\* Where the compiler finds what a use means: in its own frame, or captured.
LEMMA ResolveIs ==
    ASSUME Written, UsesMean, ~FunInBlock, ~NamesItself, NEW i \in Text, Op(i) \in Uses
    PROVE  LET d == Meaning(i) IN
           /\ d = 0 => Resolve(i) = Place("global", 0)
           /\ d # 0 => d \in Seen(i) /\ Name(d) = Name(i)
           /\ d # 0 /\ FunOf(d) = FunOf(i) => Resolve(i) = Own(d)
           /\ d # 0 /\ FunOf(d) # FunOf(i) => Boxed(d) /\ Resolve(i) = Place("captured", d)
<1> DEFINE d == Meaning(i)
<1>1. Newest(Declared(i, Name(i))) = d /\ (d # 0 => d \in Seen(i) /\ Name(d) = Name(i))
    BY MeaningIs
<1>2. i \in Places
    BY SizeIs
<1> HIDE DEF d
<1>3. CASE d = 0
  <2>1. Name(i) \in Global
      BY <1>3 DEF UsesMean, Uses, d
  <2>2. Resolve(i) = GlobalOrNone(Name(i))
      BY <1>1, <1>3 DEF Resolve
  <2> QED BY <1>3, <2>1, <2>2 DEF GlobalOrNone, d
<1>4. CASE d # 0 /\ FunOf(d) = FunOf(i)
  <2>1. Resolve(i) = Own(d)
      BY <1>1, <1>4 DEF Resolve
  <2> QED BY <1>1, <1>4, <2>1 DEF d
<1>5. CASE d # 0 /\ FunOf(d) # FunOf(i)
  <2>1. d \in Seen(i) /\ Name(d) = Name(i)
      BY <1>1, <1>5
  <2>2. FunOf(d) \in Home(i)
      BY <1>2, <2>1, BoundOutside
  <2>3. \A j \in Home(i) : j # 0 => j \in Text /\ ~Unseen(j)
      BY <1>2, AroundIs DEF FunInBlock, Home
  <2>4. FunOf(d) \in Nat /\ \A j \in Home(i) : j > FunOf(d) => j # 0
    <3>1. d \in Places
        BY <1>2, <2>1, BoundOutside
    <3>2. FunOf(d) \in Nat
        BY <3>1, FunIs
    <3> QED BY <3>2
  <2>5. i \in {x \in Text : /\ Mentions(x) /\ FunOf(d) \in Home(x) /\ FunOf(d) # FunOf(x)
                            /\ \A j \in Home(x) : j > FunOf(d) => ~Unseen(j)}
      BY <1>5, <2>2, <2>3, <2>4 DEF Mentions
  <2>6. Boxed(d)
      BY <2>1, <2>5 DEF Boxed, NamesUsedByNested
  <2>7. Resolve(i) = Place("captured", d)
      BY <1>1, <1>5, <2>6 DEF Resolve
  <2> QED BY <1>1, <1>5, <2>6, <2>7 DEF d
<1> QED BY <1>3, <1>4, <1>5 DEF d

\* What a use captures is in a cell, and was bound before the function began.
LEMMA CapturedIs ==
    ASSUME Written, NEW i \in Text, NEW d, Op(i) \in Uses, Resolve(i) = Place("captured", d)
    PROVE  /\ d \in Seen(i) /\ Boxed(d) /\ FunOf(d) # FunOf(i)
           /\ ~(Op(d) \in Functions /\ d \in Around(i))
<1> DEFINE c == Newest(Declared(i, Name(i)))
<1>1. i \in Nat /\ i - 1 \in Nat
    BY SizeIs DEF Text
<1>2. \A n : GlobalOrNone(n) # Place("captured", d)
    BY DEF GlobalOrNone, Place
<1>3. Own(c) # Place("captured", d)
    BY DEF Own, Place
<1>4. c # 0 /\ FunOf(c) # FunOf(i) /\ Boxed(c) /\ Resolve(i) = Place("captured", c)
    BY <1>2, <1>3 DEF Resolve
<1>5. c = d
    BY <1>4 DEF Place
<1>6. Declared(i, Name(i)) \subseteq 1 .. i - 1
    BY DEF Declared
<1>7. c \in Declared(i, Name(i))
    BY <1>1, <1>4, <1>6, NewestIs
<1>8. c \in 1 .. i - 1 /\ Binds(c, Name(i)) /\ ScopeOf(c) \in Around(i) /\ ~(Op(c) \in Functions /\ c \in Around(i))
    BY <1>7 DEF Declared
<1>9. c \in Seen(i)
    BY <1>1, <1>8 DEF Seen, Binding, Binds
<1> QED BY <1>4, <1>5, <1>8, <1>9

\* What a function captures was seen where it was written.
LEMMA CapturesAre ==
    ASSUME Written, NEW g \in Text, Op(g) \in Functions, NEW d \in Captures(g)
    PROVE  /\ d \in Seen(g) /\ Boxed(d)
           /\ FunOf(d) # FunOf(g) => FunOf(g) # 0 /\ d \in Captures(FunOf(g))
<1>1. PICK i \in Text : Op(i) \in Uses /\ g \in Home(i) /\ Resolve(i) = Place("captured", d)
    BY DEF Captures
<1>2. d \in 1 .. g - 1
    BY DEF Captures
<1>3. g \in Nat /\ g \in Places /\ g # 0 /\ i \in Places /\ i \in Nat
    BY SizeIs DEF Text
<1>4. d \in Seen(i) /\ Boxed(d) /\ ~(Op(d) \in Functions /\ d \in Around(i))
    BY <1>1, CapturedIs
<1>5. g \in Around(i) /\ g < i
    BY <1>1, <1>3, AroundIs DEF Home
<1>6. d \in Binding /\ d \in Text /\ ScopeOf(d) \in Around(i) /\ d < g /\ g <= i
    BY <1>2, <1>3, <1>4, <1>5 DEF Seen, Binding
<1>7. ScopeOf(d) \in Around(g)
    BY <1>3, <1>6, InScopeBetween
<1>8. d \in Seen(g)
    BY <1>6, <1>7 DEF Seen
<1>9. ASSUME FunOf(d) # FunOf(g) PROVE FunOf(g) # 0 /\ d \in Captures(FunOf(g))
  <2> DEFINE h == FunOf(g)
  <2>1. d <= h /\ h \in Nat /\ h \in Around(g) /\ d \in Nat
      BY <1>3, <1>8, <1>9, BoundOutside, FunIs
  <2>2. h # 0
      BY <1>2, <2>1
  <2>3. Op(h) \in Functions /\ h \in Text
      BY <1>3, <2>2, FunIs
  <2>4. h \in Around(i)
      BY <1>3, <1>5, <2>1, AroundChains
  <2>5. h \in Home(i)
      BY <2>2, <2>3, <2>4 DEF Home
  <2>6. d # h
      BY <1>4, <2>3, <2>4
  <2>7. d \in 1 .. h - 1
      BY <1>2, <2>1, <2>6
  <2> QED BY <1>1, <2>2, <2>5, <2>7 DEF Captures
<1> QED BY <1>4, <1>8, <1>9

\* The function of a captured use holds the cell.
LEMMA UseCaptures ==
    ASSUME Written, NEW i \in Text, NEW d, Op(i) \in Uses, Resolve(i) = Place("captured", d)
    PROVE  FunOf(i) # 0 /\ d \in Captures(FunOf(i))
<1>1. d \in Seen(i) /\ FunOf(d) # FunOf(i) /\ ~(Op(d) \in Functions /\ d \in Around(i))
    BY CapturedIs
<1> DEFINE g == FunOf(i)
<1>2. i \in Places
    BY SizeIs
<1>3. d <= g /\ g \in Nat /\ g \in Around(i) /\ g \in Home(i) /\ d \in Nat /\ d >= 1
    BY <1>1, <1>2, BoundOutside, FunIs DEF Text
<1>4. g # 0
    BY <1>3
<1>5. Op(g) \in Functions /\ d # g
    BY <1>1, <1>2, <1>3, <1>4, FunIs
<1>6. d \in 1 .. g - 1
    BY <1>3, <1>5
<1> QED BY <1>3, <1>4, <1>6 DEF Captures

\* The places of a function's bindings.
LEMMA OwnIs ==
    ASSUME Written, NEW d \in Binding
    PROVE  /\ Boxed(d) => Own(d) = Place("cell", d)
           /\ ~Boxed(d) => Own(d).kind = "slot" /\ Own(d).at \in Slots(d) /\ Own(d).at \in Nat
           /\ Op(d) = "for" =>
                LET state == NextSlot(d) .. NextSlot(d) + (IF Boxed(d) THEN 2 ELSE 1)
                IN  state \subseteq Slots(d) /\ (~Boxed(d) => Own(d).at \notin state)
<1>1. NextSlot(d) \in Nat
    BY NextSlotIs DEF Binding
<1>2. CASE Boxed(d)
    BY <1>1, <1>2 DEF Own, Slots, Width
<1>3. CASE ~Boxed(d) /\ Op(d) = "for"
  <2>1. Own(d) = Place("slot", NextSlot(d) + 2)
      BY <1>3 DEF Own
  <2>2. Own(d).kind = "slot" /\ Own(d).at = NextSlot(d) + 2
      BY <2>1 DEF Place
  <2> QED BY <1>1, <1>3, <2>2 DEF Slots, Width
<1>4. CASE ~Boxed(d) /\ Op(d) # "for"
  <2>1. Own(d) = Place("slot", NextSlot(d) + 0)
      BY <1>4 DEF Own
  <2>2. Own(d).kind = "slot" /\ Own(d).at = NextSlot(d)
      BY <1>1, <2>1 DEF Place
  <2> QED BY <1>1, <1>4, <2>2 DEF Slots, Width
<1> QED BY <1>2, <1>3, <1>4

--------------------------------------------------------------------------------
(* The run of the VM.  Lists of any things.                                   *)
List(s) == \E T : s \in Seq(T)

\* A list has a length, and its places are the numbers up to it.
LEMMA ListIs == ASSUME NEW s, List(s) PROVE Len(s) \in Nat /\ DOMAIN s = 1 .. Len(s)
<1>1. PICK T : s \in Seq(T)
    BY DEF List
<1> QED BY <1>1, LenProperties

\* Lists: one more, one replaced, the last taken away, two joined.
LEMMA ListAppend ==
    ASSUME NEW s, List(s), NEW x
    PROVE  /\ List(Append(s, x)) /\ Len(Append(s, x)) = Len(s) + 1 /\ Len(s) \in Nat
           /\ \A i \in 1 .. Len(s) : Append(s, x)[i] = s[i]
           /\ Append(s, x)[Len(s) + 1] = x
<1>1. PICK T : s \in Seq(T)
    BY DEF List
<1> DEFINE U == T \cup {x}
<1>2. s \in Seq(U) /\ x \in U
  <2>1. Len(s) \in Nat /\ s \in [1 .. Len(s) -> T]
      BY <1>1, LenProperties
  <2>2. s \in [1 .. Len(s) -> U]
      BY <2>1
  <2> HIDE DEF U
  <2>3. s \in Seq(U)
      BY <2>1, <2>2
  <2> QED BY <2>3 DEF U
<1> HIDE DEF U
<1>3. /\ Append(s, x) \in Seq(U) /\ Len(Append(s, x)) = Len(s) + 1
      /\ \A i \in 1 .. Len(s) : Append(s, x)[i] = s[i]
      /\ Append(s, x)[Len(s) + 1] = x
    BY <1>2, AppendProperties
<1>4. Len(s) \in Nat
    BY <1>2, LenProperties
<1> QED BY <1>3, <1>4 DEF List

LEMMA SameSize ==
    ASSUME NEW a \in Nat, NEW b \in Nat, 1 .. a = 1 .. b
    PROVE  a = b
<1>1. CASE a < b
  <2>1. b \in 1 .. b /\ b \notin 1 .. a
      BY <1>1
  <2> QED BY <2>1
<1>2. CASE b < a
  <2>1. a \in 1 .. a /\ a \notin 1 .. b
      BY <1>2
  <2> QED BY <2>1
<1> QED BY <1>1, <1>2

LEMMA ListExcept ==
    ASSUME NEW s, List(s), NEW k, NEW x
    PROVE  LET r == [s EXCEPT ![k] = x] IN
           /\ List(r) /\ Len(r) = Len(s)
           /\ \A i \in 1 .. Len(s) : r[i] = IF i = k THEN x ELSE s[i]
<1>1. PICK T : s \in Seq(T)
    BY DEF List
<1> DEFINE U == T \cup {x}
           r == [s EXCEPT ![k] = x]
<1>2. Len(s) \in Nat /\ s \in [1 .. Len(s) -> T]
    BY <1>1, LenProperties
<1>3. r \in [1 .. Len(s) -> U] /\ \A i \in 1 .. Len(s) : r[i] = IF i = k THEN x ELSE s[i]
    BY <1>2
<1> HIDE DEF U, r
<1>4. r \in Seq(U)
    BY <1>2, <1>3
<1>5. Len(r) = Len(s)
  <2>1. Len(r) \in Nat /\ DOMAIN r = 1 .. Len(r) /\ DOMAIN r = 1 .. Len(s)
      BY <1>3, <1>4, LenProperties
  <2> QED BY <1>2, <2>1, SameSize
<1>6. List(r)
    BY <1>4 DEF List
<1> QED BY <1>3, <1>5, <1>6 DEF r

Put(s, k, x) == [s EXCEPT ![k] = x]
LEMMA ListPut ==
    ASSUME NEW s, List(s), NEW k, NEW x
    PROVE  /\ List(Put(s, k, x)) /\ Len(Put(s, k, x)) = Len(s)
           /\ \A i \in 1 .. Len(s) : Put(s, k, x)[i] = IF i = k THEN x ELSE s[i]
<1>1. PICK r : r = [s EXCEPT ![k] = x]
    OBVIOUS
<1>2. List([s EXCEPT ![k] = x])
    BY ListExcept
<1>3. Put(s, k, x) = r
    BY <1>1 DEF Put
<1> QED BY <1>1, <1>2, <1>3, ListExcept

LEMMA ListFront ==
    ASSUME NEW s, List(s), s # << >>
    PROVE  LET r == SubSeq(s, 1, Len(s) - 1) IN
           /\ List(r) /\ Len(r) = Len(s) - 1 /\ Len(s) >= 1
           /\ \A i \in 1 .. Len(s) - 1 : r[i] = s[i]
<1>1. PICK T : s \in Seq(T)
    BY DEF List
<1>2. Len(s) \in Nat /\ Len(s) # 0
    BY <1>1, EmptySeq, LenProperties
<1>3. \A i \in 1 .. Len(s) - 1 : s[i] \in T
    BY <1>1, <1>2, ElementOfSeq
<1>4. 1 \in 1 .. Len(s) + 1 /\ Len(s) - 1 \in 0 .. Len(s)
    BY <1>2
<1>5. SubSeq(s, 1, Len(s) - 1) \in Seq(T) /\ Len(SubSeq(s, 1, Len(s) - 1)) = Len(s) - 1
      /\ \A i \in 1 .. Len(s) - 1 : SubSeq(s, 1, Len(s) - 1)[i] = s[i]
  <2> DEFINE n == Len(s) - 1
             r == SubSeq(s, 1, n)
  <2>1. n \in Nat /\ n <= Len(s) /\ \A i \in 1 .. n : s[i] \in T
      BY <1>2, <1>3
  <2>2. 1 \in Int /\ n \in Int /\ 1 + n - 1 = n /\ n - 1 + 1 = n
      BY <2>1
  <2> HIDE DEF n
  <2>3. /\ r \in Seq(T) /\ Len(r) = IF 1 <= n THEN n - 1 + 1 ELSE 0
        /\ \A i \in 1 .. n - 1 + 1 : r[i] = s[1 + i - 1]
      BY <2>1, <2>2, SubSeqProperties
  <2>4. Len(r) = n /\ \A i \in 1 .. n : r[i] = s[i]
      BY <2>1, <2>2, <2>3
  <2> HIDE DEF r
  <2> QED BY <2>3, <2>4 DEF n, r
<1> QED BY <1>2, <1>5 DEF List

LEMMA ListJoin ==
    ASSUME NEW s, List(s), NEW x
    PROVE  s \o <<x>> = Append(s, x)
<1>1. PICK T : s \in Seq(T)
    BY DEF List
<1> DEFINE U == T \cup {x}
<1>2. s \in Seq(U) /\ x \in U
  <2>1. Len(s) \in Nat /\ s \in [1 .. Len(s) -> T]
      BY <1>1, LenProperties
  <2>2. s \in [1 .. Len(s) -> U]
      BY <2>1
  <2> HIDE DEF U
  <2>3. s \in Seq(U)
      BY <2>1, <2>2
  <2> QED BY <2>3 DEF U
<1> HIDE DEF U
<1> QED BY <1>2, AppendIsConcat

--------------------------------------------------------------------------------
(* The world of a run: sc its scopes, cl its closures, ce its cells.  Scope k *)
(* is an instance of the bracket t[k], 0 for the body; e[k] is its display,   *)
(* the instance each bracket around has; h[<<k, d>>] is the cell of the boxed *)
(* binding d in the instance k.                                               *)
Has(sc, k, d) == d \in DOMAIN sc[k].bound

Instance(sc, n, t, e, k) ==
    /\ t[k] \in {0} \cup {b \in Text : Op(b) \in Brackets}
    /\ e[k][t[k]] = k
    /\ \A b \in Reach(t[k]) : /\ e[k][b] \in DOMAIN t /\ t[e[k][b]] = b /\ e[k][b] <= k
                              /\ \A a \in Reach(b) : e[e[k][b]][a] = e[k][a]
    /\ t[k] = 0 => sc[k].out = Root
    /\ t[k] # 0 => /\ sc[k].out \in DOMAIN t /\ t[sc[k].out] = Inner(t[k])
                   /\ \A b \in Around(t[k]) : e[k][b] = e[sc[k].out][b]
    /\ \A d \in DOMAIN sc[k].bound : /\ d \in Binding /\ ScopeOf(d) = t[k]
                                     /\ Op(d) \in Functions => sc[k].bound[d] \in 1 .. n

ScopesOK(sc, n, t, e) ==
    /\ List(sc)
    /\ \A k \in 1 .. Len(sc) : /\ {"out", "bound"} \subseteq DOMAIN sc[k] /\ sc[k].out \in 0 .. k - 1
                               /\ k \notin DOMAIN t => sc[k].out = 0
    /\ DOMAIN t \subseteq 2 .. Len(sc)
    /\ \A k \in DOMAIN t : Instance(sc, n, t, e, k)

CellsOK(sc, ce, t, h) ==
    /\ List(ce)
    /\ \A k \in DOMAIN t : \A d \in DOMAIN sc[k].bound : Boxed(d) =>
           /\ <<k, d>> \in DOMAIN h /\ h[<<k, d>>] \in 1 .. Len(ce) /\ ce[h[<<k, d>>]] = sc[k].bound[d]
           /\ \A j \in DOMAIN t : \A c \in DOMAIN sc[j].bound :
                  Boxed(c) /\ h[<<j, c>>] = h[<<k, d>>] => j = k /\ c = d

Bounds(sc, e, s, D) == \A d \in D : Has(sc, e[s][ScopeOf(d)], d)

ClosureOK(sc, r, t, e, h) ==
    /\ r.at \in Text /\ Op(r.at) \in Functions /\ r.home \in DOMAIN t /\ t[r.home] = Inner(r.at)
    /\ Bounds(sc, e, r.home, Seen(r.at) \cup {r.at})
    /\ \A d \in Captures(r.at) : r.holds[d] = h[<<e[r.home][ScopeOf(d)], d>>]
ClosuresOK(sc, cl, t, e, h) ==
    List(cl) /\ \A c \in 1 .. Len(cl) : ClosureOK(sc, cl[c], t, e, h)

World(sc, n, cl, ce, t, e, h) ==
    ScopesOK(sc, n, t, e) /\ CellsOK(sc, ce, t, h) /\ ClosuresOK(sc, cl, t, e, h)

FrameOK(sc, fr, D, t, e, h) ==
    LET s == fr.scope
        f == FunOf(fr.pc)
    IN /\ {"pc", "scope", "slots", "cells", "captured"} \subseteq DOMAIN fr
       /\ fr.pc \in Places /\ s \in DOMAIN t /\ t[s] = Inner(fr.pc)
       /\ D \subseteq Seen(fr.pc) /\ Bounds(sc, e, s, D)
       /\ \A b \in Around(fr.pc) : b >= f => \A d \in DOMAIN sc[e[s][b]].bound : d < fr.pc
       /\ \A d \in D : FunOf(d) = f =>
             /\ Boxed(d) => d \in DOMAIN fr.cells /\ fr.cells[d] = h[<<e[s][ScopeOf(d)], d>>]
             /\ ~Boxed(d) => /\ Own(d).at \in DOMAIN fr.slots
                             /\ fr.slots[Own(d).at] = sc[e[s][ScopeOf(d)]].bound[d]
       /\ \A d \in Captures(f) : d \in D /\ fr.captured[d] = h[<<e[s][ScopeOf(d)], d>>]

Base(fr, e) == e[fr.scope][FunOf(fr.pc)]
FramesOK(sc, frs, t, e, h) ==
    /\ List(frs)
    /\ \A f \in 1 .. Len(frs) : FrameOK(sc, frs[f], Seen(frs[f].pc), t, e, h)
    /\ \A f \in 1 .. Len(frs) : \A g \in 1 .. Len(frs) : f < g => frs[f].scope < Base(frs[g], e)

\* What is not disturbed: the instances and their displays, the cells, and below
\* m the plain bindings.
Grows(sc, t, e, h, t2, e2, h2) ==
    \A k \in DOMAIN t : /\ k \in DOMAIN t2 /\ t2[k] = t[k] /\ e2[k] = e[k]
                        /\ \A d \in DOMAIN sc[k].bound : Boxed(d) => h2[<<k, d>>] = h[<<k, d>>]
Untouched(sc, sc2, t, m) ==
    \A k \in DOMAIN t : k < m =>
        /\ DOMAIN sc2[k].bound = DOMAIN sc[k].bound
        /\ \A d \in DOMAIN sc[k].bound : ~Boxed(d) => sc2[k].bound[d] = sc[k].bound[d]

\* A scope that sees a place finds the bindings seen there in instances of their
\* scopes.
LEMMA SeenAt ==
    ASSUME Written, NEW sc, NEW n, NEW t, NEW e, ScopesOK(sc, n, t, e),
           NEW s \in DOMAIN t, NEW i \in Places, t[s] = Inner(i), NEW d \in Seen(i)
    PROVE  LET k == e[s][ScopeOf(d)] IN
           /\ ScopeOf(d) \in Around(i) /\ ScopeOf(d) \in Reach(t[s])
           /\ k \in DOMAIN t /\ t[k] = ScopeOf(d) /\ k <= s /\ k \in 1 .. Len(sc)
<1>1. ScopeOf(d) \in Around(i) /\ Around(i) = Reach(t[s])
    BY AroundReaches DEF Seen
<1> QED BY <1>1 DEF ScopesOK, Instance

\* A display goes inwards: the inner of two brackets has the later instance.
LEMMA AtInstance ==
    ASSUME Written, NEW sc, NEW n, NEW t, NEW e, ScopesOK(sc, n, t, e),
           NEW s \in DOMAIN t, NEW i \in Places, t[s] = Inner(i), NEW b \in Around(i)
    PROVE  /\ b \in Reach(t[s]) /\ e[s][b] \in DOMAIN t /\ t[e[s][b]] = b /\ e[s][b] <= s /\ s \in Nat /\ e[s][b] \in Nat
           /\ \A a \in Around(i) : a <= b => e[s][a] <= e[s][b]
<1>1. Around(i) = Reach(t[s])
    BY AroundReaches
<1>2. s \in Nat /\ DOMAIN t \subseteq Nat
    BY ListIs DEF ScopesOK
<1>3. e[s][b] \in DOMAIN t /\ t[e[s][b]] = b /\ e[s][b] <= s /\ \A a \in Reach(b) : e[e[s][b]][a] = e[s][a]
    BY <1>1 DEF ScopesOK, Instance
<1>4. ASSUME NEW a \in Around(i), a <= b PROVE e[s][a] <= e[s][b]
  <2>1. a \in Nat /\ b \in Nat
      BY AroundIs, SizeIs DEF Places
  <2>2. a \in Reach(b)
    <3>1. CASE a = b
        BY <3>1 DEF Reach
    <3>2. CASE a # b
        BY <3>2, <2>1, <1>4, AroundBoth DEF Reach
    <3> QED BY <3>1, <3>2
  <2>3. e[e[s][b]][a] <= e[s][b]
      BY <2>2, <1>3 DEF ScopesOK, Instance
  <2> QED BY <2>2, <2>3, <1>3
<1> QED BY <1>1, <1>2, <1>3, <1>4

\* A call stays right while the scopes from some later one on change.
LEMMA FrameKept ==
    ASSUME Written, NEW sc, NEW sc2, NEW n, NEW fr, NEW D,
           NEW t, NEW e, NEW h, NEW t2, NEW e2, NEW h2, ScopesOK(sc, n, t, e),
           FrameOK(sc, fr, D, t, e, h), Grows(sc, t, e, h, t2, e2, h2),
           NEW m \in Nat, fr.scope < m, Untouched(sc, sc2, t, m)
    PROVE  FrameOK(sc2, fr, D, t2, e2, h2)
<1> DEFINE s == fr.scope
           i == fr.pc
           f == FunOf(i)
<1>1. i \in Places /\ s \in DOMAIN t /\ t[s] = Inner(i) /\ D \subseteq Seen(i) /\ Bounds(sc, e, s, D)
    BY DEF FrameOK
<1>2. s \in DOMAIN t2 /\ t2[s] = t[s] /\ e2[s] = e[s]
    BY <1>1 DEF Grows
<1>3. s \in Nat /\ DOMAIN t \subseteq Nat
    BY <1>1, ListIs DEF ScopesOK
<1>4. ASSUME NEW d \in D
      PROVE  LET k == e[s][ScopeOf(d)] IN
             /\ k \in DOMAIN t /\ DOMAIN sc2[k].bound = DOMAIN sc[k].bound /\ d \in DOMAIN sc[k].bound
             /\ ~Boxed(d) => sc2[k].bound[d] = sc[k].bound[d]
             /\ Boxed(d) => h2[<<k, d>>] = h[<<k, d>>]
  <2> DEFINE k == e[s][ScopeOf(d)]
  <2>1. k \in DOMAIN t /\ k <= s /\ k < m
      BY <1>1, <1>3, SeenAt
  <2>2. d \in DOMAIN sc[k].bound
      BY <1>1 DEF Bounds, Has
  <2> HIDE DEF k
  <2>3. /\ DOMAIN sc2[k].bound = DOMAIN sc[k].bound
        /\ ~Boxed(d) => sc2[k].bound[d] = sc[k].bound[d]
        /\ Boxed(d) => h2[<<k, d>>] = h[<<k, d>>]
      BY <2>1, <2>2 DEF Untouched, Grows
  <2> QED BY <2>1, <2>2, <2>3 DEF k
<1>5. Bounds(sc2, e2, s, D)
    BY <1>2, <1>4 DEF Bounds, Has
<1>6. \A b \in Around(i) : b >= f => \A d \in DOMAIN sc2[e2[s][b]].bound : d < i
  <2> SUFFICES ASSUME NEW b \in Around(i), b >= f PROVE \A d \in DOMAIN sc2[e2[s][b]].bound : d < i
      OBVIOUS
  <2>1. e[s][b] \in DOMAIN t /\ e[s][b] <= s /\ e[s][b] \in Nat
      BY <1>1, AtInstance
  <2>2. DOMAIN sc2[e[s][b]].bound = DOMAIN sc[e[s][b]].bound
      BY <2>1, <1>3 DEF Untouched
  <2>3. \A d \in DOMAIN sc[e[s][b]].bound : d < i
      BY DEF FrameOK
  <2> QED BY <2>2, <2>3, <1>2
<1>7. \A d \in D : FunOf(d) = f =>
             /\ Boxed(d) => d \in DOMAIN fr.cells /\ fr.cells[d] = h2[<<e2[s][ScopeOf(d)], d>>]
             /\ ~Boxed(d) => /\ Own(d).at \in DOMAIN fr.slots
                             /\ fr.slots[Own(d).at] = sc2[e2[s][ScopeOf(d)]].bound[d]
    BY <1>2, <1>4 DEF FrameOK
<1>8. \A d \in Captures(f) : d \in D /\ fr.captured[d] = h2[<<e2[s][ScopeOf(d)], d>>]
  <2> SUFFICES ASSUME NEW d \in Captures(f) PROVE d \in D /\ fr.captured[d] = h2[<<e2[s][ScopeOf(d)], d>>]
      OBVIOUS
  <2>1. d \in D /\ fr.captured[d] = h[<<e[s][ScopeOf(d)], d>>]
      BY DEF FrameOK
  <2>2. f # 0
    <3>1. CASE f = 0
        BY <3>1 DEF Captures
    <3> QED BY <3>1
  <2>3. Boxed(d)
      BY <1>1, <2>2, FunIs, CapturesAre
  <2> QED BY <1>2, <1>4, <2>1, <2>3
<1> QED BY <1>1, <1>2, <1>5, <1>6, <1>7, <1>8 DEF FrameOK

\* The calls under way when the newest is at another place, when one is made and
\* when one is over.
LEMMA TopSteps ==
    ASSUME Written, NEW sc, NEW sc2, NEW n, NEW frs, NEW fr,
           NEW t, NEW e, NEW h, NEW t2, NEW e2, NEW h2, ScopesOK(sc, n, t, e),
           FramesOK(sc, frs, t, e, h), frs # << >>, Grows(sc, t, e, h, t2, e2, h2),
           Untouched(sc, sc2, t, Base(frs[Len(frs)], e)),
           FrameOK(sc2, fr, Seen(fr.pc), t2, e2, h2), Base(fr, e2) = Base(frs[Len(frs)], e)
    PROVE  FramesOK(sc2, [frs EXCEPT ![Len(frs)] = fr], t2, e2, h2)
<1> DEFINE l == Len(frs)
           out == [frs EXCEPT ![l] = fr]
           m == Base(frs[l], e)
<1>1. /\ l \in Nat /\ l >= 1 /\ List(out) /\ Len(out) = l
      /\ \A f \in 1 .. l : out[f] = IF f = l THEN fr ELSE frs[f]
  <2>1. List(frs)
      BY DEF FramesOK
  <2>2. l \in Nat /\ l # 0
      BY <2>1, EmptySeq DEF List
  <2>3. List(out) /\ Len(out) = l /\ \A f \in 1 .. l : out[f] = IF f = l THEN fr ELSE frs[f]
    <3> HIDE DEF l, m
    <3>1. List(frs) => LET r == [frs EXCEPT ![l] = fr] IN
             List(r) /\ Len(r) = Len(frs) /\ \A f \in 1 .. Len(frs) : r[f] = IF f = l THEN fr ELSE frs[f]
        BY ListExcept
    <3> QED BY <2>1, <3>1 DEF l
  <2> QED BY <2>2, <2>3
<1> HIDE DEF out
<1>2. \A f \in 1 .. l : /\ FrameOK(sc, frs[f], Seen(frs[f].pc), t, e, h)
                        /\ frs[f].scope \in DOMAIN t /\ frs[f].scope \in Nat
  <2> SUFFICES ASSUME NEW f \in 1 .. l
               PROVE  FrameOK(sc, frs[f], Seen(frs[f].pc), t, e, h)
                      /\ frs[f].scope \in DOMAIN t /\ frs[f].scope \in Nat
      OBVIOUS
  <2>1. FrameOK(sc, frs[f], Seen(frs[f].pc), t, e, h)
      BY DEF FramesOK
  <2>2. frs[f].scope \in DOMAIN t
      BY <2>1 DEF FrameOK
  <2> QED BY <2>1, <2>2, ListIs DEF ScopesOK
<1>3. m \in Nat
  <2>1. l \in 1 .. l
      BY <1>1
  <2>2. frs[l].scope \in DOMAIN t /\ frs[l].pc \in Places /\ t[frs[l].scope] = Inner(frs[l].pc)
      BY <1>2, <2>1 DEF FrameOK
  <2>3. FunOf(frs[l].pc) \in Around(frs[l].pc)
      BY <2>2, FunIs
  <2> QED BY <2>2, <2>3, AtInstance DEF Base
<1>4. \A f \in 1 .. l : f < l => frs[f].scope < m /\ FrameOK(sc2, frs[f], Seen(frs[f].pc), t2, e2, h2)
  <2> SUFFICES ASSUME NEW f \in 1 .. l, f < l
               PROVE  frs[f].scope < m /\ FrameOK(sc2, frs[f], Seen(frs[f].pc), t2, e2, h2)
      OBVIOUS
  <2>1. frs[f].scope < m
      BY <1>1 DEF FramesOK
  <2> QED BY <2>1, <1>2, <1>3, FrameKept
<1>5. \A f \in 1 .. l : FrameOK(sc2, out[f], Seen(out[f].pc), t2, e2, h2)
    BY <1>1, <1>4
<1>6. \A f \in 1 .. l : f < l => Base(frs[f], e2) = Base(frs[f], e)
    BY <1>2 DEF Base, Grows
<1>7. \A f \in 1 .. l : \A g \in 1 .. l : f < g => out[f].scope < Base(out[g], e2)
  <2> SUFFICES ASSUME NEW f \in 1 .. l, NEW g \in 1 .. l, f < g PROVE out[f].scope < Base(out[g], e2)
      OBVIOUS
  <2>1. out[f] = frs[f] /\ frs[f].scope < Base(frs[g], e)
      BY <1>1 DEF FramesOK
  <2>2. CASE g = l
      BY <2>1, <2>2, <1>1
  <2>3. CASE g # l
      BY <2>1, <2>3, <1>1, <1>6
  <2> QED BY <2>2, <2>3
<1> QED BY <1>1, <1>5, <1>7 DEF FramesOK, out

\* A call is pushed, or the newest is popped.
LEMMA PushSteps ==
    ASSUME Written, NEW sc, NEW sc2, NEW n, NEW frs, NEW fr,
           NEW t, NEW e, NEW h, NEW t2, NEW e2, NEW h2, ScopesOK(sc, n, t, e),
           FramesOK(sc, frs, t, e, h), Grows(sc, t, e, h, t2, e2, h2),
           Untouched(sc, sc2, t, Len(sc) + 1),
           FrameOK(sc2, fr, Seen(fr.pc), t2, e2, h2), Base(fr, e2) = Len(sc) + 1
    PROVE  FramesOK(sc2, Append(frs, fr), t2, e2, h2)
<1> DEFINE l == Len(frs)
           out == Append(frs, fr)
<1>1. /\ l \in Nat /\ List(out) /\ Len(out) = l + 1
      /\ \A f \in 1 .. l : out[f] = frs[f]
      /\ out[l + 1] = fr
    BY ListAppend DEF FramesOK
<1> HIDE DEF out
<1>2. Len(sc) + 1 \in Nat /\ \A k \in DOMAIN t : k \in Nat /\ k < Len(sc) + 1
    BY ListIs DEF ScopesOK
<1>3. \A f \in 1 .. l : /\ FrameOK(sc, frs[f], Seen(frs[f].pc), t, e, h)
                        /\ frs[f].scope \in DOMAIN t
    BY DEF FramesOK, FrameOK
<1>4. \A f \in 1 .. l : FrameOK(sc2, frs[f], Seen(frs[f].pc), t2, e2, h2)
    BY <1>2, <1>3, FrameKept
<1>5. \A f \in 1 .. l : Base(frs[f], e2) = Base(frs[f], e)
    BY <1>3 DEF Base, Grows
<1>6. \A f \in 1 .. l + 1 : FrameOK(sc2, out[f], Seen(out[f].pc), t2, e2, h2)
    BY <1>1, <1>4
<1>7. \A f \in 1 .. l + 1 : \A g \in 1 .. l + 1 : f < g => out[f].scope < Base(out[g], e2)
  <2> SUFFICES ASSUME NEW f \in 1 .. l + 1, NEW g \in 1 .. l + 1, f < g PROVE out[f].scope < Base(out[g], e2)
      OBVIOUS
  <2>1. f \in 1 .. l /\ out[f] = frs[f]
      BY <1>1
  <2>2. CASE g = l + 1
      BY <2>1, <2>2, <1>1, <1>2, <1>3
  <2>3. CASE g # l + 1
    <3>1. g \in 1 .. l
        BY <2>3, <1>1
    <3>2. frs[f].scope < Base(frs[g], e)
        BY <2>1, <3>1 DEF FramesOK
    <3> QED BY <2>1, <3>1, <3>2, <1>1, <1>5
  <2> QED BY <2>2, <2>3
<1> QED BY <1>1, <1>6, <1>7 DEF FramesOK, out

LEMMA PopSteps ==
    ASSUME NEW sc, NEW frs, NEW t, NEW e, NEW h, FramesOK(sc, frs, t, e, h), frs # << >>
    PROVE  FramesOK(sc, SubSeq(frs, 1, Len(frs) - 1), t, e, h)
<1> DEFINE l == Len(frs) - 1
           out == SubSeq(frs, 1, l)
<1>1. List(out) /\ Len(out) = l /\ l \in Nat /\ \A f \in 1 .. l : out[f] = frs[f] /\ f \in 1 .. Len(frs)
  <2>1. List(frs)
      BY DEF FramesOK
  <2>2. List(out) /\ Len(out) = l /\ Len(frs) >= 1 /\ \A f \in 1 .. l : out[f] = frs[f]
      BY <2>1, ListFront
  <2>3. Len(frs) \in Nat
      BY <2>1, ListIs
  <2> QED BY <2>2, <2>3
<1> HIDE DEF out
<1>2. \A f \in 1 .. l : FrameOK(sc, out[f], Seen(out[f].pc), t, e, h)
    BY <1>1 DEF FramesOK
<1>3. \A f \in 1 .. l : \A g \in 1 .. l : f < g => out[f].scope < Base(out[g], e)
    BY <1>1 DEF FramesOK
<1> QED BY <1>1, <1>2, <1>3 DEF FramesOK, out

\* All calls and all closures stay right while nothing but new scopes is added.
LEMMA FramesKept ==
    ASSUME Written, NEW sc, NEW sc2, NEW n, NEW frs,
           NEW t, NEW e, NEW h, NEW t2, NEW e2, NEW h2, ScopesOK(sc, n, t, e),
           FramesOK(sc, frs, t, e, h), Grows(sc, t, e, h, t2, e2, h2),
           Untouched(sc, sc2, t, Len(sc) + 1)
    PROVE  FramesOK(sc2, frs, t2, e2, h2)
<1>1. List(frs)
    BY DEF FramesOK
<1>2. Len(sc) + 1 \in Nat /\ \A k \in DOMAIN t : k \in Nat /\ k < Len(sc) + 1
    BY ListIs DEF ScopesOK
<1>3. \A f \in 1 .. Len(frs) : /\ FrameOK(sc, frs[f], Seen(frs[f].pc), t, e, h)
                               /\ frs[f].scope \in DOMAIN t
    BY DEF FramesOK, FrameOK
<1>4. \A f \in 1 .. Len(frs) : FrameOK(sc2, frs[f], Seen(frs[f].pc), t2, e2, h2)
    BY <1>2, <1>3, FrameKept
<1>5. \A f \in 1 .. Len(frs) : Base(frs[f], e2) = Base(frs[f], e)
    BY <1>3 DEF Base, Grows
<1> QED BY <1>1, <1>4, <1>5 DEF FramesOK

LEMMA ClosuresKept ==
    ASSUME Written, NEW sc, NEW sc2, NEW n, NEW cl,
           NEW t, NEW e, NEW h, NEW t2, NEW e2, NEW h2, ScopesOK(sc, n, t, e),
           ClosuresOK(sc, cl, t, e, h), Grows(sc, t, e, h, t2, e2, h2),
           \A k \in DOMAIN t : DOMAIN sc[k].bound \subseteq DOMAIN sc2[k].bound
    PROVE  ClosuresOK(sc2, cl, t2, e2, h2)
<1> SUFFICES ASSUME NEW c \in 1 .. Len(cl) PROVE ClosureOK(sc2, cl[c], t2, e2, h2)
    BY DEF ClosuresOK
<1> DEFINE i == cl[c].at
           s == cl[c].home
<1>1. /\ i \in Text /\ Op(i) \in Functions /\ s \in DOMAIN t /\ t[s] = Inner(i)
      /\ \A d \in Seen(i) \cup {i} : d \in DOMAIN sc[e[s][ScopeOf(d)]].bound
      /\ \A d \in Captures(i) : cl[c].holds[d] = h[<<e[s][ScopeOf(d)], d>>]
    BY DEF ClosuresOK, ClosureOK, Bounds, Has
<1>2. s \in DOMAIN t2 /\ t2[s] = t[s] /\ e2[s] = e[s]
    BY <1>1 DEF Grows
<1>3. \A d \in Seen(i) \cup {i} : e[s][ScopeOf(d)] \in DOMAIN t
  <2>1. i \in Places
      BY <1>1, SizeIs
  <2>2. \A d \in Seen(i) : e[s][ScopeOf(d)] \in DOMAIN t
      BY <1>1, <2>1, SeenAt
  <2>3. ScopeOf(i) = Inner(i) /\ Inner(i) \in Around(i)
      BY <1>1, ScopeIs, InnermostIs, <2>1 DEF Functions, Inner
  <2>4. e[s][ScopeOf(i)] \in DOMAIN t
      BY <1>1, <2>1, <2>3, AtInstance
  <2> QED BY <2>2, <2>4
<1>4. Bounds(sc2, e2, s, Seen(i) \cup {i})
    BY <1>1, <1>2, <1>3 DEF Bounds, Has
<1>5. \A d \in Captures(i) : cl[c].holds[d] = h2[<<e2[s][ScopeOf(d)], d>>]
  <2> SUFFICES ASSUME NEW d \in Captures(i) PROVE cl[c].holds[d] = h2[<<e2[s][ScopeOf(d)], d>>]
      OBVIOUS
  <2>1. d \in Seen(i) /\ Boxed(d)
      BY <1>1, CapturesAre
  <2> DEFINE k == e[s][ScopeOf(d)]
  <2>2. k \in DOMAIN t /\ d \in DOMAIN sc[k].bound
      BY <2>1, <1>1, <1>3
  <2> HIDE DEF k
  <2>3. h2[<<k, d>>] = h[<<k, d>>]
      BY <2>1, <2>2 DEF Grows
  <2> QED BY <2>3, <1>1, <1>2 DEF k
<1> QED BY <1>1, <1>2, <1>4, <1>5 DEF ClosureOK

\* Nothing changes.
LEMMA GrowsSelf ==
    ASSUME NEW sc, NEW t, NEW e, NEW h
    PROVE  Grows(sc, t, e, h, t, e, h)
BY DEF Grows

\* Scopes that name the same bindings, and new ones that are no instances.
Alike(sc, sc2, t) ==
    /\ List(sc2) /\ Len(sc) <= Len(sc2)
    /\ \A k \in 1 .. Len(sc2) : /\ {"out", "bound"} \subseteq DOMAIN sc2[k]
                                /\ k \in 1 .. Len(sc) => sc2[k].out = sc[k].out /\ sc2[k].bound = sc[k].bound
                                /\ k \notin 1 .. Len(sc) => sc2[k].out = 0

\* Scopes whose bindings and surroundings are as they were.
LEMMA WorldAlike ==
    ASSUME Written, NEW sc, NEW sc2, NEW n, NEW cl, NEW ce, NEW t, NEW e, NEW h,
           World(sc, n, cl, ce, t, e, h), Alike(sc, sc2, t)
    PROVE  World(sc2, n, cl, ce, t, e, h) /\ Untouched(sc, sc2, t, Len(sc) + 1)
<1>1. ScopesOK(sc, n, t, e) /\ CellsOK(sc, ce, t, h) /\ ClosuresOK(sc, cl, t, e, h)
    BY DEF World
<1>2. Len(sc) \in Nat /\ Len(sc2) \in Nat /\ \A k \in DOMAIN t : k \in 1 .. Len(sc) /\ k \in 2 .. Len(sc)
    BY <1>1, ListIs DEF ScopesOK, Alike
<1>3. \A k \in DOMAIN t : sc2[k].out = sc[k].out /\ sc2[k].bound = sc[k].bound
    BY <1>2 DEF Alike
<1>4. ScopesOK(sc2, n, t, e)
  <2>1. \A k \in 1 .. Len(sc2) : sc2[k].out \in 0 .. k - 1 /\ (k \notin DOMAIN t => sc2[k].out = 0)
      BY <1>1, <1>2 DEF ScopesOK, Alike
  <2>2. ASSUME NEW k \in DOMAIN t PROVE Instance(sc2, n, t, e, k)
    <3>1. Instance(sc, n, t, e, k)
        BY <1>1 DEF ScopesOK
    <3> QED BY <3>1, <1>3 DEF Instance
  <2>3. DOMAIN t \subseteq 2 .. Len(sc2)
      BY <1>2 DEF Alike
  <2> QED BY <2>1, <2>2, <2>3 DEF ScopesOK, Alike
<1>5. CellsOK(sc2, ce, t, h)
    BY <1>1, <1>3 DEF CellsOK
<1>6. ClosuresOK(sc2, cl, t, e, h)
    BY <1>1, <1>3, GrowsSelf, ClosuresKept
<1>7. Untouched(sc, sc2, t, Len(sc) + 1)
    BY <1>3 DEF Untouched
<1> QED BY <1>4, <1>5, <1>6, <1>7 DEF World

\* A new scope of out, an instance of bracket b.
Opened(t, k, b) == [x \in DOMAIN t \cup {k} |-> IF x = k THEN b ELSE t[x]]
Display(t, e, k, b, out) ==
    [x \in DOMAIN t \cup {k} |-> IF x = k THEN [a \in Reach(b) |-> IF a = b THEN k ELSE e[out][a]]
                                          ELSE e[x]]

\* A scope is opened.
LEMMA WorldOpens ==
    ASSUME Written, NEW sc, NEW r, NEW n, NEW cl, NEW ce, NEW t, NEW e, NEW h,
           World(sc, n, cl, ce, t, e, h), NEW b \in Text, Op(b) \in Brackets,
           r.out \in DOMAIN t, t[r.out] = Inner(b), {"out", "bound"} \subseteq DOMAIN r, DOMAIN r.bound = {}
    PROVE  LET k == Len(sc) + 1
               sc2 == Append(sc, r)
               t2 == Opened(t, k, b)
               e2 == Display(t, e, k, b, r.out)
           IN /\ World(sc2, n, cl, ce, t2, e2, h) /\ Grows(sc, t, e, h, t2, e2, h)
              /\ Untouched(sc, sc2, t, Len(sc) + 1)
              /\ k \in DOMAIN t2 /\ t2[k] = b /\ e2[k][b] = k /\ \A a \in Around(b) : e2[k][a] = e[r.out][a]
              /\ k \notin DOMAIN t /\ sc2[k] = r /\ Len(sc2) = k
<1> DEFINE k == Len(sc) + 1
           sc2 == Append(sc, r)
           t2 == Opened(t, k, b)
           e2 == Display(t, e, k, b, r.out)
           o == r.out
<1>1. ScopesOK(sc, n, t, e) /\ CellsOK(sc, ce, t, h) /\ ClosuresOK(sc, cl, t, e, h)
    BY DEF World
<1>2. /\ List(sc2) /\ Len(sc2) = k /\ Len(sc) \in Nat /\ k \in Nat
      /\ \A x \in 1 .. Len(sc) : sc2[x] = sc[x]
      /\ sc2[k] = r
    BY <1>1, ListAppend DEF ScopesOK
<1>3. DOMAIN t \subseteq 2 .. Len(sc) /\ k \notin DOMAIN t /\ \A x \in DOMAIN t : sc2[x] = sc[x]
    BY <1>1, <1>2 DEF ScopesOK
<1>4. /\ DOMAIN t2 = DOMAIN t \cup {k} /\ DOMAIN e2 = DOMAIN t \cup {k}
      /\ t2[k] = b /\ e2[k] = [a \in Reach(b) |-> IF a = b THEN k ELSE e[o][a]]
      /\ \A x \in DOMAIN t : t2[x] = t[x] /\ e2[x] = e[x]
    BY <1>3 DEF Opened, Display
<1>5. b \in Places /\ b # 0 /\ Reach(b) = Around(b) \cup {b} /\ b \notin Around(b) /\ Around(b) = Reach(t[o])
  <2>1. b \in Places /\ b # 0 /\ Reach(b) = Around(b) \cup {b}
      BY ReachOfBracket
  <2>2. b \notin Around(b)
      BY <2>1, AroundIs, SizeIs DEF Places
  <2> QED BY <2>1, <2>2, AroundReaches
<1> HIDE DEF t2, e2, sc2
<1>6. e2[k][b] = k /\ \A a \in Around(b) : e2[k][a] = e[o][a]
    BY <1>4, <1>5
<1>7. Grows(sc, t, e, h, t2, e2, h)
    BY <1>4 DEF Grows
<1>8. Untouched(sc, sc2, t, Len(sc) + 1)
    BY <1>3 DEF Untouched
<1>9. Instance(sc, n, t, e, o)
    BY <1>1 DEF ScopesOK
<1>10. Instance(sc2, n, t2, e2, k)
  <2>1. \A a \in Around(b) : /\ e[o][a] \in DOMAIN t /\ t[e[o][a]] = a /\ e[o][a] <= o
                             /\ \A c \in Reach(a) : e[e[o][a]][c] = e[o][c]
      BY <1>5, <1>9 DEF Instance
  <2>2. \A a \in Around(b) : /\ e2[k][a] \in DOMAIN t2 /\ t2[e2[k][a]] = a /\ e2[k][a] <= k
                             /\ \A c \in Reach(a) : c \in Around(b) /\ e2[e2[k][a]][c] = e2[k][c]
    <3> SUFFICES ASSUME NEW a \in Around(b)
                 PROVE  /\ e2[k][a] \in DOMAIN t2 /\ t2[e2[k][a]] = a /\ e2[k][a] <= k
                        /\ \A c \in Reach(a) : c \in Around(b) /\ e2[e2[k][a]][c] = e2[k][c]
        OBVIOUS
    <3>1. Reach(a) \subseteq Around(b)
      <4>1. CASE a = 0
          BY <4>1, <1>5, AroundIs DEF Reach
      <4>2. CASE a # 0
          BY <4>2, <1>5, AroundChains DEF Reach
      <4> QED BY <4>1, <4>2
    <3>2. e2[k][a] = e[o][a] /\ e2[e[o][a]] = e[e[o][a]] /\ t2[e[o][a]] = a /\ e[o][a] \in DOMAIN t2
        BY <1>4, <1>6, <2>1
    <3>3. o \in Nat /\ o <= k /\ e[o][a] \in Nat
        BY <1>2, <1>3, <2>1
    <3> QED BY <3>1, <3>2, <3>3, <2>1, <1>6, <1>2
  <2>3. /\ e2[k][b] \in DOMAIN t2 /\ t2[e2[k][b]] = b /\ e2[k][b] <= k
        /\ \A c \in Reach(b) : e2[e2[k][b]][c] = e2[k][c]
      BY <1>2, <1>4, <1>6
  <2>4. sc2[k].out \in DOMAIN t2 /\ t2[sc2[k].out] = Inner(b) /\ \A a \in Around(b) : e2[k][a] = e2[sc2[k].out][a]
      BY <1>2, <1>4, <1>6
  <2>5. t2[k] = b /\ \A a \in Reach(b) : a \in Around(b) \/ a = b
      BY <1>4, <1>5
  <2>6. DOMAIN sc2[k].bound = {}
      BY <1>2
  <2> QED BY <2>2, <2>3, <2>4, <2>5, <2>6, <1>5, <1>6 DEF Instance
<1>11. ASSUME NEW x \in DOMAIN t PROVE Instance(sc2, n, t2, e2, x)
  <2>1. Instance(sc, n, t, e, x) /\ sc2[x] = sc[x] /\ t2[x] = t[x] /\ e2[x] = e[x]
      BY <1>1, <1>3, <1>4 DEF ScopesOK
  <2>2. \A a \in Reach(t[x]) : /\ e2[x][a] \in DOMAIN t2 /\ t2[e2[x][a]] = a /\ e2[x][a] <= x
                               /\ \A c \in Reach(a) : e2[e2[x][a]][c] = e2[x][c]
      BY <2>1, <1>4 DEF Instance
  <2>3. t[x] # 0 => /\ sc2[x].out \in DOMAIN t2 /\ t2[sc2[x].out] = Inner(t[x])
                    /\ \A a \in Around(t[x]) : e2[x][a] = e2[sc2[x].out][a]
      BY <2>1, <1>4 DEF Instance
  <2>4. /\ t2[x] \in {0} \cup {c \in Text : Op(c) \in Brackets} /\ e2[x][t2[x]] = x /\ (t2[x] = 0 => sc2[x].out = Root)
        /\ \A d \in DOMAIN sc2[x].bound : /\ d \in Binding /\ ScopeOf(d) = t2[x]
                                          /\ Op(d) \in Functions => sc2[x].bound[d] \in 1 .. n
      BY <2>1 DEF Instance
  <2> QED BY <2>1, <2>2, <2>3, <2>4 DEF Instance
<1>12. ScopesOK(sc2, n, t2, e2)
  <2>1. \A x \in DOMAIN t2 : Instance(sc2, n, t2, e2, x)
      BY <1>4, <1>10, <1>11
  <2>2. DOMAIN t2 \subseteq 2 .. Len(sc2)
    <3>1. o \in 2 .. Len(sc)
        BY <1>3
    <3> QED BY <3>1, <1>2, <1>3, <1>4
  <2>3. ASSUME NEW x \in 1 .. Len(sc2)
        PROVE  /\ {"out", "bound"} \subseteq DOMAIN sc2[x] /\ sc2[x].out \in 0 .. x - 1
               /\ x \notin DOMAIN t2 => sc2[x].out = 0
    <3>1. CASE x = k
        BY <3>1, <1>2, <1>3, <1>4
    <3>2. CASE x # k
      <4>1. x \in 1 .. Len(sc)
          BY <3>2, <1>2
      <4> QED BY <4>1, <1>1, <1>2, <1>4 DEF ScopesOK
    <3> QED BY <3>1, <3>2
  <2> QED BY <2>1, <2>2, <2>3, <1>2 DEF ScopesOK
<1>13. CellsOK(sc2, ce, t2, h)
  <2>1. \A x \in DOMAIN t2 : \A d \in DOMAIN sc2[x].bound : x \in DOMAIN t /\ d \in DOMAIN sc[x].bound /\ sc2[x] = sc[x]
      BY <1>2, <1>3, <1>4
  <2>2. ASSUME NEW x \in DOMAIN t2, NEW d \in DOMAIN sc2[x].bound, Boxed(d)
        PROVE  /\ <<x, d>> \in DOMAIN h /\ h[<<x, d>>] \in 1 .. Len(ce) /\ ce[h[<<x, d>>]] = sc2[x].bound[d]
               /\ \A j \in DOMAIN t2 : \A c \in DOMAIN sc2[j].bound :
                     Boxed(c) /\ h[<<j, c>>] = h[<<x, d>>] => j = x /\ c = d
    <3>1. x \in DOMAIN t /\ d \in DOMAIN sc[x].bound /\ sc2[x] = sc[x]
        BY <2>1
    <3>2. /\ <<x, d>> \in DOMAIN h /\ h[<<x, d>>] \in 1 .. Len(ce) /\ ce[h[<<x, d>>]] = sc[x].bound[d]
          /\ \A j \in DOMAIN t : \A c \in DOMAIN sc[j].bound :
                Boxed(c) /\ h[<<j, c>>] = h[<<x, d>>] => j = x /\ c = d
        BY <3>1, <2>2, <1>1 DEF CellsOK
    <3>3. \A j \in DOMAIN t2 : \A c \in DOMAIN sc2[j].bound :
                Boxed(c) /\ h[<<j, c>>] = h[<<x, d>>] => j = x /\ c = d
        BY <3>2, <2>1
    <3> QED BY <3>1, <3>2, <3>3
  <2>3. List(ce)
      BY <1>1 DEF CellsOK
  <2> QED BY <2>2, <2>3 DEF CellsOK
<1>14. ClosuresOK(sc2, cl, t2, e2, h)
    BY <1>1, <1>3, <1>7, ClosuresKept
<1> QED BY <1>2, <1>3, <1>4, <1>6, <1>7, <1>8, <1>12, <1>13, <1>14 DEF World, t2, e2, sc2

\* sc2 is sc with the value v for the binding d in the instance s.
Bound(sc, sc2, s, d, v) ==
    /\ List(sc2) /\ Len(sc2) = Len(sc)
    /\ \A k \in 1 .. Len(sc) : /\ {"out", "bound"} \subseteq DOMAIN sc2[k]
                               /\ sc2[k].out = sc[k].out
                               /\ k # s => sc2[k].bound = sc[k].bound
    /\ DOMAIN sc2[s].bound = DOMAIN sc[s].bound \cup {d}
    /\ \A x \in DOMAIN sc[s].bound \cup {d} : sc2[s].bound[x] = IF x = d THEN v ELSE sc[s].bound[x]

\* A binding is made: in its scope, and in its cell if it has one.
LEMMA ScopesBind ==
    ASSUME NEW sc, NEW sc2, NEW n, NEW t, NEW e, ScopesOK(sc, n, t, e),
           NEW s \in DOMAIN t, NEW d \in Binding, NEW v, ScopeOf(d) = t[s],
           Op(d) \in Functions => v \in 1 .. n, Bound(sc, sc2, s, d, v)
    PROVE  ScopesOK(sc2, n, t, e) /\ \A k \in DOMAIN t : DOMAIN sc[k].bound \subseteq DOMAIN sc2[k].bound
<1>1. \A k \in DOMAIN t : k \in 1 .. Len(sc)
  <2>1. Len(sc) \in Nat
      BY ListIs DEF ScopesOK
  <2> QED BY <2>1 DEF ScopesOK
<1>2. ASSUME NEW k \in DOMAIN t PROVE Instance(sc2, n, t, e, k)
  <2>1. Instance(sc, n, t, e, k) /\ sc2[k].out = sc[k].out
      BY <1>1 DEF ScopesOK, Bound
  <2>2. \A x \in DOMAIN sc2[k].bound : /\ x \in Binding /\ ScopeOf(x) = t[k]
                                       /\ Op(x) \in Functions => sc2[k].bound[x] \in 1 .. n
    <3>1. CASE k = s
        BY <3>1, <2>1 DEF Bound, Instance
    <3>2. CASE k # s
        BY <3>2, <2>1, <1>1 DEF Bound, Instance
    <3> QED BY <3>1, <3>2
  <2> QED BY <2>1, <2>2 DEF Instance
<1>3. \A k \in DOMAIN t : DOMAIN sc[k].bound \subseteq DOMAIN sc2[k].bound
    BY <1>1 DEF Bound
<1> QED BY <1>2, <1>3 DEF ScopesOK, Bound

\* A cell for a boxed binding, a new one each time.
CellBinds(ce, ce2, h, h2, s, d, v) ==
    /\ Boxed(d) => ce2 = Append(ce, v) /\ h2 = Over(h, {<<s, d>>}, Len(ce) + 1)
    /\ ~Boxed(d) => ce2 = ce /\ h2 = h

LEMMA WorldBinds ==
    ASSUME Written, NEW sc, NEW sc2, NEW n, NEW cl, NEW ce, NEW t, NEW e, NEW h,
           World(sc, n, cl, ce, t, e, h),
           NEW s \in DOMAIN t, NEW d \in Binding, NEW v, ScopeOf(d) = t[s], d \notin DOMAIN sc[s].bound,
           Op(d) \in Functions => v \in 1 .. n, Bound(sc, sc2, s, d, v),
           NEW ce2, NEW h2, CellBinds(ce, ce2, h, h2, s, d, v)
    PROVE  /\ World(sc2, n, cl, ce2, t, e, h2) /\ Grows(sc, t, e, h, t, e, h2)
           /\ Untouched(sc, sc2, t, s)
<1>0. /\ Boxed(d) => ce2 = Append(ce, v) /\ h2 = Over(h, {<<s, d>>}, Len(ce) + 1)
      /\ ~Boxed(d) => ce2 = ce /\ h2 = h
    BY DEF CellBinds
<1>1. ScopesOK(sc, n, t, e) /\ CellsOK(sc, ce, t, h) /\ ClosuresOK(sc, cl, t, e, h)
    BY DEF World
<1>2. ScopesOK(sc2, n, t, e) /\ \A k \in DOMAIN t : DOMAIN sc[k].bound \subseteq DOMAIN sc2[k].bound
    BY <1>1, ScopesBind
<1>3. /\ List(ce2) /\ Len(ce) \in Nat
      /\ Boxed(d) => Len(ce2) = Len(ce) + 1 /\ ce2[Len(ce) + 1] = v
      /\ ~Boxed(d) => ce2 = ce
      /\ \A x \in 1 .. Len(ce) : x \in 1 .. Len(ce2) /\ ce2[x] = ce[x]
  <2>1. List(ce)
      BY <1>1 DEF CellsOK
  <2>2. /\ List(Append(ce, v)) /\ Len(Append(ce, v)) = Len(ce) + 1 /\ Len(ce) \in Nat
        /\ \A x \in 1 .. Len(ce) : Append(ce, v)[x] = ce[x]
        /\ Append(ce, v)[Len(ce) + 1] = v
      BY <2>1, ListAppend
  <2>3. CASE Boxed(d)
    <3>1. ce2 = Append(ce, v)
        BY <2>3, <1>0
    <3>2. \A x \in 1 .. Len(ce) : x \in 1 .. Len(ce) + 1
        BY <2>2
    <3> QED BY <2>2, <2>3, <3>1, <3>2
  <2>4. CASE ~Boxed(d)
      BY <2>1, <2>2, <2>4, <1>0
  <2> QED BY <2>3, <2>4
<1>4. /\ DOMAIN h2 = DOMAIN h \cup (IF Boxed(d) THEN {<<s, d>>} ELSE {})
      /\ Boxed(d) => h2[<<s, d>>] = Len(ce) + 1
      /\ \A x \in DOMAIN h : x # <<s, d>> => h2[x] = h[x]
      /\ ~Boxed(d) => h2 = h
  <2>1. CASE Boxed(d)
    <3>1. h2 = Over(h, {<<s, d>>}, Len(ce) + 1)
        BY <2>1, <1>0
    <3>2. PICK p : p = <<s, d>>
        OBVIOUS
    <3>3. PICK q : q = Len(ce) + 1
        OBVIOUS
    <3>4. h2 = Over(h, {p}, q)
        BY <3>1, <3>2, <3>3
    <3>5. DOMAIN h2 = DOMAIN h \cup {p} /\ h2[p] = q /\ \A x \in DOMAIN h : x # p => h2[x] = h[x]
        BY <3>4 DEF Over
    <3> QED BY <2>1, <3>2, <3>3, <3>5
  <2>2. CASE ~Boxed(d)
      BY <2>2, <1>0
  <2> QED BY <2>1, <2>2
<1>5. ASSUME NEW k \in DOMAIN t, NEW x \in DOMAIN sc[k].bound, Boxed(x)
      PROVE  <<k, x>> # <<s, d>> /\ <<k, x>> \in DOMAIN h2 /\ h2[<<k, x>>] = h[<<k, x>>] /\ h[<<k, x>>] \in 1 .. Len(ce)
  <2>1. <<k, x>> # <<s, d>>
      OBVIOUS
  <2>2. <<k, x>> \in DOMAIN h /\ h[<<k, x>>] \in 1 .. Len(ce)
      BY <1>1, <1>5 DEF CellsOK
  <2> QED BY <2>1, <2>2, <1>4
<1>6. Grows(sc, t, e, h, t, e, h2)
    BY <1>5 DEF Grows
<1>7. \A k \in DOMAIN t : k \in 1 .. Len(sc)
  <2>1. Len(sc) \in Nat
      BY <1>1, ListIs DEF ScopesOK
  <2> QED BY <2>1, <1>1 DEF ScopesOK
<1>8. Untouched(sc, sc2, t, s)
  <2>1. s \in Nat /\ \A k \in DOMAIN t : k < s => k # s
      BY <1>7
  <2> QED BY <2>1, <1>7 DEF Untouched, Bound
<1>9. CellsOK(sc2, ce2, t, h2)
  <2>1. ASSUME NEW k \in DOMAIN t, NEW x \in DOMAIN sc2[k].bound
        PROVE  \/ k = s /\ x = d
               \/ x \in DOMAIN sc[k].bound /\ <<k, x>> # <<s, d>> /\ sc2[k].bound[x] = sc[k].bound[x]
    <3>1. CASE k = s
        BY <3>1 DEF Bound
    <3>2. CASE k # s
        BY <3>2, <1>7 DEF Bound
    <3> QED BY <3>1, <3>2
  <2>2. ASSUME NEW k \in DOMAIN t, NEW x \in DOMAIN sc2[k].bound, Boxed(x)
        PROVE  <<k, x>> \in DOMAIN h2 /\ h2[<<k, x>>] \in 1 .. Len(ce2) /\ ce2[h2[<<k, x>>]] = sc2[k].bound[x]
    <3>1. CASE k = s /\ x = d
      <4>1. sc2[s].bound[d] = v
          BY DEF Bound
      <4> QED BY <3>1, <4>1, <2>2, <1>3, <1>4
    <3>2. CASE x \in DOMAIN sc[k].bound /\ sc2[k].bound[x] = sc[k].bound[x]
      <4>1. ce[h[<<k, x>>]] = sc[k].bound[x]
          BY <3>2, <2>2, <1>1 DEF CellsOK
      <4> QED BY <3>2, <4>1, <2>2, <1>3, <1>5
    <3> QED BY <3>1, <3>2, <2>1
  <2>3. ASSUME NEW k \in DOMAIN t, NEW x \in DOMAIN sc2[k].bound, Boxed(x),
               NEW j \in DOMAIN t, NEW c \in DOMAIN sc2[j].bound, Boxed(c), h2[<<j, c>>] = h2[<<k, x>>]
        PROVE  j = k /\ c = x
    <3>1. CASE k = s /\ x = d /\ j = s /\ c = d
        BY <3>1
    <3>2. CASE k = s /\ x = d /\ c \in DOMAIN sc[j].bound
      <4>1. h2[<<j, c>>] \in 1 .. Len(ce)
          BY <3>2, <2>3, <1>5
      <4>2. h2[<<k, x>>] = Len(ce) + 1
          BY <3>2, <2>3, <1>4
      <4> QED BY <4>1, <4>2, <2>3, <1>3
    <3>3. CASE x \in DOMAIN sc[k].bound /\ j = s /\ c = d
      <4>1. h2[<<k, x>>] \in 1 .. Len(ce)
          BY <3>3, <2>3, <1>5
      <4>2. h2[<<j, c>>] = Len(ce) + 1
          BY <3>3, <2>3, <1>4
      <4> QED BY <4>1, <4>2, <2>3, <1>3
    <3>4. CASE x \in DOMAIN sc[k].bound /\ c \in DOMAIN sc[j].bound
      <4>1. h2[<<j, c>>] = h[<<j, c>>] /\ h2[<<k, x>>] = h[<<k, x>>]
          BY <3>4, <2>3, <1>5
      <4>2. \A y \in DOMAIN t : \A z \in DOMAIN sc[y].bound :
                Boxed(z) /\ h[<<y, z>>] = h[<<k, x>>] => y = k /\ z = x
          BY <3>4, <2>3, <1>1 DEF CellsOK
      <4>3. Boxed(c) /\ h[<<j, c>>] = h[<<k, x>>]
          BY <4>1, <2>3
      <4> QED BY <3>4, <4>2, <4>3, <2>3
    <3> QED BY <2>1, <3>1, <3>2, <3>3, <3>4
  <2> QED BY <2>2, <2>3, <1>3 DEF CellsOK
<1>10. ClosuresOK(sc2, cl, t, e, h2)
    BY <1>1, <1>2, <1>6, ClosuresKept
<1> QED BY <1>2, <1>4, <1>6, <1>8, <1>9, <1>10 DEF World

CellPut(ce, ce2, h, s, d, v) ==
    /\ Boxed(d) => ce2 = Put(ce, h[<<s, d>>], v)
    /\ ~Boxed(d) => ce2 = ce

Reassigned(sc, sc2, t, s, d, v) ==
    \A k \in DOMAIN t : /\ DOMAIN sc2[k].bound = DOMAIN sc[k].bound
                        /\ \A x \in DOMAIN sc[k].bound :
                              sc2[k].bound[x] = IF k = s /\ x = d THEN v ELSE sc[k].bound[x]

\* A binding is assigned.
LEMMA WorldAssigns ==
    ASSUME Written, NEW sc, NEW sc2, NEW n, NEW cl, NEW ce, NEW t, NEW e, NEW h,
           World(sc, n, cl, ce, t, e, h),
           NEW s \in DOMAIN t, NEW d \in DOMAIN sc[s].bound, NEW v, Op(d) = "var", Bound(sc, sc2, s, d, v),
           NEW ce2, CellPut(ce, ce2, h, s, d, v)
    PROVE  World(sc2, n, cl, ce2, t, e, h) /\ Reassigned(sc, sc2, t, s, d, v)
<1>0. (Boxed(d) => ce2 = Put(ce, h[<<s, d>>], v)) /\ (~Boxed(d) => ce2 = ce)
    BY DEF CellPut
<1>1. ScopesOK(sc, n, t, e) /\ CellsOK(sc, ce, t, h) /\ ClosuresOK(sc, cl, t, e, h)
    BY DEF World
<1>2. d \in Binding /\ ScopeOf(d) = t[s]
    BY <1>1 DEF ScopesOK, Instance
<1>3. ScopesOK(sc2, n, t, e) /\ \A k \in DOMAIN t : DOMAIN sc[k].bound \subseteq DOMAIN sc2[k].bound
    BY <1>1, <1>2, ScopesBind DEF Functions
<1>4. List(ce2) /\ Len(ce2) = Len(ce)
      /\ \A x \in 1 .. Len(ce) : ce2[x] = IF Boxed(d) /\ x = h[<<s, d>>] THEN v ELSE ce[x]
  <2>1. List(ce)
      BY <1>1 DEF CellsOK
  <2>2. CASE Boxed(d)
    <3>1. PICK p : p = h[<<s, d>>]
        OBVIOUS
    <3> QED BY <2>1, <2>2, <3>1, <1>0, ListPut
  <2>3. CASE ~Boxed(d)
      BY <2>1, <2>3, <1>0
  <2> QED BY <2>2, <2>3
<1>5. \A k \in DOMAIN t : k \in 1 .. Len(sc)
  <2>1. Len(sc) \in Nat
      BY <1>1, ListIs DEF ScopesOK
  <2> QED BY <2>1, <1>1 DEF ScopesOK
<1>6. \A k \in DOMAIN t : /\ DOMAIN sc2[k].bound = DOMAIN sc[k].bound
                          /\ \A x \in DOMAIN sc[k].bound :
                                sc2[k].bound[x] = IF k = s /\ x = d THEN v ELSE sc[k].bound[x]
    BY <1>5 DEF Bound
<1>7. CellsOK(sc2, ce2, t, h)
  <2>1. ASSUME NEW k \in DOMAIN t, NEW x \in DOMAIN sc2[k].bound, Boxed(x)
        PROVE  /\ <<k, x>> \in DOMAIN h /\ h[<<k, x>>] \in 1 .. Len(ce2) /\ ce2[h[<<k, x>>]] = sc2[k].bound[x]
               /\ \A j \in DOMAIN t : \A c \in DOMAIN sc2[j].bound :
                     Boxed(c) /\ h[<<j, c>>] = h[<<k, x>>] => j = k /\ c = x
    <3>1. x \in DOMAIN sc[k].bound
        BY <1>6
    <3>2. /\ <<k, x>> \in DOMAIN h /\ h[<<k, x>>] \in 1 .. Len(ce) /\ ce[h[<<k, x>>]] = sc[k].bound[x]
          /\ \A j \in DOMAIN t : \A c \in DOMAIN sc[j].bound :
                     Boxed(c) /\ h[<<j, c>>] = h[<<k, x>>] => j = k /\ c = x
        BY <3>1, <2>1, <1>1 DEF CellsOK
    <3>3. ce2[h[<<k, x>>]] = sc2[k].bound[x]
        BY <3>1, <3>2, <2>1, <1>4, <1>6
    <3> QED BY <3>2, <3>3, <1>4, <1>6
  <2> QED BY <2>1, <1>4 DEF CellsOK
<1>8. ClosuresOK(sc2, cl, t, e, h)
    BY <1>1, <1>3, GrowsSelf, ClosuresKept
<1> QED BY <1>3, <1>6, <1>7, <1>8 DEF World, Reassigned

\* The newest call: it goes on, binds a name, assigns to one, enters and leaves
\* a block.
IsFrame(fr) == {"pc", "scope", "slots", "cells", "captured"} \subseteq DOMAIN fr

\* What a scope around a place binds is a binding of that bracket.
LEMMA BoundThere ==
    ASSUME Written, NEW sc, NEW n, NEW t, NEW e, ScopesOK(sc, n, t, e),
           NEW s \in DOMAIN t, NEW i \in Places, t[s] = Inner(i), NEW b \in Around(i),
           NEW d \in DOMAIN sc[e[s][b]].bound
    PROVE  d \in Binding /\ ScopeOf(d) = b /\ d \in Text /\ d \in Nat
<1>1. e[s][b] \in DOMAIN t /\ t[e[s][b]] = b
    BY AtInstance
<1>2. d \in Binding /\ ScopeOf(d) = b
    BY <1>1 DEF ScopesOK, Instance
<1> QED BY <1>2, SizeIs DEF Binding, Text

\* The newest call goes on: past a token, to a binding, an assignment, into a
\* block and out of it, into a closure.
LEMMA FrameMoves ==
    ASSUME Written, NEW sc, NEW n, NEW fr, NEW fr2, NEW D, NEW t, NEW e, NEW h,
           ScopesOK(sc, n, t, e), FrameOK(sc, fr, D, t, e, h),
           IsFrame(fr2), fr2.scope = fr.scope, fr2.slots = fr.slots, fr2.cells = fr.cells,
           fr2.captured = fr.captured,
           fr2.pc \in Places, Around(fr2.pc) = Around(fr.pc), fr.pc <= fr2.pc, D \subseteq Seen(fr2.pc)
    PROVE  FrameOK(sc, fr2, D, t, e, h) /\ Base(fr2, e) = Base(fr, e)
<1>1. fr.pc \in Places /\ Inner(fr2.pc) = Inner(fr.pc) /\ fr.scope \in DOMAIN t /\ t[fr.scope] = Inner(fr.pc)
    BY DEF FrameOK, Inner
<1>2. FunOf(fr2.pc) = FunOf(fr.pc)
    BY <1>1, FunWithin
<1>3. \A b \in Around(fr2.pc) : b >= FunOf(fr2.pc) => \A d \in DOMAIN sc[e[fr2.scope][b]].bound : d < fr2.pc
  <2> SUFFICES ASSUME NEW b \in Around(fr2.pc), b >= FunOf(fr2.pc),
                      NEW d \in DOMAIN sc[e[fr2.scope][b]].bound
               PROVE  d < fr2.pc
      OBVIOUS
  <2>1. d < fr.pc
      BY <1>2 DEF FrameOK
  <2>2. fr.pc \in Int /\ fr2.pc \in Int
      BY <1>1, SizeIs DEF Places
  <2>3. d \in Nat
      BY <1>1, BoundThere
  <2> QED BY <2>1, <2>2, <2>3
<1> QED BY <1>1, <1>2, <1>3 DEF FrameOK, IsFrame, Base

CellAt(h, s, d, c) == h[<<s, d>>] = c

\* fr2 is fr with the value v, or the cell c, for the binding d.
Holding(fr, fr2, d, v, c) ==
    /\ IsFrame(fr2) /\ fr2.scope = fr.scope /\ fr2.captured = fr.captured
    /\ \A x \in DOMAIN fr.slots : x \notin Slots(d) => x \in DOMAIN fr2.slots /\ fr2.slots[x] = fr.slots[x]
    /\ ~Boxed(d) => Own(d).at \in DOMAIN fr2.slots /\ fr2.slots[Own(d).at] = v
    /\ \A x \in DOMAIN fr.cells : x # d => x \in DOMAIN fr2.cells /\ fr2.cells[x] = fr.cells[x]
    /\ Boxed(d) => d \in DOMAIN fr2.cells /\ fr2.cells[d] = c

LEMMA FrameBinds ==
    ASSUME Written, NEW sc, NEW sc2, NEW n, NEW fr, NEW fr2, NEW D, NEW t, NEW e, NEW h, NEW h2,
           ScopesOK(sc, n, t, e), FrameOK(sc, fr, D, t, e, h), Grows(sc, t, e, h, t, e, h2),
           NEW d \in Binding, NEW v, ScopeOf(d) = t[fr.scope], d \notin DOMAIN sc[fr.scope].bound,
           FunOf(d) = FunOf(fr.pc), Bound(sc, sc2, fr.scope, d, v),
           NEW ca, Boxed(d) => CellAt(h2, fr.scope, d, ca), Holding(fr, fr2, d, v, ca),
           fr2.pc \in Places, Around(fr2.pc) = Around(fr.pc), fr.pc <= fr2.pc, d < fr2.pc,
           D \subseteq Seen(fr2.pc), d \in Seen(fr2.pc)
    PROVE  FrameOK(sc2, fr2, D \cup {d}, t, e, h2) /\ Base(fr2, e) = Base(fr, e)
<1> DEFINE s == fr.scope
           f == FunOf(fr.pc)
<1>0. /\ IsFrame(fr2) /\ fr2.scope = fr.scope /\ fr2.captured = fr.captured
      /\ \A x \in DOMAIN fr.slots : x \notin Slots(d) => x \in DOMAIN fr2.slots /\ fr2.slots[x] = fr.slots[x]
      /\ ~Boxed(d) => Own(d).at \in DOMAIN fr2.slots /\ fr2.slots[Own(d).at] = v
      /\ \A x \in DOMAIN fr.cells : x # d => x \in DOMAIN fr2.cells /\ fr2.cells[x] = fr.cells[x]
      /\ Boxed(d) => d \in DOMAIN fr2.cells /\ fr2.cells[d] = h2[<<s, d>>]
    BY DEF Holding, CellAt
<1> USE <1>0
<1>1. /\ fr.pc \in Places /\ Inner(fr2.pc) = Inner(fr.pc) /\ s \in DOMAIN t /\ t[s] = Inner(fr.pc)
      /\ Bounds(sc, e, s, D) /\ D \subseteq Seen(fr.pc)
    BY DEF FrameOK, Inner
<1>2. FunOf(fr2.pc) = f
    BY <1>1, FunWithin
<1>3. e[s][ScopeOf(d)] = s
    BY <1>1 DEF ScopesOK, Instance
<1>4. d \notin D
    BY <1>1, <1>3 DEF Bounds, Has
<1>5. \A k \in DOMAIN t : k \in 1 .. Len(sc)
  <2>1. Len(sc) \in Nat
      BY ListIs DEF ScopesOK
  <2> QED BY <2>1 DEF ScopesOK
<1>6. \A k \in DOMAIN t : /\ DOMAIN sc2[k].bound = DOMAIN sc[k].bound \cup (IF k = s THEN {d} ELSE {})
                          /\ \A x \in DOMAIN sc[k].bound : x # d => sc2[k].bound[x] = sc[k].bound[x]
  <2> SUFFICES ASSUME NEW k \in DOMAIN t
               PROVE  /\ DOMAIN sc2[k].bound = DOMAIN sc[k].bound \cup (IF k = s THEN {d} ELSE {})
                      /\ \A x \in DOMAIN sc[k].bound : x # d => sc2[k].bound[x] = sc[k].bound[x]
      OBVIOUS
  <2>1. CASE k = s
      BY <2>1 DEF Bound
  <2>2. CASE k # s
    <3>1. sc2[k].bound = sc[k].bound
        BY <2>2, <1>5 DEF Bound
    <3> QED BY <2>2, <3>1
  <2> QED BY <2>1, <2>2
<1>7. sc2[s].bound[d] = v
    BY DEF Bound
<1>8. \A c \in D : /\ e[s][ScopeOf(c)] \in DOMAIN t /\ c \in DOMAIN sc[e[s][ScopeOf(c)]].bound
                   /\ c \in DOMAIN sc2[e[s][ScopeOf(c)]].bound
                   /\ sc2[e[s][ScopeOf(c)]].bound[c] = sc[e[s][ScopeOf(c)]].bound[c]
                   /\ Boxed(c) => h2[<<e[s][ScopeOf(c)], c>>] = h[<<e[s][ScopeOf(c)], c>>]
  <2> SUFFICES ASSUME NEW c \in D
               PROVE  LET k == e[s][ScopeOf(c)] IN
                      /\ k \in DOMAIN t /\ c \in DOMAIN sc[k].bound /\ c \in DOMAIN sc2[k].bound
                      /\ sc2[k].bound[c] = sc[k].bound[c]
                      /\ Boxed(c) => h2[<<k, c>>] = h[<<k, c>>]
      OBVIOUS
  <2> DEFINE k == e[s][ScopeOf(c)]
  <2>1. k \in DOMAIN t
      BY <1>1, SeenAt
  <2>2. c \in DOMAIN sc[k].bound
      BY <1>1 DEF Bounds, Has
  <2> HIDE DEF k
  <2>3. /\ c \in DOMAIN sc2[k].bound /\ sc2[k].bound[c] = sc[k].bound[c]
        /\ Boxed(c) => h2[<<k, c>>] = h[<<k, c>>]
      BY <2>1, <2>2, <1>4, <1>6 DEF Grows
  <2> QED BY <2>1, <2>2, <2>3 DEF k
<1>9. Bounds(sc2, e, s, D \cup {d})
    BY <1>1, <1>3, <1>6, <1>8 DEF Bounds, Has
<1>10. \A b \in Around(fr2.pc) : b >= f => \A x \in DOMAIN sc2[e[s][b]].bound : x < fr2.pc
  <2> SUFFICES ASSUME NEW b \in Around(fr.pc), b >= f, NEW x \in DOMAIN sc2[e[s][b]].bound
               PROVE  x < fr2.pc
      OBVIOUS
  <2>1. e[s][b] \in DOMAIN t
      BY <1>1, AtInstance
  <2>2. CASE x = d
      BY <2>2
  <2>3. CASE x \in DOMAIN sc[e[s][b]].bound
    <3>1. x < fr.pc
        BY <2>3 DEF FrameOK
    <3>2. x \in Nat
        BY <2>3, <1>1, BoundThere
    <3> QED BY <3>1, <3>2, <1>1, SizeIs DEF Places
  <2> QED BY <2>1, <2>2, <2>3, <1>6
<1>11. \A c \in D \cup {d} : FunOf(c) = f =>
             /\ Boxed(c) => c \in DOMAIN fr2.cells /\ fr2.cells[c] = h2[<<e[s][ScopeOf(c)], c>>]
             /\ ~Boxed(c) => /\ Own(c).at \in DOMAIN fr2.slots
                             /\ fr2.slots[Own(c).at] = sc2[e[s][ScopeOf(c)]].bound[c]
  <2> SUFFICES ASSUME NEW c \in D, FunOf(c) = f
               PROVE  /\ Boxed(c) => c \in DOMAIN fr2.cells /\ fr2.cells[c] = h2[<<e[s][ScopeOf(c)], c>>]
                      /\ ~Boxed(c) => /\ Own(c).at \in DOMAIN fr2.slots
                                      /\ fr2.slots[Own(c).at] = sc2[e[s][ScopeOf(c)]].bound[c]
      BY <1>3, <1>7
  <2>1. /\ Boxed(c) => c \in DOMAIN fr.cells /\ fr.cells[c] = h[<<e[s][ScopeOf(c)], c>>]
        /\ ~Boxed(c) => /\ Own(c).at \in DOMAIN fr.slots
                        /\ fr.slots[Own(c).at] = sc[e[s][ScopeOf(c)]].bound[c]
      BY DEF FrameOK
  <2>2. c # d
      BY <1>4
  <2>3. CASE Boxed(c)
      BY <2>1, <2>2, <2>3, <1>8
  <2>4. CASE ~Boxed(c)
    <3>1. c \in Binding /\ c < fr2.pc /\ ScopeOf(c) \in Around(fr2.pc) /\ ScopeOf(d) \in Around(fr2.pc)
        BY DEF Seen
    <3>2. Slots(c) \cap Slots(d) = {}
        BY <2>2, <3>1, SlotsApart
    <3>3. Own(c).at \notin Slots(d)
        BY <3>1, <3>2, <2>4, OwnIs
    <3> QED BY <2>1, <2>4, <3>3, <1>8
  <2> QED BY <2>3, <2>4
<1>12. \A c \in Captures(f) : c \in D /\ fr2.captured[c] = h2[<<e[s][ScopeOf(c)], c>>]
  <2> SUFFICES ASSUME NEW c \in Captures(f) PROVE c \in D /\ fr2.captured[c] = h2[<<e[s][ScopeOf(c)], c>>]
      OBVIOUS
  <2>1. c \in D /\ fr.captured[c] = h[<<e[s][ScopeOf(c)], c>>]
      BY DEF FrameOK
  <2>2. f # 0
    <3>1. CASE f = 0
        BY <3>1 DEF Captures
    <3> QED BY <3>1
  <2>3. Boxed(c)
      BY <1>1, <2>2, FunIs, CapturesAre
  <2> QED BY <2>1, <2>3, <1>8
<1> QED BY <1>1, <1>2, <1>9, <1>10, <1>11, <1>12 DEF FrameOK, IsFrame, Base

SlotPut(fr, fr2, d, v) ==
    /\ IsFrame(fr2) /\ fr2.pc = fr.pc /\ fr2.scope = fr.scope /\ fr2.captured = fr.captured /\ fr2.cells = fr.cells
    /\ ~Boxed(d) => /\ FunOf(d) = FunOf(fr.pc) /\ DOMAIN fr2.slots = DOMAIN fr.slots
                    /\ \A x \in DOMAIN fr.slots : fr2.slots[x] = IF x = Own(d).at THEN v ELSE fr.slots[x]
    /\ Boxed(d) => fr2.slots = fr.slots

LEMMA FrameAssigns ==
    ASSUME Written, NEW sc, NEW sc2, NEW n, NEW fr, NEW fr2, NEW D, NEW t, NEW e, NEW h,
           ScopesOK(sc, n, t, e), FrameOK(sc, fr, D, t, e, h),
           NEW d \in D, NEW v,
           Reassigned(sc, sc2, t, e[fr.scope][ScopeOf(d)], d, v),
           SlotPut(fr, fr2, d, v)
    PROVE  FrameOK(sc2, fr2, D, t, e, h) /\ Base(fr2, e) = Base(fr, e)
<1> DEFINE s == fr.scope
           f == FunOf(fr.pc)
           k0 == e[s][ScopeOf(d)]
<1>0. /\ IsFrame(fr2) /\ fr2.pc = fr.pc /\ fr2.scope = fr.scope /\ fr2.captured = fr.captured /\ fr2.cells = fr.cells
      /\ ~Boxed(d) => /\ FunOf(d) = FunOf(fr.pc) /\ DOMAIN fr2.slots = DOMAIN fr.slots
                      /\ \A x \in DOMAIN fr.slots : fr2.slots[x] = IF x = Own(d).at THEN v ELSE fr.slots[x]
      /\ Boxed(d) => fr2.slots = fr.slots
    BY DEF SlotPut
<1> USE <1>0
<1>1. /\ fr.pc \in Places /\ s \in DOMAIN t /\ t[s] = Inner(fr.pc)
      /\ Bounds(sc, e, s, D) /\ D \subseteq Seen(fr.pc)
    BY DEF FrameOK
<1>2. \A k \in DOMAIN t : DOMAIN sc2[k].bound = DOMAIN sc[k].bound
    BY DEF Reassigned
<1>3. \A k \in DOMAIN t : \A x \in DOMAIN sc[k].bound :
          sc2[k].bound[x] = IF k = k0 /\ x = d THEN v ELSE sc[k].bound[x]
    BY DEF Reassigned
<1>4. \A c \in D : LET k == e[s][ScopeOf(c)] IN
          /\ k \in DOMAIN t /\ c \in DOMAIN sc[k].bound /\ c \in DOMAIN sc2[k].bound
          /\ sc2[k].bound[c] = IF c = d THEN v ELSE sc[k].bound[c]
  <2> SUFFICES ASSUME NEW c \in D
               PROVE  LET k == e[s][ScopeOf(c)] IN
                      /\ k \in DOMAIN t /\ c \in DOMAIN sc[k].bound /\ c \in DOMAIN sc2[k].bound
                      /\ sc2[k].bound[c] = IF c = d THEN v ELSE sc[k].bound[c]
      OBVIOUS
  <2> DEFINE k == e[s][ScopeOf(c)]
  <2>1. k \in DOMAIN t
      BY <1>1, SeenAt
  <2>2. c \in DOMAIN sc[k].bound
      BY <1>1 DEF Bounds, Has
  <2>3. c = d => k = k0
      OBVIOUS
  <2> HIDE DEF k, k0
  <2>4. c \in DOMAIN sc2[k].bound /\ sc2[k].bound[c] = IF c = d THEN v ELSE sc[k].bound[c]
      BY <2>1, <2>2, <2>3, <1>2, <1>3
  <2> QED BY <2>1, <2>2, <2>4 DEF k
<1>5. Bounds(sc2, e, s, D)
    BY <1>4 DEF Bounds, Has
<1>6. \A b \in Around(fr.pc) : b >= f => \A x \in DOMAIN sc2[e[s][b]].bound : x < fr.pc
  <2> SUFFICES ASSUME NEW b \in Around(fr.pc), b >= f, NEW x \in DOMAIN sc2[e[s][b]].bound
               PROVE  x < fr.pc
      OBVIOUS
  <2>1. e[s][b] \in DOMAIN t
      BY <1>1, AtInstance
  <2> QED BY <2>1, <1>2 DEF FrameOK
<1>7. \A c \in D : FunOf(c) = f =>
             /\ Boxed(c) => c \in DOMAIN fr2.cells /\ fr2.cells[c] = h[<<e[s][ScopeOf(c)], c>>]
             /\ ~Boxed(c) => /\ Own(c).at \in DOMAIN fr2.slots
                             /\ fr2.slots[Own(c).at] = sc2[e[s][ScopeOf(c)]].bound[c]
  <2> SUFFICES ASSUME NEW c \in D, FunOf(c) = f
               PROVE  /\ Boxed(c) => c \in DOMAIN fr2.cells /\ fr2.cells[c] = h[<<e[s][ScopeOf(c)], c>>]
                      /\ ~Boxed(c) => /\ Own(c).at \in DOMAIN fr2.slots
                                      /\ fr2.slots[Own(c).at] = sc2[e[s][ScopeOf(c)]].bound[c]
      OBVIOUS
  <2>1. /\ Boxed(c) => c \in DOMAIN fr.cells /\ fr.cells[c] = h[<<e[s][ScopeOf(c)], c>>]
        /\ ~Boxed(c) => /\ Own(c).at \in DOMAIN fr.slots
                        /\ fr.slots[Own(c).at] = sc[e[s][ScopeOf(c)]].bound[c]
      BY DEF FrameOK
  <2>2. CASE Boxed(c)
      BY <2>1, <2>2
  <2>3. CASE ~Boxed(c) /\ Boxed(d)
    <3>1. c # d
        BY <2>3
    <3> QED BY <2>1, <2>3, <3>1, <1>4
  <2>4. CASE ~Boxed(c) /\ ~Boxed(d)
    <3>1. CASE c = d
        BY <2>1, <2>4, <3>1, <1>4
    <3>2. CASE c # d
      <4>1. /\ c \in Binding /\ c < fr.pc /\ ScopeOf(c) \in Around(fr.pc)
            /\ d \in Binding /\ d < fr.pc /\ ScopeOf(d) \in Around(fr.pc)
          BY <1>1 DEF Seen
      <4>2. Slots(c) \cap Slots(d) = {}
          BY <2>4, <3>2, <4>1, <1>1, SlotsApart
      <4>3. Own(c).at \in Slots(c) /\ Own(d).at \in Slots(d)
          BY <4>1, <2>4, OwnIs
      <4> QED BY <2>1, <2>4, <3>2, <4>2, <4>3, <1>4
    <3> QED BY <3>1, <3>2
  <2> QED BY <2>2, <2>3, <2>4
<1> QED BY <1>1, <1>5, <1>6, <1>7 DEF FrameOK, IsFrame, Base

Opening(fr, fr2, k) ==
    /\ IsFrame(fr2) /\ fr2.scope = k /\ fr2.slots = fr.slots /\ fr2.cells = fr.cells
    /\ fr2.captured = fr.captured /\ fr2.pc = fr.pc + 1

LEMMA FrameOpens ==
    ASSUME Written, NEW sc, NEW n, NEW fr, NEW fr2, NEW t, NEW e, NEW h, NEW k \in DOMAIN t,
           ScopesOK(sc, n, t, e), FrameOK(sc, fr, Seen(fr.pc), t, e, h),
           fr.pc \in Text, Op(fr.pc) \in {"if", "for"},
           t[k] = fr.pc, sc[k].out = fr.scope, DOMAIN sc[k].bound = {},
           Opening(fr, fr2, k)
    PROVE  FrameOK(sc, fr2, Seen(fr.pc), t, e, h) /\ Base(fr2, e) = Base(fr, e)
<1> DEFINE s == fr.scope
           i == fr.pc
           f == FunOf(i)
           D == Seen(i)
<1>0. /\ IsFrame(fr2) /\ fr2.scope = k /\ fr2.slots = fr.slots /\ fr2.cells = fr.cells
      /\ fr2.captured = fr.captured /\ fr2.pc = fr.pc + 1
    BY DEF Opening
<1> USE <1>0
<1>1. i \in Places /\ s \in DOMAIN t /\ t[s] = Inner(i) /\ Bounds(sc, e, s, D) /\ i \in Nat
    BY SizeIs DEF FrameOK, Places
<1>2. Op(i) \in Brackets /\ i + 1 \in Places /\ Around(i + 1) = Around(i) \cup {i} /\ Inner(i + 1) = i
    BY AfterBracket DEF Brackets
<1>3. FunOf(i + 1) = f
    BY <1>2, FunOfBlock
<1>4. /\ i # 0 /\ e[k][i] = k /\ \A a \in Around(i) : e[k][a] = e[s][a]
  <2>1. Instance(sc, n, t, e, k)
      BY DEF ScopesOK
  <2>2. i # 0
      BY SizeIs DEF Text
  <2> QED BY <2>1, <2>2 DEF Instance
<1>5. D \subseteq Seen(i + 1)
    BY <1>1, <1>2, SeenBefore
<1>6. \A d \in D : e[k][ScopeOf(d)] = e[s][ScopeOf(d)]
    BY <1>4 DEF Seen
<1>7. Bounds(sc, e, k, D)
    BY <1>1, <1>6 DEF Bounds
<1>8. \A b \in Around(i + 1) : b >= f => \A d \in DOMAIN sc[e[k][b]].bound : d < i + 1
  <2> SUFFICES ASSUME NEW b \in Around(i + 1), b >= f, NEW d \in DOMAIN sc[e[k][b]].bound
               PROVE  d < i + 1
      OBVIOUS
  <2>1. b # i
      BY <1>4
  <2>2. b \in Around(i) /\ e[k][b] = e[s][b]
      BY <2>1, <1>2, <1>4
  <2>3. d < i
      BY <2>2 DEF FrameOK
  <2>4. d \in Nat
      BY <2>2, <1>1, BoundThere
  <2> QED BY <2>3, <2>4, <1>1
<1>9. \A d \in D : FunOf(d) = f =>
             /\ Boxed(d) => d \in DOMAIN fr.cells /\ fr.cells[d] = h[<<e[k][ScopeOf(d)], d>>]
             /\ ~Boxed(d) => /\ Own(d).at \in DOMAIN fr.slots
                             /\ fr.slots[Own(d).at] = sc[e[k][ScopeOf(d)]].bound[d]
    BY <1>6 DEF FrameOK
<1>10. \A d \in Captures(f) : d \in D /\ fr.captured[d] = h[<<e[k][ScopeOf(d)], d>>]
    BY <1>6 DEF FrameOK
<1>11. Base(fr2, e) = Base(fr, e)
    BY <1>1, <1>3, <1>4, FunIs DEF Base
<1> QED BY <1>2, <1>3, <1>5, <1>7, <1>8, <1>9, <1>10, <1>11 DEF FrameOK, IsFrame

\* What is bound in the body of a bracket is bound in no scope around it.
LEMMA BoundBefore ==
    ASSUME Written, NEW b \in Text, Op(b) \in {"if", "for"}, NEW d \in Binding, ScopeOf(d) \in Around(b),
           d <= Closes(b)
    PROVE  d < b
<1>1. b \in Places /\ b \in Nat /\ d \in Text /\ d \in Places /\ d \in Nat
    BY SizeIs DEF Binding, Places
<1>2. Around(b) \subseteq 0 .. b - 1
    BY <1>1, AroundIs
<1>3. ASSUME b < d PROVE FALSE
  <2>1. Op(b) \in Brackets
      BY DEF Brackets
  <2>2. b \in Around(d)
      BY <1>1, <1>3, <2>1, AroundIs
  <2>3. CASE Op(d) = "for"
      BY <2>3, <1>1, <1>2, <1>3, ScopeIs
  <2>4. CASE Op(d) # "for"
    <3>1. ScopeOf(d) = Max(Around(d))
        BY <2>4, <1>1, ScopeIs
    <3>2. b <= Max(Around(d))
        BY <2>2, <1>1, InnermostIs
    <3> QED BY <3>1, <3>2, <1>1, <1>2
  <2> QED BY <2>3, <2>4
<1>4. ASSUME d = b PROVE FALSE
  <2>1. Op(b) = "for"
      BY <1>4 DEF Binding, Binders
  <2> QED BY <2>1, <1>1, <1>2, <1>4, ScopeIs
<1> QED BY <1>1, <1>3, <1>4

LEMMA FrameLeaves ==
    ASSUME Written, EndsClose, NEW sc, NEW n, NEW fr, NEW fr2, NEW t, NEW e, NEW h,
           ScopesOK(sc, n, t, e), FrameOK(sc, fr, Seen(fr.pc), t, e, h),
           fr.pc \in Text, Op(fr.pc) = "end", Op(Inner(fr.pc)) \in {"if", "for"},
           IsFrame(fr2), fr2.scope = sc[fr.scope].out, fr2.slots = fr.slots, fr2.cells = fr.cells,
           fr2.captured = fr.captured, fr2.pc \in {Inner(fr.pc), fr.pc + 1}
    PROVE  FrameOK(sc, fr2, Seen(fr2.pc), t, e, h) /\ Base(fr2, e) = Base(fr, e)
<1> DEFINE s == fr.scope
           i == fr.pc
           b == Inner(i)
           o == sc[s].out
           j == fr2.pc
           f == FunOf(b)
<1>1. i \in Places /\ s \in DOMAIN t /\ t[s] = b /\ Bounds(sc, e, s, Seen(i)) /\ i \in Nat
    BY SizeIs DEF FrameOK, Places
<1>2. b \in Text /\ Op(b) \in Brackets /\ Closes(b) = i /\ Around(i) = Around(b) \cup {b}
    BY EndIs
<1>3. b \in Places /\ b \in Nat /\ b # 0 /\ b < i
    BY <1>2, SizeIs, ClosesIs DEF Places, Text
<1>4. j \in Places /\ Around(j) = Around(b) /\ b <= j
    BY <1>1, <1>2, <1>3, AfterClosed
<1>5. Inner(j) = Inner(b) /\ FunOf(j) = f /\ FunOf(i) = f
    BY <1>1, <1>2, <1>3, <1>4, FunWithin, FunOfBlock DEF Inner
<1>6. Seen(j) = Seen(b) /\ Seen(b) \subseteq Seen(i)
  <2>1. Seen(i + 1) = Seen(b)
      BY <1>2, SeenAfterClosed DEF Functions
  <2>2. Seen(b) \subseteq Seen(i)
      BY <1>1, <1>2, <1>3, SeenBefore
  <2> QED BY <2>1, <2>2
<1>7. o \in DOMAIN t /\ t[o] = Inner(b) /\ \A a \in Around(b) : e[s][a] = e[o][a]
    BY <1>1, <1>3 DEF ScopesOK, Instance
<1>8. \A d \in Seen(j) : e[o][ScopeOf(d)] = e[s][ScopeOf(d)]
    BY <1>6, <1>7 DEF Seen
<1>9. Bounds(sc, e, o, Seen(j))
    BY <1>1, <1>6, <1>8 DEF Bounds
<1>10. \A a \in Around(j) : a >= f => \A d \in DOMAIN sc[e[o][a]].bound : d < j
  <2> SUFFICES ASSUME NEW a \in Around(b), a >= f, NEW d \in DOMAIN sc[e[s][a]].bound
               PROVE  d < j
      BY <1>4, <1>7
  <2>1. a \in Around(i)
      BY <1>2
  <2>2. d \in Binding /\ ScopeOf(d) = a /\ d \in Nat
      BY <2>1, <1>1, BoundThere
  <2>3. d < i
      BY <2>1, <1>5 DEF FrameOK
  <2>4. d < b
      BY <2>2, <2>3, <1>1, <1>2, BoundBefore
  <2> QED BY <2>2, <2>3, <2>4, <1>1, <1>3
<1>11. \A d \in Seen(j) : FunOf(d) = f =>
             /\ Boxed(d) => d \in DOMAIN fr.cells /\ fr.cells[d] = h[<<e[o][ScopeOf(d)], d>>]
             /\ ~Boxed(d) => /\ Own(d).at \in DOMAIN fr.slots
                             /\ fr.slots[Own(d).at] = sc[e[o][ScopeOf(d)]].bound[d]
    BY <1>5, <1>6, <1>8 DEF FrameOK
<1>12. \A d \in Captures(f) : d \in Seen(j) /\ fr.captured[d] = h[<<e[o][ScopeOf(d)], d>>]
  <2> SUFFICES ASSUME NEW d \in Captures(f) PROVE d \in Seen(j) /\ fr.captured[d] = h[<<e[o][ScopeOf(d)], d>>]
      OBVIOUS
  <2>1. fr.captured[d] = h[<<e[s][ScopeOf(d)], d>>]
      BY <1>5 DEF FrameOK
  <2>2. f # 0
    <3>1. CASE f = 0
        BY <3>1 DEF Captures
    <3> QED BY <3>1
  <2>3. f \in Text /\ Op(f) \in Functions /\ f \in Around(b) /\ f < b
      BY <1>3, <2>2, FunIs
  <2>4. d \in Seen(f)
      BY <2>3, CapturesAre
  <2>5. f \in Places /\ Around(f) \subseteq Around(b)
      BY <1>3, <2>2, <2>3, AroundChains
  <2>6. Seen(f) \subseteq Seen(b)
    <3>1. f <= b
        BY <1>3, <2>3, <2>5, SizeIs DEF Places
    <3> QED BY <1>3, <2>5, <3>1, SeenBefore
  <2> QED BY <2>1, <2>4, <2>6, <1>6, <1>8
<1>13. Base(fr2, e) = Base(fr, e)
  <2>1. f \in Around(b)
      BY <1>3, FunIs
  <2> QED BY <2>1, <1>5, <1>7 DEF Base
<1> QED BY <1>4, <1>5, <1>7, <1>9, <1>10, <1>11, <1>12, <1>13 DEF FrameOK, IsFrame

\* A call fr of a closure r in the instance k: nothing of its own is bound yet.
Calling(sc, r, fr, t, k) ==
    /\ k \in DOMAIN t /\ t[k] = r.at /\ sc[k].out = r.home /\ DOMAIN sc[k].bound = {}
    /\ IsFrame(fr) /\ fr.scope = k /\ fr.pc = r.at + 1 /\ fr.captured = r.holds

LEMMA FrameCalls ==
    ASSUME Written, NEW sc, NEW n, NEW r, NEW fr, NEW t, NEW e, NEW h, NEW k,
           ScopesOK(sc, n, t, e), ClosureOK(sc, r, t, e, h), Calling(sc, r, fr, t, k)
    PROVE  FrameOK(sc, fr, Seen(fr.pc), t, e, h) /\ Base(fr, e) = k
<1> DEFINE i == r.at
           s == r.home
           j == i + 1
<1>0. /\ k \in DOMAIN t /\ t[k] = i /\ sc[k].out = s /\ DOMAIN sc[k].bound = {}
      /\ IsFrame(fr) /\ fr.scope = k /\ fr.pc = j /\ fr.captured = r.holds
    BY DEF Calling
<1> USE <1>0
<1>1. /\ i \in Text /\ Op(i) \in Functions /\ Op(i) \in Brackets /\ Op(i) \in Binders
      /\ s \in DOMAIN t /\ t[s] = Inner(i) /\ Bounds(sc, e, s, Seen(i) \cup {i})
      /\ \A d \in Captures(i) : r.holds[d] = h[<<e[s][ScopeOf(d)], d>>]
    BY DEF ClosureOK, Functions, Brackets, Binders
<1>2. i \in Places /\ i \in Nat /\ i # 0
    BY <1>1, SizeIs DEF Places, Text
<1>3. j \in Places /\ Around(j) = Around(i) \cup {i} /\ Inner(j) = i
    BY <1>1, AfterBracket
<1>4. FunOf(j) = i
    BY <1>1, <1>3, FunOfBody
<1>5. Seen(j) = Seen(i) \cup {i}
    BY <1>1, SeenAfterBracket
<1>6. e[k][i] = k /\ \A a \in Around(i) : e[k][a] = e[s][a]
    BY <1>2 DEF ScopesOK, Instance
<1>7. \A d \in Seen(j) : e[k][ScopeOf(d)] = e[s][ScopeOf(d)]
  <2>1. ScopeOf(i) \in Around(i)
      BY <1>1, ScopeIs DEF Functions
  <2>2. \A d \in Seen(i) : ScopeOf(d) \in Around(i)
      BY DEF Seen
  <2> QED BY <2>1, <2>2, <1>5, <1>6
<1>8. Bounds(sc, e, k, Seen(j))
    BY <1>1, <1>5, <1>7 DEF Bounds
<1>9. \A b \in Around(j) : b >= i => \A d \in DOMAIN sc[e[k][b]].bound : d < j
  <2> SUFFICES ASSUME NEW b \in Around(j), b >= i PROVE \A d \in DOMAIN sc[e[k][b]].bound : d < j
      OBVIOUS
  <2>1. b = i
      BY <1>2, <1>3, AroundIs
  <2> QED BY <2>1, <1>6
<1>10. \A d \in Seen(j) : FunOf(d) # i
  <2> SUFFICES ASSUME NEW d \in Seen(j), FunOf(d) = i PROVE FALSE
      OBVIOUS
  <2>1. i < d /\ d \in Nat
      BY <1>3, <1>4, BoundOutside
  <2>2. d < j
      BY DEF Seen
  <2> QED BY <2>1, <2>2, <1>2
<1>11. \A d \in Captures(i) : d \in Seen(j) /\ fr.captured[d] = h[<<e[k][ScopeOf(d)], d>>]
  <2> SUFFICES ASSUME NEW d \in Captures(i) PROVE d \in Seen(j) /\ fr.captured[d] = h[<<e[k][ScopeOf(d)], d>>]
      OBVIOUS
  <2>1. d \in Seen(i)
      BY <1>1, CapturesAre
  <2> QED BY <2>1, <1>1, <1>5, <1>7
<1> QED BY <1>3, <1>4, <1>6, <1>8, <1>9, <1>10, <1>11 DEF FrameOK, IsFrame, Base

--------------------------------------------------------------------------------
(* The steps.                                                                 *)
Coded ==
    \A i \in Text :
        /\ Op(i) \in Uses => code[i].means = Meaning(i) /\ code[i].place = Resolve(i)
        /\ Op(i) \in Binders => code[i].place = Own(i)
        /\ Op(i) = "for" => code[i].first = NextSlot(i)
        /\ Op(i) \in Functions => code[i].holds = Captures(i)
        /\ Op(i) \in Brackets => code[i].closes = Closes(i)
        /\ Op(i) = "end" => code[i].opened = Inner(i)
        /\ code[i].fun = FunOf(i)
Static == Written /\ AllClosed /\ UsesMean /\ ~FunInBlock /\ ~NamesItself /\ Coded /\ Data \cap Fun = {}

\* Looking a binding up from scope to scope finds the instance in the display.
LEMMA BindingInIs ==
    ASSUME Written, NEW n, NEW t, NEW e, ScopesOK(scopes, n, t, e), NEW s \in DOMAIN t, NEW d,
           ScopeOf(d) \in Reach(t[s]), d \in DOMAIN scopes[e[s][ScopeOf(d)]].bound
    PROVE  BindingIn(d, s) = e[s][ScopeOf(d)]
<1> DEFINE has(k) == d \in DOMAIN scopes[k].bound
           q == ScopeOf(d)
           sees(k) == k \in DOMAIN t /\ q \in Reach(t[k]) /\ has(e[k][q])
           Eq(g) == g = [k \in 0 .. s |-> IF k = 0 \/ d \in DOMAIN scopes[k].bound THEN k ELSE g[scopes[k].out]]
           f == [k \in 0 .. s |-> IF k = 0 \/ has(k) THEN k
                                  ELSE IF sees(k) THEN e[k][q]
                                  ELSE IF k \in DOMAIN t /\ has(1) THEN 1 ELSE 0]
<1>1. /\ Len(scopes) \in Nat /\ DOMAIN t \subseteq 2 .. Len(scopes) /\ s \in Nat /\ s >= 2
      /\ \A k \in 1 .. s : scopes[k].out \in 0 .. k - 1 /\ (k \notin DOMAIN t => scopes[k].out = 0)
  <2>1. Len(scopes) \in Nat
      BY ListIs DEF ScopesOK
  <2>2. DOMAIN t \subseteq 2 .. Len(scopes)
      BY DEF ScopesOK
  <2>3. s \in 2 .. Len(scopes)
      BY <2>2
  <2>4. \A k \in 1 .. s : k \in 1 .. Len(scopes)
      BY <2>1, <2>3
  <2> QED BY <2>1, <2>2, <2>3, <2>4 DEF ScopesOK
<1>2. ASSUME NEW k \in DOMAIN t, ~has(k)
      PROVE  /\ sees(k) => /\ scopes[k].out \in DOMAIN t /\ sees(scopes[k].out)
                           /\ e[scopes[k].out][q] = e[k][q]
             /\ ~sees(k) => \/ scopes[k].out = 1
                            \/ scopes[k].out \in DOMAIN t /\ ~sees(scopes[k].out) /\ ~has(scopes[k].out)
  <2>1. Instance(scopes, n, t, e, k)
      BY DEF ScopesOK
  <2>2. CASE t[k] = 0
    <3>1. scopes[k].out = 1
        BY <2>1, <2>2 DEF Instance, Root
    <3>2. ~sees(k)
      <4>1. sees(k) => q = 0
          BY <2>2 DEF Reach
      <4>2. e[k][0] = k
          BY <2>1, <2>2 DEF Instance
      <4> QED BY <4>1, <4>2, <1>2
    <3> QED BY <3>1, <3>2
  <2>3. CASE t[k] # 0
    <3> DEFINE o == scopes[k].out
    <3>1. /\ o \in DOMAIN t /\ t[o] = Inner(t[k]) /\ e[k][t[k]] = k
          /\ \A b \in Around(t[k]) : e[k][b] = e[o][b]
        BY <2>1, <2>3 DEF Instance
    <3>2. t[k] \in Places /\ Reach(t[k]) = Around(t[k]) \cup {t[k]} /\ Around(t[k]) = Reach(t[o])
      <4>1. t[k] \in Text /\ Op(t[k]) \in Brackets
          BY <2>1, <2>3 DEF Instance
      <4> QED BY <4>1, <3>1, ReachOfBracket, AroundReaches
    <3>3. sees(k) => q \in Around(t[k])
        BY <3>1, <3>2, <1>2
    <3>4. sees(k) <=> sees(o)
        BY <3>1, <3>2, <3>3
    <3>5. has(o) => sees(o)
      <4>1. Instance(scopes, n, t, e, o)
          BY <3>1 DEF ScopesOK
      <4>2. has(o) => q = t[o] /\ e[o][t[o]] = o
          BY <4>1 DEF Instance
      <4>3. t[o] \in Reach(t[o])
          BY DEF Reach
      <4> QED BY <3>1, <4>2, <4>3
    <3> QED BY <3>1, <3>3, <3>4, <3>5
  <2> QED BY <2>2, <2>3
<1>3. \A k \in 0 .. s : k # 0 /\ ~has(k) => scopes[k].out \in 0 .. s
    BY <1>1
<1>4. Eq(f)
  <2>1. ASSUME NEW k \in 0 .. s
        PROVE  f[k] = IF k = 0 \/ has(k) THEN k ELSE f[scopes[k].out]
    <3>1. CASE k = 0 \/ has(k)
        BY <3>1
    <3>2. CASE k # 0 /\ ~has(k)
      <4> DEFINE o == scopes[k].out
      <4>1. o \in 0 .. s /\ 1 \in 0 .. s /\ 0 \in 0 .. s /\ k \in 1 .. s
          BY <3>2, <1>1, <1>3
      <4>2. CASE k \notin DOMAIN t
        <5>1. o = 0
            BY <4>1, <4>2, <1>1
        <5> QED BY <3>2, <4>1, <4>2, <5>1
      <4>3. CASE k \in DOMAIN t /\ sees(k)
        <5>1. o \in DOMAIN t /\ sees(o) /\ e[o][q] = e[k][q] /\ o # 0
            BY <3>2, <4>3, <1>1, <1>2
        <5>2. has(o) => e[o][q] = o
          <6>1. Instance(scopes, n, t, e, o)
              BY <5>1 DEF ScopesOK
          <6> QED BY <6>1 DEF Instance
        <5>3. f[o] = e[k][q]
            BY <4>1, <5>1, <5>2
        <5> QED BY <3>2, <4>3, <5>3
      <4>4. CASE k \in DOMAIN t /\ ~sees(k)
        <5>1. f[k] = IF has(1) THEN 1 ELSE 0
            BY <3>2, <4>4
        <5>2. o = 1 \/ (o \in DOMAIN t /\ ~sees(o) /\ ~has(o))
            BY <3>2, <4>4, <1>2
        <5>3. 1 \notin DOMAIN t /\ 0 \notin DOMAIN t
            BY <1>1
        <5>4. f[o] = IF has(1) THEN 1 ELSE 0
          <6>1. CASE o = 1
              BY <6>1, <4>1, <5>3
          <6>2. CASE o \in DOMAIN t /\ ~sees(o) /\ ~has(o)
              BY <6>2, <4>1, <5>3
          <6> QED BY <5>2, <6>1, <6>2
        <5> QED BY <3>2, <5>1, <5>4
      <4> QED BY <4>2, <4>3, <4>4
    <3> QED BY <3>1, <3>2
  <2>2. f = [k \in 0 .. s |-> f[k]]
      OBVIOUS
  <2> HIDE DEF f
  <2> QED BY <2>1, <2>2
<1> DEFINE at == CHOOSE g : Eq(g)
<1>5. Eq(at)
  <2> HIDE DEF Eq, f
  <2> QED BY <1>4
<1>6. BindingIn(d, s) = at[s]
    BY DEF BindingIn
<1>7. \A k \in 0 .. s : at[k] = IF k = 0 \/ has(k) THEN k ELSE at[scopes[k].out]
  <2> HIDE DEF at
  <2> QED BY <1>5
<1> HIDE DEF at, Eq, f
<1>8. ASSUME NEW k \in 0 .. s, sees(k) PROVE at[k] = e[k][q]
  <2> DEFINE Bad == {x \in 0 .. s : sees(x) /\ at[x] # e[x][q]}
             m == Min(Bad)
  <2> SUFFICES ASSUME Bad # {} PROVE FALSE
      BY <1>8
  <2>1. m \in Bad /\ \A x \in Bad : m <= x
    <3>1. Bad \subseteq Nat
        BY <1>1
    <3> HIDE DEF Bad
    <3> QED BY <3>1, SmallestOf
  <2> HIDE DEF m
  <2>2. m \in DOMAIN t /\ m \in 1 .. s /\ m \in 0 .. s
      BY <2>1, <1>1
  <2>3. CASE has(m)
    <3>1. at[m] = m
        BY <2>2, <2>3, <1>7
    <3>2. e[m][q] = m
      <4>1. Instance(scopes, n, t, e, m)
          BY <2>2 DEF ScopesOK
      <4> QED BY <4>1, <2>3 DEF Instance
    <3> QED BY <2>1, <3>1, <3>2
  <2>4. CASE ~has(m)
    <3> DEFINE o == scopes[m].out
    <3>1. o \in 0 .. m - 1 /\ o \in 0 .. s /\ o < m
        BY <2>2, <1>1
    <3>2. sees(o) /\ e[o][q] = e[m][q]
        BY <2>1, <2>2, <2>4, <1>2
    <3>3. at[m] = at[o]
        BY <2>2, <2>4, <1>7
    <3>4. o \in Bad
        BY <2>1, <3>1, <3>2, <3>3
    <3> QED BY <2>1, <2>2, <3>1, <3>4
  <2> QED BY <2>3, <2>4
<1>9. s \in 0 .. s
    BY <1>1
<1> QED BY <1>6, <1>8, <1>9

\* On the VM the newest call reads of each use the value of the binding meant.
LEMMA UseIs ==
    ASSUME Static, NEW n, NEW t, NEW e, NEW h, World(scopes, n, closures, cells, t, e, h),
           FramesOK(scopes, frames, t, e, h), frames # << >>, Top.pc \in Text, Op(Top.pc) \in Uses
    PROVE  LET i == Top.pc
               s == Top.scope
               d == Meaning(i)
               k == e[s][ScopeOf(d)]
           IN /\ Means(d) = VmReads(code[i].place) /\ code[i].means = d
              /\ d # 0 => /\ d \in Seen(i) /\ Name(d) = Name(i) /\ d \in Binding
                          /\ k \in DOMAIN t /\ d \in DOMAIN scopes[k].bound
                          /\ BindingIn(d, s) = k /\ Means(d) = scopes[k].bound[d]
                          /\ FunOf(d) = FunOf(i) => code[i].place = Own(d)
                          /\ FunOf(d) # FunOf(i) => /\ Boxed(d) /\ code[i].place = Place("captured", d)
                                                    /\ Top.captured[d] = h[<<k, d>>]
                          /\ FunOf(d) = FunOf(i) /\ Boxed(d) => d \in DOMAIN Top.cells /\ Top.cells[d] = h[<<k, d>>]
                          /\ FunOf(d) = FunOf(i) /\ ~Boxed(d) => Own(d).at \in DOMAIN Top.slots
                          /\ Boxed(d) => h[<<k, d>>] \in 1 .. Len(cells)
<1> DEFINE i == Top.pc
           s == Top.scope
           d == Meaning(i)
           k == e[s][ScopeOf(d)]
<1>1. Written /\ UsesMean /\ ~FunInBlock /\ ~NamesItself /\ code[i].means = d /\ code[i].place = Resolve(i)
    BY DEF Static, Coded
<1>2. ScopesOK(scopes, n, t, e) /\ CellsOK(scopes, cells, t, h)
    BY DEF World
<1>3. FrameOK(scopes, Top, Seen(i), t, e, h)
  <2>1. Len(frames) \in 1 .. Len(frames)
    <3>1. List(frames)
        BY DEF FramesOK
    <3>2. Len(frames) \in Nat /\ Len(frames) # 0
        BY <3>1, EmptySeq DEF List
    <3> QED BY <3>2
  <2> QED BY <2>1 DEF FramesOK, Top
<1>4. i \in Places /\ s \in DOMAIN t /\ t[s] = Inner(i) /\ Bounds(scopes, e, s, Seen(i))
    BY <1>3 DEF FrameOK
<1>5. /\ d = 0 => Resolve(i) = Place("global", 0)
      /\ d # 0 => d \in Seen(i) /\ Name(d) = Name(i)
      /\ d # 0 /\ FunOf(d) = FunOf(i) => Resolve(i) = Own(d)
      /\ d # 0 /\ FunOf(d) # FunOf(i) => Boxed(d) /\ Resolve(i) = Place("captured", d)
    BY <1>1, ResolveIs
<1>6. CASE d = 0
  <2>1. VmReads(Place("global", 0)) = 0
      BY DEF VmReads, Place
  <2>2. Means(d) = 0
      BY <1>6 DEF Means
  <2> QED BY <2>1, <2>2, <1>1, <1>5, <1>6
<1>7. CASE d # 0
  <2>1. d \in Seen(i) /\ Name(d) = Name(i) /\ d \in Binding
      BY <1>5, <1>7 DEF Seen
  <2>2. k \in DOMAIN t /\ ScopeOf(d) \in Reach(t[s])
      BY <2>1, <1>1, <1>2, <1>4, SeenAt
  <2>3. d \in DOMAIN scopes[k].bound
      BY <2>1, <1>4 DEF Bounds, Has
  <2>4. BindingIn(d, s) = k
      BY <2>2, <2>3, <1>1, <1>2, <1>4, BindingInIs
  <2>5. Means(d) = scopes[k].bound[d]
      BY <2>4, <1>7 DEF Means
  <2>6. Boxed(d) => h[<<k, d>>] \in 1 .. Len(cells) /\ cells[h[<<k, d>>]] = scopes[k].bound[d]
    <3>1. PICK x : x = k
        OBVIOUS
    <3> QED BY <3>1, <2>2, <2>3, <1>2 DEF CellsOK
  <2>7. CASE FunOf(d) = FunOf(i)
    <3>1. /\ Boxed(d) => d \in DOMAIN Top.cells /\ Top.cells[d] = h[<<k, d>>]
          /\ ~Boxed(d) => Own(d).at \in DOMAIN Top.slots /\ Top.slots[Own(d).at] = scopes[k].bound[d]
        BY <2>1, <2>7, <1>3 DEF FrameOK
    <3>2. code[i].place = Own(d)
        BY <1>1, <1>5, <1>7, <2>7
    <3>3. Boxed(d) => VmReads(Own(d)) = cells[Top.cells[d]]
      <4>1. Boxed(d) => Own(d) = Place("cell", d)
          BY <2>1, <1>1, OwnIs
      <4>2. VmReads(Place("cell", d)) = cells[Top.cells[d]]
          BY DEF VmReads, Place
      <4> QED BY <4>1, <4>2
    <3>4. ~Boxed(d) => VmReads(Own(d)) = Top.slots[Own(d).at]
      <4>1. ~Boxed(d) => Own(d).kind = "slot"
          BY <2>1, <1>1, OwnIs
      <4> QED BY <4>1 DEF VmReads
    <3>5. VmReads(Own(d)) = scopes[k].bound[d]
        BY <3>1, <3>3, <3>4, <2>6
    <3> QED BY <1>1, <2>1, <2>2, <2>3, <2>4, <2>5, <2>6, <2>7, <3>1, <3>2, <3>5
  <2>8. CASE FunOf(d) # FunOf(i)
    <3>1. Boxed(d) /\ Resolve(i) = Place("captured", d)
        BY <1>5, <1>7, <2>8
    <3>2. d \in Captures(FunOf(i))
        BY <1>1, <3>1, UseCaptures
    <3>3. Top.captured[d] = h[<<k, d>>]
        BY <3>2, <1>3 DEF FrameOK
    <3>4. VmReads(Place("captured", d)) = cells[Top.captured[d]]
        BY DEF VmReads, Place
    <3>5. VmReads(code[i].place) = scopes[k].bound[d]
        BY <1>1, <3>1, <3>3, <3>4, <2>6
    <3> QED BY <1>1, <2>1, <2>2, <2>3, <2>4, <2>5, <2>6, <2>8, <3>1, <3>3, <3>5
  <2> QED BY <2>7, <2>8
<1> QED BY <1>6, <1>7

\* Nothing that is said of the text changes while the text does not.
LEMMA TextStays ==
    ASSUME prog' = prog
    PROVE  /\ Text' = Text
           /\ \A i : Op(i)' = Op(i)
           /\ \A i : Around(i)' = Around(i)
           /\ \A i : FunOf(i)' = FunOf(i)
           /\ \A i : ScopeOf(i)' = ScopeOf(i)
           /\ \A i : Boxed(i)' = Boxed(i)
           /\ \A i : Own(i)' = Own(i)
           /\ \A i : Captures(i)' = Captures(i)
           /\ \A i : Inner(i)' = Inner(i)
           /\ \A i : Reach(i)' = Reach(i)
           /\ Places' = Places
           /\ Binding' = Binding
           /\ \A i : Seen(i)' = Seen(i)
           /\ \A i : Closes(i)' = Closes(i)
           /\ \A i : Depth(i)' = Depth(i)
           /\ \A i : Name(i)' = Name(i)
           /\ \A i : Meaning(i)' = Meaning(i)
           /\ \A i : Unseen(i)' = Unseen(i)
           /\ \A i : Resolve(i)' = Resolve(i)
           /\ \A i : NextSlot(i)' = NextSlot(i)
<1>1. Text' = Text
    BY DEF Text
<1>2. \A i : Op(i)' = Op(i)
    BY DEF Op
<1>3. \A i : Name(i)' = Name(i)
    BY DEF Name
<1>4. \A i : Depth(i)' = Depth(i)
    BY <1>2 DEF Depth
<1>5. \A i : Closes(i)' = Closes(i)
    BY <1>2, <1>4 DEF Closes
<1>6. \A i : Around(i)' = Around(i)
    BY <1>2, <1>5 DEF Around
<1>7. \A i : Home(i)' = Home(i)
    BY <1>2, <1>6 DEF Home
<1>8. \A i : FunOf(i)' = FunOf(i)
    BY <1>7 DEF FunOf
<1>9. \A i : ScopeOf(i)' = ScopeOf(i)
    BY <1>1, <1>2, <1>6 DEF ScopeOf
<1>10. \A i, k : Binds(i, k)' = Binds(i, k)
    BY <1>1, <1>2, <1>3 DEF Binds
<1>11. \A i : InExpression(i)' = InExpression(i)
    BY <1>6, <1>8, <1>2 DEF InExpression
<1>12. \A i : Unseen(i)' = Unseen(i)
    BY <1>2, <1>11 DEF Unseen
<1>13. \A i : Mentions(i)' = Mentions(i)
    BY <1>2, <1>11 DEF Mentions
<1>14. \A i : NamesUsedByNested(i)' = NamesUsedByNested(i)
    BY <1>1, <1>3, <1>13, <1>7, <1>8, <1>12 DEF NamesUsedByNested
<1>15. \A i : Boxed(i)' = Boxed(i)
    BY <1>3, <1>14, <1>8 DEF Boxed
<1>16. \A i : Locals(i)' = Locals(i)
    BY <1>2, <1>8, <1>15 DEF Locals
<1>17. \A i : Released(i)' = Released(i)
    BY <1>16, <1>9, <1>6 DEF Released
<1>18. \A i : LoopsBefore(i)' = LoopsBefore(i)
    BY <1>2, <1>8 DEF LoopsBefore
<1>19. \A i : LoopSlots(i)' = LoopSlots(i)
    BY <1>18, <1>15 DEF LoopSlots
<1>20. \A i : NextSlot(i)' = NextSlot(i)
    BY <1>16, <1>17, <1>19 DEF NextSlot
<1>21. \A i, k : Declared(i, k)' = Declared(i, k)
    BY <1>2, <1>10, <1>9, <1>6 DEF Declared
<1>22. \A i : Own(i)' = Own(i)
    BY <1>15, <1>20, <1>2 DEF Own
<1>23. \A i : Resolve(i)' = Resolve(i)
    BY <1>3, <1>21, <1>8, <1>22, <1>15 DEF Resolve
<1>24. \A i : Captures(i)' = Captures(i)
    BY <1>1, <1>2, <1>7, <1>23 DEF Captures
<1>25. \A i, k : InScope(i, k)' = InScope(i, k)
    BY <1>2, <1>10, <1>9, <1>6 DEF InScope
<1>26. \A i : Meaning(i)' = Meaning(i)
    BY <1>25, <1>3 DEF Meaning
<1>27. \A i : Inner(i)' = Inner(i)
    BY <1>6 DEF Inner
<1>28. \A i : Reach(i)' = Reach(i)
    BY <1>6 DEF Reach
<1>29. Places' = Places
    BY DEF Places
<1>30. Binding' = Binding
    BY <1>1, <1>2 DEF Binding
<1>31. \A i : Seen(i)' = Seen(i)
    BY <1>30, <1>9, <1>6 DEF Seen
<1> QED BY <1>1, <1>2, <1>6, <1>8, <1>9, <1>15, <1>22, <1>24, <1>27, <1>28, <1>29, <1>30, <1>31, <1>5, <1>4, <1>3, <1>26, <1>12, <1>23, <1>20

\* What is said of a run reads the text only, and stays said when the text
\* stays.
LEMMA RunStays ==
    ASSUME prog' = prog
    PROVE  /\ \A sc, n, cl, ce, t, e, h : World(sc, n, cl, ce, t, e, h)' = World(sc, n, cl, ce, t, e, h)
           /\ \A sc, frs, t, e, h : FramesOK(sc, frs, t, e, h)' = FramesOK(sc, frs, t, e, h)
<1>1. \A sc, n, t, e, k : Instance(sc, n, t, e, k)' = Instance(sc, n, t, e, k)
    BY TextStays DEF Instance
<1>2. \A sc, n, t, e : ScopesOK(sc, n, t, e)' = ScopesOK(sc, n, t, e)
    BY <1>1 DEF ScopesOK
<1>3. \A sc, ce, t, h : CellsOK(sc, ce, t, h)' = CellsOK(sc, ce, t, h)
  <2>1. \A d : Boxed(d)' = Boxed(d)
      BY TextStays
  <2> SUFFICES ASSUME NEW sc, NEW ce, NEW t, NEW h
               PROVE  CellsOK(sc, ce, t, h)' = CellsOK(sc, ce, t, h)
      OBVIOUS
  <2> DEFINE Apart(k, d) == \A j \in DOMAIN t : \A c \in DOMAIN sc[j].bound :
                                Boxed(c) /\ h[<<j, c>>] = h[<<k, d>>] => j = k /\ c = d
             InOne(k, d) == /\ <<k, d>> \in DOMAIN h /\ h[<<k, d>>] \in 1 .. Len(ce)
                            /\ ce[h[<<k, d>>]] = sc[k].bound[d]
  <2>2. \A k, d : Apart(k, d)' = Apart(k, d) /\ InOne(k, d)' = InOne(k, d)
      BY <2>1
  <2>3. CellsOK(sc, ce, t, h) =
            (List(ce) /\ \A k \in DOMAIN t : \A d \in DOMAIN sc[k].bound : Boxed(d) => InOne(k, d) /\ Apart(k, d))
      BY DEF CellsOK
  <2>4. CellsOK(sc, ce, t, h)' =
            (List(ce) /\ \A k \in DOMAIN t : \A d \in DOMAIN sc[k].bound : Boxed(d)' => InOne(k, d)' /\ Apart(k, d)')
      BY DEF CellsOK
  <2> HIDE DEF Apart, InOne
  <2> QED BY <2>1, <2>2, <2>3, <2>4
<1>4. \A sc, e, s, D : Bounds(sc, e, s, D)' = Bounds(sc, e, s, D)
    BY TextStays DEF Bounds, Has
<1>5. \A sc, r, t, e, h : ClosureOK(sc, r, t, e, h)' = ClosureOK(sc, r, t, e, h)
  <2> SUFFICES ASSUME NEW sc, NEW r, NEW t, NEW e, NEW h
               PROVE  ClosureOK(sc, r, t, e, h)' = ClosureOK(sc, r, t, e, h)
      OBVIOUS
  <2>1. Bounds(sc, e, r.home, Seen(r.at) \cup {r.at})' = Bounds(sc, e, r.home, Seen(r.at) \cup {r.at})
      BY TextStays, <1>4
  <2> QED BY <2>1, TextStays DEF ClosureOK
<1>6. \A sc, cl, t, e, h : ClosuresOK(sc, cl, t, e, h)' = ClosuresOK(sc, cl, t, e, h)
    BY <1>5 DEF ClosuresOK
<1>7. \A sc, fr, D, t, e, h : FrameOK(sc, fr, D, t, e, h)' = FrameOK(sc, fr, D, t, e, h)
    BY <1>4, TextStays DEF FrameOK
<1>8. \A fr, e : Base(fr, e)' = Base(fr, e)
    BY TextStays DEF Base
<1>9. \A sc, frs, t, e, h : FramesOK(sc, frs, t, e, h)' = FramesOK(sc, frs, t, e, h)
  <2> SUFFICES ASSUME NEW sc, NEW frs, NEW t, NEW e, NEW h
               PROVE  FramesOK(sc, frs, t, e, h)' = FramesOK(sc, frs, t, e, h)
      OBVIOUS
  <2>1. \A f : FrameOK(sc, frs[f], Seen(frs[f].pc), t, e, h)' = FrameOK(sc, frs[f], Seen(frs[f].pc), t, e, h)
      BY <1>7, TextStays
  <2> QED BY <2>1, <1>8 DEF FramesOK
<1>10. \A sc, n, cl, ce, t, e, h : World(sc, n, cl, ce, t, e, h)' = World(sc, n, cl, ce, t, e, h)
    BY <1>2, <1>3, <1>6 DEF World
<1> QED BY <1>9, <1>10

LEMMA StaticStays ==
    ASSUME prog' = prog, code' = code, Static
    PROVE  Static'
<1>1. Written' /\ AllClosed' /\ UsesMean'
  <2>1. Written'
      BY DEF Static, Written
  <2>2. AllClosed'
    <3>1. EndsClose' = EndsClose
        BY TextStays DEF EndsClose
    <3>2. (Depth(Len(prog) + 1) = 0)' = (Depth(Len(prog) + 1) = 0)
        BY TextStays
    <3> QED BY <3>1, <3>2 DEF Static, AllClosed
  <2>3. UsesMean'
      BY TextStays DEF Static, UsesMean
  <2> QED BY <2>1, <2>2, <2>3
<1>2. ~FunInBlock'
    BY TextStays DEF Static, FunInBlock
<1>3. ~NamesItself'
    BY TextStays DEF Static, NamesItself
<1>4. Coded'
    BY TextStays DEF Static, Coded
<1> QED BY <1>1, <1>2, <1>3, <1>4 DEF Static

\* A token more changes nothing that is said of the tokens before it.
LEMMA TextGrows ==
    ASSUME Written, NEW x \in Token, NEW l \in Nat, l = Len(prog), prog' = Append(prog, x)
    PROVE  /\ Written' /\ Text' = Text \cup {l + 1}
           /\ Op(l + 1)' = x.op /\ Name(l + 1)' = x.name
           /\ \A i \in Text : Op(i)' = Op(i) /\ Name(i)' = Name(i)
           /\ \A i \in Places : Depth(i)' = Depth(i) /\ Around(i)' = Around(i)
           /\ \A i \in Places : \A n : InScope(i, n)' = InScope(i, n)
<1>1. /\ prog' \in Seq(Token) /\ Len(prog') = l + 1 /\ prog'[l + 1] = x
      /\ \A i \in 1 .. l : prog'[i] = prog[i]
    BY AppendProperties DEF Written
<1>2. l \in Nat /\ Text \subseteq Places
    BY SizeIs
<1>3. Written' /\ Text' = Text \cup {l + 1}
    BY <1>1, <1>2 DEF Written, Text
<1>4. Op(l + 1)' = x.op /\ Name(l + 1)' = x.name
  <2>1. Op(l + 1)' = prog'[l + 1].op /\ Name(l + 1)' = prog'[l + 1].name
      BY DEF Op, Name
  <2> QED BY <1>1, <2>1
<1>5. \A i \in Text : Op(i)' = Op(i) /\ Name(i)' = Name(i)
    BY <1>1 DEF Op, Name, Text
<1>6. \A i \in Places : Depth(i)' = Depth(i)
  <2> SUFFICES ASSUME NEW i \in Places PROVE Depth(i)' = Depth(i)
      OBVIOUS
  <2>1. \A j \in 1 .. i - 1 : j \in Text
      BY <1>2 DEF Places, Text
  <2>2. /\ {j \in 1 .. i - 1 : Op(j)' \in Brackets} = {j \in 1 .. i - 1 : Op(j) \in Brackets}
        /\ {j \in 1 .. i - 1 : Op(j)' = "end"} = {j \in 1 .. i - 1 : Op(j) = "end"}
      BY <2>1, <1>5
  <2> QED BY <2>2 DEF Depth
<1>7. ASSUME NEW j \in Text, NEW i \in Places PROVE Closes(j)' >= i <=> Closes(j) >= i
  <2> DEFINE C == {k \in j + 1 .. l : Op(k) = "end" /\ Depth(k + 1) = Depth(j)}
             S == C \cup {l + 1}
             D == {k \in j + 1 .. l + 1 : Op(k)' = "end" /\ Depth(k + 1)' = Depth(j)'}
             T == D \cup {l + 2}
  <2>1. Closes(j) = Min(S)
      BY DEF Closes
  <2>2. Closes(j)' = Min(T)
    <3>1. Closes(j)' = Min({k \in j + 1 .. Len(prog') : Op(k)' = "end" /\ Depth(k + 1)' = Depth(j)'} \cup {Len(prog') + 1})
        BY DEF Closes
    <3>2. Len(prog') + 1 = l + 2
        BY <1>1, <1>2
    <3> QED BY <1>1, <3>1, <3>2
  <2>3. \A k \in j + 1 .. l : k \in T <=> k \in C
    <3> SUFFICES ASSUME NEW k \in j + 1 .. l PROVE k \in T <=> k \in C
        OBVIOUS
    <3>1. k \in Text /\ k + 1 \in Places /\ j \in Places /\ k \in j + 1 .. l + 1 /\ k # l + 2
        BY <1>2 DEF Text, Places
    <3>2. Op(k)' = Op(k) /\ Depth(j)' = Depth(j)
        BY <3>1, <1>5, <1>6
    <3>3. Depth(k + 1)' = Depth(k + 1)
      <4>1. PICK m : m = k + 1
          OBVIOUS
      <4> QED BY <3>1, <4>1, <1>6
    <3> QED BY <3>1, <3>2, <3>3
  <2>4. S \subseteq Nat /\ T \subseteq Nat /\ l + 1 \in S /\ l + 2 \in T /\ T \subseteq j + 1 .. l + 2 /\ S \subseteq j + 1 .. l + 1
        /\ C \subseteq S
      BY <1>2 DEF Text
  <2> HIDE DEF C, D, S, T
  <2>5. /\ Min(S) \in S /\ \A k \in S : Min(S) <= k
        /\ Min(T) \in T /\ \A k \in T : Min(T) <= k
      BY <2>4, SmallestOf
  <2>6. i \in Nat /\ i <= l + 1 /\ j \in Nat /\ Min(S) \in Nat /\ Min(T) \in Nat
        /\ Min(S) <= l + 1 /\ Min(T) <= l + 2 /\ Min(S) >= j + 1 /\ Min(T) >= j + 1
    <3>1. i \in Nat /\ i <= l + 1 /\ j \in Nat
        BY <1>2 DEF Places, Text
    <3>2. Min(S) \in j + 1 .. l + 1 /\ Min(T) \in j + 1 .. l + 2
        BY <2>4, <2>5
    <3> QED BY <3>1, <3>2
  <2>7. ASSUME Min(S) >= i PROVE Min(T) >= i
    <3>1. CASE Min(T) \in j + 1 .. l
      <4>1. Min(T) \in S
          BY <3>1, <2>3, <2>4, <2>5
      <4>2. Min(S) <= Min(T)
          BY <4>1, <2>5
      <4> QED BY <4>2, <2>4, <2>5, <2>6, <2>7
    <3>2. CASE Min(T) \notin j + 1 .. l
        BY <3>2, <2>4, <2>5, <2>6, <1>2
    <3> QED BY <3>1, <3>2
  <2>8. ASSUME Min(T) >= i PROVE Min(S) >= i
    <3>1. CASE Min(S) \in C
      <4>1. Min(S) \in T /\ Min(S) \in Nat
        <5>1. C \subseteq j + 1 .. l
            BY DEF C
        <5> QED BY <3>1, <5>1, <2>3, <2>4, <2>5
      <4>2. Min(T) <= Min(S)
          BY <4>1, <2>5
      <4> QED BY <4>1, <4>2, <2>4, <2>5, <2>6, <2>8
    <3>2. CASE Min(S) \notin C
      <4>1. Min(S) = l + 1
          BY <3>2, <2>5 DEF S
      <4> QED BY <4>1, <2>6, <1>2
    <3> QED BY <3>1, <3>2
  <2> QED BY <2>1, <2>2, <2>7, <2>8
<1>8. \A i \in Places : Around(i)' = Around(i)
  <2> SUFFICES ASSUME NEW i \in Places PROVE Around(i)' = Around(i)
      OBVIOUS
  <2>1. \A j \in 1 .. i - 1 : j \in Text
      BY <1>2 DEF Places, Text
  <2>2. \A j \in 1 .. i - 1 : (Op(j)' \in Brackets /\ Closes(j)' >= i) <=> (Op(j) \in Brackets /\ Closes(j) >= i)
      BY <2>1, <1>5, <1>7
  <2> QED BY <2>2 DEF Around
<1>9. \A j \in Text : ScopeOf(j)' = ScopeOf(j)
    BY <1>2, <1>3, <1>5, <1>8 DEF ScopeOf
<1>10. \A i \in Places : \A n : InScope(i, n)' = InScope(i, n)
  <2> SUFFICES ASSUME NEW i \in Places, NEW n PROVE InScope(i, n)' = InScope(i, n)
      OBVIOUS
  <2>1. \A j \in 1 .. i - 1 : j \in Text
      BY <1>2 DEF Places, Text
  <2>2. \A j \in 1 .. i - 1 : Binds(j, n)' = Binds(j, n)
      BY <2>1, <1>3, <1>5 DEF Binds
  <2>3. \A j \in 1 .. i - 1 : Op(j)' = Op(j) /\ ScopeOf(j)' = ScopeOf(j) /\ Around(i)' = Around(i)
      BY <2>1, <1>5, <1>8, <1>9
  <2> QED BY <2>2, <2>3 DEF InScope
<1> QED BY <1>1, <1>3, <1>4, <1>5, <1>6, <1>8, <1>10

\* A token the checker allows keeps a text where every end closes and every use
\* has a meaning.
LEMMA TextGrowsRight ==
    ASSUME Written, EndsClose, UsesMean, NEW x \in Token, NEW l \in Nat, l = Len(prog),
           prog' = Append(prog, x), Allowed(x)
    PROVE  Written' /\ EndsClose' /\ UsesMean'
<1> PICK m : m = Newest(InScope(l + 1, x.name))
    OBVIOUS
<1>1. l \in Nat /\ l + 1 \in Places /\ Text \subseteq Places
    BY SizeIs DEF Places
<1>2. /\ Written' /\ Text' = Text \cup {l + 1}
      /\ Op(l + 1)' = x.op /\ Name(l + 1)' = x.name
      /\ \A i \in Text : Op(i)' = Op(i) /\ Name(i)' = Name(i)
      /\ \A i \in Places : Depth(i)' = Depth(i)
      /\ \A i \in Places : \A n : InScope(i, n)' = InScope(i, n)
    BY TextGrows
<1>3. EndsClose'
  <2>1. \A i \in Text : Op(i)' = "end" => Depth(i)' > 0
      BY <1>1, <1>2 DEF EndsClose
  <2>2. x.op = "end" => Depth(l + 1) > 0
      BY DEF Allowed
  <2>3. Op(l + 1)' = "end" => Depth(l + 1)' > 0
    <3>1. Depth(l + 1)' = Depth(l + 1)
        BY <1>1, <1>2
    <3> QED BY <1>2, <2>2, <3>1
  <2>4. \A i \in Text' : Op(i)' = "end" => Depth(i)' > 0
    <3> TAKE i \in Text'
    <3>1. CASE i \in Text
        BY <2>1, <3>1
    <3>2. CASE i = l + 1
        BY <2>3, <3>2
    <3> QED BY <1>2, <3>1, <3>2
  <2> QED BY <2>4 DEF EndsClose
<1>4. \A i \in Places : \A n : InScope(i, n) \subseteq Text /\ InScope(i, n) \subseteq 1 .. l
    BY <1>1 DEF InScope, Places, Text
<1>5. \A i \in Text : Meaning(i)' = Meaning(i) /\ (Meaning(i) # 0 => Op(Meaning(i))' = Op(Meaning(i)))
  <2> SUFFICES ASSUME NEW i \in Text
               PROVE  Meaning(i)' = Meaning(i) /\ (Meaning(i) # 0 => Op(Meaning(i))' = Op(Meaning(i)))
      OBVIOUS
  <2>1. InScope(i, Name(i))' = InScope(i, Name(i))
    <3>1. PICK n : n = Name(i)
        OBVIOUS
    <3>2. InScope(i, n)' = InScope(i, n)
        BY <1>1, <1>2
    <3>3. Name(i)' = n
        BY <1>2, <3>1
    <3> QED BY <3>1, <3>2, <3>3 DEF InScope
  <2>2. Meaning(i)' = Meaning(i)
      BY <2>1 DEF Meaning, Newest
  <2>3. Meaning(i) # 0 => Meaning(i) \in Text
      BY <1>1, <1>4, NewestIs DEF Meaning
  <2>4. Meaning(i) # 0 => Op(Meaning(i))' = Op(Meaning(i))
    <3>1. PICK d : d = Meaning(i)
        OBVIOUS
    <3> QED BY <2>2, <2>3, <3>1, <1>2
  <2> QED BY <2>2, <2>4
<1>6. ASSUME NEW i \in Text
      PROVE  /\ Op(i)' \in {"set", "call"} => Meaning(i)' # 0
             /\ Op(i)' = "set" => Op(Meaning(i))' = "var"
             /\ Op(i)' = "read" => Meaning(i)' # 0 \/ Name(i)' \in Global
    BY <1>2, <1>5 DEF UsesMean
<1>7. Meaning(l + 1)' = m
  <2>1. Name(l + 1)' = x.name
      BY <1>2
  <2>2. InScope(l + 1, Name(l + 1))' = InScope(l + 1, x.name)
    <3>1. PICK n : n = x.name
        OBVIOUS
    <3>2. InScope(l + 1, n)' = InScope(l + 1, n)
        BY <1>1, <1>2
    <3> QED BY <2>1, <3>1, <3>2 DEF InScope
  <2> QED BY <2>2 DEF Meaning, Newest
<1>8. m # 0 => Op(m)' = Op(m)
  <2>1. m # 0 => m \in Text
      BY <1>1, <1>4, NewestIs
  <2> QED BY <2>1, <1>2
<1>9. /\ Op(l + 1)' \in {"set", "call"} => Meaning(l + 1)' # 0
      /\ Op(l + 1)' = "set" => Op(Meaning(l + 1))' = "var"
      /\ Op(l + 1)' = "read" => Meaning(l + 1)' # 0 \/ Name(l + 1)' \in Global
  <2>1. /\ x.op \in {"set", "call"} => m # 0
        /\ x.op = "set" => Op(m) = "var"
        /\ x.op = "read" => m # 0 \/ x.name \in Global
      BY DEF Allowed
  <2>2. x.op = "set" => Op(Meaning(l + 1))' = "var"
    <3>1. x.op = "set" => Op(m)' = "var"
        BY <2>1, <1>8
    <3> QED BY <3>1, <1>7 DEF Op
  <2> QED BY <2>1, <2>2, <1>2, <1>7
<1>10. UsesMean'
  <2>1. \A i \in Text' :
          /\ Op(i)' \in {"set", "call"} => Meaning(i)' # 0
          /\ Op(i)' = "set" => Op(Meaning(i))' = "var"
          /\ Op(i)' = "read" => Meaning(i)' # 0 \/ Name(i)' \in Global
    <3> TAKE i \in Text'
    <3>1. CASE i \in Text
        BY <1>6, <3>1
    <3>2. CASE i = l + 1
        BY <1>9, <3>2
    <3> QED BY <1>2, <3>1, <3>2
  <2> QED BY <2>1 DEF UsesMean
<1> QED BY <1>2, <1>3, <1>10

\* What BindScope and BindFrame change.
LEMMA BindIs ==
    ASSUME NEW sc, List(sc), NEW s \in 1 .. Len(sc), NEW i, NEW v,
           \A k \in 1 .. Len(sc) : {"out", "bound"} \subseteq DOMAIN sc[k]
    PROVE  Bound(sc, BindScope(sc, s, i, v), s, i, v)
<1> PICK r : r = [sc[s] EXCEPT !.names = Over(@, {Name(i)}, v),
                               !.mutable = IF Op(i) = "var" THEN @ \cup {Name(i)} ELSE @,
                               !.bound = Over(@, {i}, v)]
    OBVIOUS
<1>1. BindScope(sc, s, i, v) = [sc EXCEPT ![s] = r]
    BY DEF BindScope
<1>2. /\ {"out", "bound"} \subseteq DOMAIN r /\ r.out = sc[s].out
      /\ r.bound = Over(sc[s].bound, {i}, v)
    OBVIOUS
<1> DEFINE c == Put(sc, s, r)
<1>3. List(c) /\ Len(c) = Len(sc)
    BY ListPut
<1>4. \A k \in 1 .. Len(sc) : c[k] = IF k = s THEN r ELSE sc[k]
    BY ListPut
<1>5. DOMAIN r.bound = DOMAIN sc[s].bound \cup {i}
      /\ \A x \in DOMAIN sc[s].bound \cup {i} : r.bound[x] = IF x = i THEN v ELSE sc[s].bound[x]
    BY <1>2 DEF Over
<1>6. Bound(sc, c, s, i, v)
  <2>1. c[s] = r
      BY <1>4
  <2>2. ASSUME NEW k \in 1 .. Len(sc)
        PROVE  /\ {"out", "bound"} \subseteq DOMAIN c[k] /\ c[k].out = sc[k].out
               /\ k # s => c[k].bound = sc[k].bound
    <3>1. CASE k = s
        BY <2>1, <3>1, <1>2
    <3>2. CASE k # s
        BY <3>2, <1>4
    <3> QED BY <3>1, <3>2
  <2> QED BY <2>1, <2>2, <1>3, <1>5 DEF Bound
<1>7. BindScope(sc, s, i, v) = c
    BY <1>1 DEF Put
<1> QED BY <1>6, <1>7

LEMMA BindFrameIs ==
    ASSUME Static, NEW i \in Binding, NEW fr, IsFrame(fr), NEW v, NEW ca, ca = Len(cells) + 1
    PROVE  /\ Holding(fr, BindFrame(fr, i, v), i, v, ca) /\ BindFrame(fr, i, v).pc = fr.pc
           /\ InCell(i) <=> Boxed(i)
<1>1. code[i].place = Own(i) /\ Written
    BY DEF Static, Coded, Binding
<1>2. InCell(i) <=> Boxed(i)
  <2>1. Boxed(i) => Own(i).kind = "cell"
      BY <1>1, OwnIs DEF Place
  <2>2. ~Boxed(i) => Own(i).kind = "slot"
      BY <1>1, OwnIs
  <2> QED BY <2>1, <2>2, <1>1 DEF InCell
<1>3. CASE Boxed(i)
  <2> PICK c : c = Over(fr.cells, {i}, ca)
      OBVIOUS
  <2> PICK g : g = BindFrame(fr, i, v)
      OBVIOUS
  <2>1. g = [fr EXCEPT !.cells = c]
      BY <1>2, <1>3 DEF BindFrame
  <2>2. /\ IsFrame(g) /\ g.pc = fr.pc /\ g.scope = fr.scope /\ g.captured = fr.captured
        /\ g.slots = fr.slots /\ g.cells = c
      BY <2>1 DEF IsFrame
  <2>3. i \in DOMAIN c /\ c[i] = ca /\ \A x \in DOMAIN fr.cells : x # i => x \in DOMAIN c /\ c[x] = fr.cells[x]
      BY DEF Over
  <2>4. Holding(fr, g, i, v, ca)
      BY <1>3, <2>2, <2>3 DEF Holding
  <2> QED BY <1>2, <2>2, <2>4
<1>4. CASE ~Boxed(i)
  <2> PICK a : a = Own(i).at
      OBVIOUS
  <2> PICK c : c = Over(fr.slots, {a}, v)
      OBVIOUS
  <2> PICK g : g = BindFrame(fr, i, v)
      OBVIOUS
  <2>1. g = [fr EXCEPT !.slots = c]
      BY <1>1, <1>2, <1>4 DEF BindFrame
  <2>2. /\ IsFrame(g) /\ g.pc = fr.pc /\ g.scope = fr.scope /\ g.captured = fr.captured
        /\ g.cells = fr.cells /\ g.slots = c
      BY <2>1 DEF IsFrame
  <2>3. a \in DOMAIN c /\ c[a] = v /\ \A x \in DOMAIN fr.slots : x # a => x \in DOMAIN c /\ c[x] = fr.slots[x]
      BY DEF Over
  <2>4. a \in Slots(i)
      BY <1>1, <1>4, OwnIs
  <2>5. Holding(fr, g, i, v, ca)
      BY <1>4, <2>2, <2>3, <2>4 DEF Holding
  <2> QED BY <1>2, <2>2, <2>5
<1> QED BY <1>3, <1>4

\* What is known of the newest call.
LEMMA TopIs ==
    ASSUME Static, NEW sc, NEW n, NEW t, NEW e, NEW h, ScopesOK(sc, n, t, e),
           FramesOK(sc, frames, t, e, h), frames # << >>
    PROVE  /\ Written /\ List(frames) /\ Len(frames) \in Nat /\ Len(frames) >= 1 /\ Top = frames[Len(frames)]
           /\ FrameOK(sc, Top, Seen(Top.pc), t, e, h) /\ IsFrame(Top)
           /\ Top.pc \in Places /\ Top.pc \in Nat /\ Top.scope \in DOMAIN t /\ t[Top.scope] = Inner(Top.pc)
           /\ Top.scope \in 1 .. Len(sc) /\ Len(sc) \in Nat /\ List(sc)
           /\ \A k \in 1 .. Len(sc) : {"out", "bound"} \subseteq DOMAIN sc[k]
           /\ Base(Top, e) <= Top.scope /\ Base(Top, e) \in Nat /\ Base(Top, e) \in DOMAIN t
           /\ Bounds(sc, e, Top.scope, Seen(Top.pc))
           /\ \A op : At(op) => Top.pc \in Text /\ Op(Top.pc) = op
<1>1. Written /\ List(frames) /\ List(sc) /\ Top = frames[Len(frames)]
    BY DEF Static, FramesOK, ScopesOK, Top
<1>2. Len(frames) \in Nat /\ Len(frames) >= 1
  <2>1. Len(frames) \in Nat /\ Len(frames) # 0
      BY <1>1, EmptySeq, ListIs DEF List
  <2> QED BY <2>1
<1>3. FrameOK(sc, Top, Seen(Top.pc), t, e, h)
  <2>1. Len(frames) \in 1 .. Len(frames)
      BY <1>2
  <2> QED BY <1>1, <2>1 DEF FramesOK
<1>4. /\ IsFrame(Top) /\ Top.pc \in Places /\ Top.scope \in DOMAIN t /\ t[Top.scope] = Inner(Top.pc)
      /\ Bounds(sc, e, Top.scope, Seen(Top.pc))
    BY <1>3 DEF FrameOK, IsFrame
<1>5. Len(sc) \in Nat /\ DOMAIN t \subseteq 1 .. Len(sc) /\ \A k \in 1 .. Len(sc) : {"out", "bound"} \subseteq DOMAIN sc[k]
  <2>1. Len(sc) \in Nat
      BY <1>1, ListIs
  <2> QED BY <2>1 DEF ScopesOK
<1>6. Base(Top, e) <= Top.scope /\ Base(Top, e) \in Nat /\ Base(Top, e) \in DOMAIN t
  <2>1. FunOf(Top.pc) \in Around(Top.pc)
      BY <1>1, <1>4, FunIs
  <2> QED BY <2>1, <1>1, <1>4, AtInstance DEF Base
<1>7. Top.pc \in Nat
    BY <1>1, <1>4, SizeIs DEF Places
<1>8. \A op : At(op) => Top.pc \in Text /\ Op(Top.pc) = op
    BY <1>1, <1>4, <1>7, SizeIs DEF At, Text, Places
<1> QED BY <1>1, <1>2, <1>3, <1>4, <1>5, <1>6, <1>7, <1>8

\* What is untouched below one scope is untouched below an earlier one.
LEMMA UntouchedBelow ==
    ASSUME NEW sc, NEW sc2, NEW t, NEW m \in Nat, NEW k \in Nat, Untouched(sc, sc2, t, m), k <= m,
           DOMAIN t \subseteq Nat
    PROVE  Untouched(sc, sc2, t, k)
BY DEF Untouched

LEMMA ScopesMore ==
    ASSUME NEW sc, NEW n \in Nat, NEW t, NEW e, ScopesOK(sc, n, t, e)
    PROVE  ScopesOK(sc, n + 1, t, e)
<1>1. 1 .. n \subseteq 1 .. n + 1
    OBVIOUS
<1>2. \A k \in DOMAIN t : Instance(sc, n, t, e, k) => Instance(sc, n + 1, t, e, k)
    BY <1>1 DEF Instance
<1> QED BY <1>2 DEF ScopesOK

\* A name of the newest call's is bound, and the call goes on at j.
LEMMA TopBinds ==
    ASSUME Static, NEW sc, NEW n, NEW cl, NEW t, NEW e, NEW h, World(sc, n, cl, cells, t, e, h),
           FramesOK(sc, frames, t, e, h), frames # << >>, Top.pc \in Binding, Op(Top.pc) # "for",
           NEW v, Op(Top.pc) \in Functions => v \in 1 .. n,
           NEW j \in Places, Top.pc < j, Around(j) = Around(Top.pc), Seen(j) = Seen(Top.pc) \cup {Top.pc}
    PROVE  \E h2 : LET sc2 == BindScope(sc, Top.scope, Top.pc, v) IN
               /\ World(sc2, n, cl, BindCells(Top.pc, v), t, e, h2)
               /\ FramesOK(sc2, WithTop(BindFrame(Goto(j), Top.pc, v)), t, e, h2)
               /\ Bounds(sc2, e, Top.scope, Seen(Top.pc) \cup {Top.pc})
               /\ Grows(sc, t, e, h, t, e, h2)
<1> PICK i : i = Top.pc
    OBVIOUS
<1> PICK s : s = Top.scope
    OBVIOUS
<1> PICK sc2 : sc2 = BindScope(sc, s, i, v)
    OBVIOUS
<1> PICK fr2 : fr2 = BindFrame(Goto(j), i, v)
    OBVIOUS
<1> PICK ce2 : ce2 = BindCells(i, v)
    OBVIOUS
<1> PICK h2 : h2 = IF Boxed(i) THEN Over(h, {<<s, i>>}, Len(cells) + 1) ELSE h
    OBVIOUS
<1>1. ScopesOK(sc, n, t, e)
    BY DEF World
<1>2. /\ Written /\ List(frames) /\ Len(frames) \in Nat /\ Len(frames) >= 1 /\ Top = frames[Len(frames)]
      /\ FrameOK(sc, Top, Seen(i), t, e, h) /\ IsFrame(Top)
      /\ i \in Places /\ i \in Nat /\ s \in DOMAIN t /\ t[s] = Inner(i)
      /\ s \in 1 .. Len(sc) /\ Len(sc) \in Nat /\ List(sc)
      /\ \A k \in 1 .. Len(sc) : {"out", "bound"} \subseteq DOMAIN sc[k]
      /\ Base(Top, e) <= s /\ Base(Top, e) \in Nat
    BY <1>1, TopIs
<1>3. ScopeOf(i) = t[s] /\ Inner(i) \in Around(i) /\ FunOf(i) <= Inner(i) /\ i \in Text
  <2>1. i \in Text
      BY DEF Binding
  <2>2. ScopeOf(i) = Inner(i)
      BY <2>1, <1>2, ScopeIs DEF Inner
  <2>3. Inner(i) \in Around(i) /\ FunOf(i) <= Inner(i)
      BY <1>2, InnermostIs, FunIs DEF Inner
  <2> QED BY <2>1, <2>2, <2>3, <1>2
<1>4. i \notin DOMAIN sc[s].bound
  <2>1. e[s][Inner(i)] = s
      BY <1>1, <1>2 DEF ScopesOK, Instance
  <2>2. FunOf(i) \in Nat /\ Inner(i) \in Nat
    <3>1. Around(i) \subseteq 0 .. i - 1
        BY <1>2, AroundIs
    <3> QED BY <3>1, <1>2, <1>3, FunIs
  <2>3. \A d \in DOMAIN sc[e[s][Inner(i)]].bound : d < i
      BY <1>2, <1>3, <2>2 DEF FrameOK
  <2> QED BY <2>1, <2>3, <1>2
<1>5. Bound(sc, sc2, s, i, v)
    BY <1>2, BindIs
<1>6. Holding(Top, fr2, i, v, Len(cells) + 1) /\ fr2.pc = j /\ fr2.scope = s /\ (InCell(i) <=> Boxed(i))
  <2> PICK g : g = Goto(j)
      OBVIOUS
  <2> PICK ca : ca = Len(cells) + 1
      OBVIOUS
  <2>1. IsFrame(g) /\ g.pc = j /\ g.scope = s /\ g.captured = Top.captured /\ g.slots = Top.slots /\ g.cells = Top.cells
      BY <1>2 DEF Goto, IsFrame
  <2>2. i \in Binding /\ fr2 = BindFrame(g, i, v)
      OBVIOUS
  <2>3. Holding(g, BindFrame(g, i, v), i, v, ca) /\ BindFrame(g, i, v).pc = g.pc /\ (InCell(i) <=> Boxed(i))
      BY <2>1, <2>2, BindFrameIs
  <2>4. Holding(Top, fr2, i, v, ca) /\ fr2.scope = s
      BY <2>1, <2>2, <2>3 DEF Holding
  <2> QED BY <2>1, <2>2, <2>3, <2>4
<1>7. CellBinds(cells, ce2, h, h2, s, i, v)
    BY <1>6 DEF BindCells, CellBinds
<1>8. /\ World(sc2, n, cl, ce2, t, e, h2) /\ Grows(sc, t, e, h, t, e, h2)
      /\ Untouched(sc, sc2, t, s)
      /\ Boxed(i) => CellAt(h2, s, i, Len(cells) + 1)
  <2>1. i \in Binding /\ (Op(i) \in Functions => v \in 1 .. n)
      OBVIOUS
  <2>2. /\ World(sc2, n, cl, ce2, t, e, h2) /\ Grows(sc, t, e, h, t, e, h2)
        /\ Untouched(sc, sc2, t, s)
      BY <1>2, <1>3, <1>4, <1>5, <1>7, <2>1, WorldBinds
  <2>3. Boxed(i) => CellAt(h2, s, i, Len(cells) + 1)
    <3> PICK p : p = <<s, i>>
        OBVIOUS
    <3> PICK q : q = Len(cells) + 1
        OBVIOUS
    <3>1. Boxed(i) => h2 = Over(h, {p}, q)
        OBVIOUS
    <3>2. Boxed(i) => h2[p] = q
        BY <3>1 DEF Over
    <3> QED BY <3>2 DEF CellAt
  <2> QED BY <2>2, <2>3
<1>9. FrameOK(sc2, fr2, Seen(i) \cup {i}, t, e, h2) /\ Base(fr2, e) = Base(Top, e)
  <2>1. Seen(i) \subseteq Seen(fr2.pc) /\ i \in Seen(fr2.pc) /\ Around(fr2.pc) = Around(i) /\ fr2.pc \in Places
        /\ i <= fr2.pc /\ i < fr2.pc /\ i \in Binding
      BY <1>2, <1>6, SizeIs DEF Places
  <2> PICK ca : ca = Len(cells) + 1
      OBVIOUS
  <2>2. Holding(Top, fr2, i, v, ca) /\ (Boxed(i) => CellAt(h2, s, i, ca))
      BY <1>6, <1>8
  <2>3. FunOf(i) = FunOf(Top.pc) /\ ScopeOf(i) = t[Top.scope]
      BY <1>3
  <2>4. Written /\ FrameOK(sc, Top, Seen(i), t, e, h)
      BY <1>2
  <2> QED BY <1>1, <1>4, <1>5, <1>8, <2>1, <2>2, <2>3, <2>4, FrameBinds
<1>10. FramesOK(sc2, WithTop(fr2), t, e, h2)
  <2>1. Untouched(sc, sc2, t, Base(Top, e))
    <3>1. DOMAIN t \subseteq Nat
        BY <1>1, <1>2 DEF ScopesOK
    <3> QED BY <1>2, <1>8, <3>1, UntouchedBelow
  <2>2. FrameOK(sc2, fr2, Seen(fr2.pc), t, e, h2)
      BY <1>6, <1>9
  <2>3. FramesOK(sc2, [frames EXCEPT ![Len(frames)] = fr2], t, e, h2)
      BY <1>1, <1>2, <1>8, <1>9, <2>1, <2>2, TopSteps
  <2> QED BY <2>3 DEF WithTop
<1>11. Bounds(sc2, e, s, Seen(i) \cup {i})
    BY <1>6, <1>9 DEF FrameOK
<1> QED BY <1>8, <1>10, <1>11 

\* The scopes, closures, cells and calls of a run that keeps the meaning of names.
Sound(sc, cl, ce, frs) ==
    \E t, e, h : World(sc, Len(cl), cl, ce, t, e, h) /\ FramesOK(sc, frs, t, e, h)

LEMMA AtIs ==
    ASSUME Static, NEW op, At(op)
    PROVE  frames # << >>
BY DEF At

\* A token that is no bracket is passed.
LEMMA Passed ==
    ASSUME Written, NEW i \in Text, Op(i) \notin Brackets \cup {"end"}, NEW j, j = i + 1
    PROVE  /\ j \in Places /\ i < j /\ i <= j /\ Around(j) = Around(i) /\ Seen(i) \subseteq Seen(j)
           /\ Op(i) \in Binders => Seen(j) = Seen(i) \cup {i}
           /\ Op(i) \notin Binders => Seen(j) = Seen(i)
<1>1. i \in Nat
    BY SizeIs DEF Text
<1>2. j \in Places /\ Around(j) = Around(i)
    BY AfterPlain
<1>3. Seen(j) = IF Op(i) \in Binders THEN Seen(i) \cup {i} ELSE Seen(i)
    BY SeenAfterPlain
<1> QED BY <1>1, <1>2, <1>3

\* A `val` or `var` is declared.
LEMMA LetSteps ==
    ASSUME Static, NEW t, NEW e, NEW h, World(scopes, Len(closures), closures, cells, t, e, h),
           FramesOK(scopes, frames, t, e, h), Let
    PROVE  Sound(scopes', closures', cells', frames')
<1> PICK op \in {"val", "var"} :
         /\ At(op)
         /\ scopes' = BindScope(scopes, Top.scope, Top.pc, clock)
         /\ cells' = BindCells(Top.pc, clock)
         /\ frames' = WithTop(BindFrame(Next1, Top.pc, clock))
         /\ closures' = closures
    BY DEF Let
<1> PICK i : i = Top.pc
    OBVIOUS
<1> PICK j : j = i + 1
    OBVIOUS
<1>1. Written /\ frames # << >> /\ ScopesOK(scopes, Len(closures), t, e)
    BY DEF At, Static, World
<1>2. i \in Text /\ Op(i) = op
    BY <1>1, TopIs
<1>3. i \in Binding /\ Op(i) # "for" /\ Op(i) \notin Functions /\ Op(i) \notin Brackets \cup {"end"} /\ Op(i) \in Binders
    BY <1>2 DEF Binding, Binders, Functions, Brackets
<1>4. j \in Places /\ i < j /\ Around(j) = Around(i) /\ Seen(j) = Seen(i) \cup {i}
    BY <1>1, <1>2, <1>3, Passed
<1>5. Next1 = Goto(j)
    BY DEF Next1
<1>6. PICK h2 : /\ World(BindScope(scopes, Top.scope, Top.pc, clock), Len(closures), closures, BindCells(Top.pc, clock), t, e, h2)
                /\ FramesOK(BindScope(scopes, Top.scope, Top.pc, clock), WithTop(BindFrame(Goto(j), Top.pc, clock)), t, e, h2)
    BY <1>1, <1>3, <1>4, TopBinds
<1> QED BY <1>5, <1>6 DEF Sound

LEMMA FramePasses ==
    ASSUME Written, NEW sc, NEW n, NEW fr, NEW fr2, NEW t, NEW e, NEW h,
           ScopesOK(sc, n, t, e), FrameOK(sc, fr, Seen(fr.pc), t, e, h),
           fr.pc \in Text, Op(fr.pc) \in Uses,
           IsFrame(fr2), fr2.scope = fr.scope, fr2.slots = fr.slots, fr2.cells = fr.cells,
           fr2.captured = fr.captured, fr2.pc = fr.pc + 1
    PROVE  FrameOK(sc, fr2, Seen(fr2.pc), t, e, h) /\ Base(fr2, e) = Base(fr, e)
<1> PICK i : i = fr.pc
    OBVIOUS
<1> PICK j : j = i + 1
    OBVIOUS
<1>1. Op(i) \notin Brackets \cup {"end"} /\ Op(i) \notin Binders
    BY DEF Uses, Brackets, Binders
<1>2. /\ j \in Places /\ i <= j /\ Around(j) = Around(i) /\ Seen(i) \subseteq Seen(j) /\ Seen(j) = Seen(i)
    BY <1>1, Passed
<1>3. fr2.pc \in Places /\ Around(fr2.pc) = Around(fr.pc) /\ fr.pc <= fr2.pc /\ Seen(fr.pc) \subseteq Seen(fr2.pc)
      /\ Seen(fr2.pc) = Seen(fr.pc)
    BY <1>2
<1> PICK D : D = Seen(fr.pc)
    OBVIOUS
<1>4. FrameOK(sc, fr, D, t, e, h) /\ D \subseteq Seen(fr2.pc)
    BY <1>3
<1>5. FrameOK(sc, fr2, D, t, e, h) /\ Base(fr2, e) = Base(fr, e)
    BY <1>3, <1>4, FrameMoves
<1> QED BY <1>3, <1>5

\* A use goes on to the next token.
LEMMA TopPasses ==
    ASSUME Static, NEW n, NEW t, NEW e, NEW h, ScopesOK(scopes, n, t, e),
           FramesOK(scopes, frames, t, e, h), frames # << >>, Top.pc \in Text, Op(Top.pc) \in Uses
    PROVE  FramesOK(scopes, WithTop(Next1), t, e, h)
<1> PICK fr : fr = Next1
    OBVIOUS
<1>1. /\ Written /\ Top = frames[Len(frames)] /\ FrameOK(scopes, Top, Seen(Top.pc), t, e, h) /\ IsFrame(Top)
      /\ DOMAIN t \subseteq Nat
  <2>1. /\ Written /\ Top = frames[Len(frames)] /\ FrameOK(scopes, Top, Seen(Top.pc), t, e, h) /\ IsFrame(Top)
        /\ Len(scopes) \in Nat
      BY TopIs
  <2> QED BY <2>1 DEF ScopesOK
<1>2. /\ IsFrame(fr) /\ fr.pc = Top.pc + 1 /\ fr.scope = Top.scope /\ fr.slots = Top.slots /\ fr.cells = Top.cells
      /\ fr.captured = Top.captured
    BY <1>1 DEF Next1, Goto, IsFrame
<1>3. FrameOK(scopes, fr, Seen(fr.pc), t, e, h) /\ Base(fr, e) = Base(Top, e)
    BY <1>1, <1>2, FramePasses
<1>4. Grows(scopes, t, e, h, t, e, h) /\ Untouched(scopes, scopes, t, Base(Top, e))
    BY GrowsSelf DEF Untouched
<1>5. FramesOK(scopes, [frames EXCEPT ![Len(frames)] = fr], t, e, h)
    BY <1>1, <1>3, <1>4, TopSteps
<1> QED BY <1>5 DEF WithTop

LEMMA NoCalls == ASSUME NEW sc, NEW t, NEW e, NEW h PROVE FramesOK(sc, << >>, t, e, h)
<1>1. List(<< >>) /\ Len(<< >>) = 0
  <2>1. << >> \in Seq({})
      BY EmptySeq
  <2> QED BY <2>1, EmptySeq DEF List
<1> QED BY <1>1 DEF FramesOK

\* A use reads, from the place the compiler gave it, the binding it means.
LEMMA ReadsAgree ==
    ASSUME Static, NEW n, NEW t, NEW e, NEW h, World(scopes, n, closures, cells, t, e, h),
           FramesOK(scopes, frames, t, e, h), frames # << >>, Top.pc \in Text, Op(Top.pc) \in Uses
    PROVE  Reads(Top.pc).vm = Reads(Top.pc).means
<1>1. Means(Meaning(Top.pc)) = VmReads(code[Top.pc].place) /\ code[Top.pc].means = Meaning(Top.pc)
    BY UseIs
<1> QED BY <1>1 DEF Reads

LEMMA ReadSteps ==
    ASSUME Static, NEW t, NEW e, NEW h, World(scopes, Len(closures), closures, cells, t, e, h),
           FramesOK(scopes, frames, t, e, h), Read
    PROVE  Sound(scopes', closures', cells', frames') /\ VmKeepsMeaning'
<1>1. /\ At("read") /\ last' = Reads(Top.pc)
      /\ frames' = WithTop(Next1) \/ frames' = << >>
      /\ scopes' = scopes /\ closures' = closures /\ cells' = cells
    BY DEF Read, StopAll
<1>2. ScopesOK(scopes, Len(closures), t, e) /\ frames # << >>
    BY <1>1 DEF At, World
<1>3. Top.pc \in Text /\ Op(Top.pc) \in Uses
  <2>1. Top.pc \in Text /\ Op(Top.pc) = "read"
      BY <1>1, <1>2, TopIs
  <2> QED BY <2>1 DEF Uses
<1>4. VmKeepsMeaning'
  <2>1. Reads(Top.pc).vm = Reads(Top.pc).means
      BY <1>2, <1>3, ReadsAgree
  <2> QED BY <1>1, <2>1 DEF VmKeepsMeaning
<1>5. FramesOK(scopes, frames', t, e, h)
  <2>1. FramesOK(scopes, WithTop(Next1), t, e, h)
      BY <1>2, <1>3, TopPasses
  <2>2. FramesOK(scopes, << >>, t, e, h)
      BY NoCalls
  <2> QED BY <1>1, <2>1, <2>2
<1> QED BY <1>1, <1>4, <1>5 DEF Sound

Assigned(sc, a, x, s, d, v) == [sc EXCEPT ![a].names[x] = v, ![s].bound[d] = v]

\* An assignment writes the binding where the walker finds the name, in the
\* scope meant.
LEMMA AssignIs ==
    ASSUME NEW sc, List(sc), \A k \in 1 .. Len(sc) : {"out", "bound"} \subseteq DOMAIN sc[k],
           NEW s \in 1 .. Len(sc), NEW d \in DOMAIN sc[s].bound, NEW a, NEW x, NEW v
    PROVE  Bound(sc, Assigned(sc, a, x, s, d, v), s, d, v)
<1> PICK u : u = [sc[a] EXCEPT !.names[x] = v]
    OBVIOUS
<1> PICK c1 : c1 = Put(sc, a, u)
    OBVIOUS
<1> PICK w : w = [c1[s] EXCEPT !.bound[d] = v]
    OBVIOUS
<1> PICK c2 : c2 = Put(c1, s, w)
    OBVIOUS
<1>1. List(c1) /\ Len(c1) = Len(sc) /\ \A k \in 1 .. Len(sc) : c1[k] = IF k = a THEN u ELSE sc[k]
    BY ListPut
<1>2. List(c2) /\ Len(c2) = Len(sc) /\ \A k \in 1 .. Len(sc) : c2[k] = IF k = s THEN w ELSE c1[k]
    BY <1>1, ListPut
<1>3. \A k \in 1 .. Len(sc) : {"out", "bound"} \subseteq DOMAIN c1[k] /\ c1[k].out = sc[k].out /\ c1[k].bound = sc[k].bound
  <2> SUFFICES ASSUME NEW k \in 1 .. Len(sc)
               PROVE  {"out", "bound"} \subseteq DOMAIN c1[k] /\ c1[k].out = sc[k].out /\ c1[k].bound = sc[k].bound
      OBVIOUS
  <2>1. CASE k = a
    <3>1. c1[k] = u
        BY <2>1, <1>1
    <3>2. {"out", "bound"} \subseteq DOMAIN u /\ u.out = sc[k].out /\ u.bound = sc[k].bound
        BY <2>1
    <3> QED BY <3>1, <3>2
  <2>2. CASE k # a
      BY <2>2, <1>1
  <2> QED BY <2>1, <2>2
<1>4. /\ {"out", "bound"} \subseteq DOMAIN w /\ w.out = sc[s].out
      /\ DOMAIN w.bound = DOMAIN sc[s].bound
      /\ \A y \in DOMAIN sc[s].bound : w.bound[y] = IF y = d THEN v ELSE sc[s].bound[y]
  <2>1. {"out", "bound"} \subseteq DOMAIN c1[s] /\ c1[s].out = sc[s].out /\ c1[s].bound = sc[s].bound
      BY <1>3
  <2>2. w.bound = [c1[s].bound EXCEPT ![d] = v] /\ w.out = c1[s].out /\ DOMAIN w = DOMAIN c1[s]
      BY <2>1
  <2> QED BY <2>1, <2>2
<1>5. Bound(sc, c2, s, d, v)
  <2>1. c2[s] = w /\ \A k \in 1 .. Len(sc) : k # s => c2[k] = c1[k]
      BY <1>2
  <2>2. ASSUME NEW k \in 1 .. Len(sc)
        PROVE  {"out", "bound"} \subseteq DOMAIN c2[k] /\ c2[k].out = sc[k].out /\ (k # s => c2[k].bound = sc[k].bound)
    <3>1. CASE k = s
        BY <2>1, <3>1, <1>4
    <3>2. CASE k # s
        BY <2>1, <3>2, <1>3
    <3> QED BY <3>1, <3>2
  <2>3. DOMAIN c2[s].bound = DOMAIN sc[s].bound \cup {d}
        /\ \A y \in DOMAIN sc[s].bound \cup {d} : c2[s].bound[y] = IF y = d THEN v ELSE sc[s].bound[y]
    <3>1. DOMAIN sc[s].bound \cup {d} = DOMAIN sc[s].bound
        OBVIOUS
    <3>2. /\ DOMAIN w.bound = DOMAIN sc[s].bound \cup {d}
          /\ \A y \in DOMAIN sc[s].bound \cup {d} : w.bound[y] = IF y = d THEN v ELSE sc[s].bound[y]
        BY <1>4, <3>1
    <3> QED BY <2>1, <3>2
  <2> QED BY <2>2, <2>3, <1>2 DEF Bound
<1>6. Assigned(sc, a, x, s, d, v) = c2
  <2>1. c1 = [sc EXCEPT ![a].names[x] = v]
      BY DEF Put
  <2>2. c2 = [c1 EXCEPT ![s].bound[d] = v]
      BY DEF Put
  <2> QED BY <2>1, <2>2 DEF Assigned
<1> QED BY <1>5, <1>6

GoesOn(fr, fr2) == /\ IsFrame(fr2) /\ fr2.scope = fr.scope /\ fr2.slots = fr.slots /\ fr2.cells = fr.cells
                   /\ fr2.captured = fr.captured /\ fr2.pc = fr.pc + 1

LEMMA TopAssigns ==
    ASSUME Static, NEW n, NEW t, NEW e, NEW h, World(scopes, n, closures, cells, t, e, h),
           FramesOK(scopes, frames, t, e, h), frames # << >>, Top.pc \in Text, Op(Top.pc) \in Uses,
           NEW d \in Seen(Top.pc), Op(d) = "var", NEW k, k = e[Top.scope][ScopeOf(d)],
           d \in DOMAIN scopes[k].bound, NEW v,
           NEW sc2, Bound(scopes, sc2, k, d, v), NEW ce2, CellPut(cells, ce2, h, k, d, v),
           NEW fr1, SlotPut(Top, fr1, d, v), NEW fr2, GoesOn(fr1, fr2)
    PROVE  World(sc2, n, closures, ce2, t, e, h) /\ FramesOK(sc2, WithTop(fr2), t, e, h)
<1> PICK i : i = Top.pc
    OBVIOUS
<1> PICK s : s = Top.scope
    OBVIOUS
<1> PICK m : m = Base(Top, e)
    OBVIOUS
<1>1. ScopesOK(scopes, n, t, e) /\ CellsOK(scopes, cells, t, h) /\ i \in Text /\ Op(i) \in Uses
    BY DEF World
<1>2. /\ Written /\ Len(frames) \in Nat /\ Len(frames) >= 1 /\ Top = frames[Len(frames)]
      /\ FrameOK(scopes, Top, Seen(i), t, e, h) /\ IsFrame(Top)
      /\ i \in Places /\ s \in DOMAIN t /\ t[s] = Inner(i) /\ m \in Nat
    BY <1>1, TopIs
<1>3. k \in DOMAIN t /\ d \in Text /\ ScopeOf(d) \in Around(i)
  <2>1. k \in DOMAIN t
      BY <1>1, <1>2, SeenAt
  <2> QED BY <2>1, <1>2 DEF Seen, Binding
<1>4. Boxed(d) \/ m <= k
  <2>1. CASE ~Boxed(d)
    <3>1. FunOf(d) = FunOf(i) /\ FunOf(d) <= ScopeOf(d)
        BY <2>1, <1>2, <1>3, ScopeInFunction DEF SlotPut
    <3>2. FunOf(i) \in Around(i)
        BY <1>2, FunIs
    <3> PICK b : b = ScopeOf(d)
        OBVIOUS
    <3>3. \A a \in Around(i) : a <= b => e[s][a] <= e[s][b]
      <4>1. Written /\ ScopesOK(scopes, n, t, e) /\ s \in DOMAIN t /\ i \in Places /\ t[s] = Inner(i) /\ b \in Around(i)
          BY <1>1, <1>2, <1>3
      <4> QED BY <4>1, AtInstance
    <3> QED BY <3>1, <3>2, <3>3 DEF Base
  <2> QED BY <2>1
<1>5. World(sc2, n, closures, ce2, t, e, h) /\ Reassigned(scopes, sc2, t, k, d, v)
    BY <1>2, <1>3, WorldAssigns
<1>11. Untouched(scopes, sc2, t, m)
  <2>1. k \in Nat /\ \A x \in DOMAIN t : x \in Nat
    <3>1. Len(scopes) \in Nat
        BY <1>1, TopIs
    <3> QED BY <3>1, <1>1, <1>3 DEF ScopesOK
  <2> QED BY <2>1, <1>2, <1>4, <1>5 DEF Untouched, Reassigned
<1>6. ScopesOK(sc2, n, t, e)
    BY <1>5 DEF World
<1> PICK D : D = Seen(i)
    OBVIOUS
<1>7. FrameOK(sc2, fr1, D, t, e, h) /\ Base(fr1, e) = m
  <2>1. FrameOK(scopes, Top, D, t, e, h) /\ d \in D /\ Reassigned(scopes, sc2, t, e[Top.scope][ScopeOf(d)], d, v)
      BY <1>2, <1>5
  <2>2. FrameOK(sc2, fr1, D, t, e, h) /\ Base(fr1, e) = Base(Top, e)
      BY <1>1, <1>2, <2>1, FrameAssigns
  <2> QED BY <2>2
<1>8. fr1.pc = i
    BY DEF SlotPut
<1>9. FrameOK(sc2, fr2, Seen(fr2.pc), t, e, h) /\ Base(fr2, e) = m
  <2>1. FrameOK(sc2, fr1, Seen(fr1.pc), t, e, h) /\ fr1.pc \in Text /\ Op(fr1.pc) \in Uses
      BY <1>1, <1>7, <1>8
  <2>2. /\ IsFrame(fr2) /\ fr2.scope = fr1.scope /\ fr2.slots = fr1.slots /\ fr2.cells = fr1.cells
        /\ fr2.captured = fr1.captured /\ fr2.pc = fr1.pc + 1
      BY DEF GoesOn
  <2>3. Written
      BY <1>2
  <2>4. FrameOK(sc2, fr2, Seen(fr2.pc), t, e, h) /\ Base(fr2, e) = Base(fr1, e)
      BY <1>6, <2>1, <2>2, <2>3, FramePasses
  <2> QED BY <1>7, <2>4
<1>10. FramesOK(sc2, [frames EXCEPT ![Len(frames)] = fr2], t, e, h)
  <2>1. Grows(scopes, t, e, h, t, e, h)
      BY GrowsSelf
  <2>2. /\ Untouched(scopes, sc2, t, Base(frames[Len(frames)], e))
        /\ FrameOK(sc2, fr2, Seen(fr2.pc), t, e, h) /\ Base(fr2, e) = Base(frames[Len(frames)], e)
      BY <1>2, <1>9, <1>11
  <2> QED BY <1>1, <1>2, <2>1, <2>2, TopSteps
<1> QED BY <1>5, <1>10 DEF WithTop

LEMMA SetSteps ==
    ASSUME Static, NEW t, NEW e, NEW h, World(scopes, Len(closures), closures, cells, t, e, h),
           FramesOK(scopes, frames, t, e, h), Set
    PROVE  Sound(scopes', closures', cells', frames') /\ VmKeepsMeaning'
<1> PICK i : i = Top.pc
    OBVIOUS
<1> PICK s : s = Top.scope
    OBVIOUS
<1> PICK d : d = Meaning(i)
    OBVIOUS
<1> PICK k : k = e[s][ScopeOf(d)]
    OBVIOUS
<1> PICK p : p = code[i].place
    OBVIOUS
<1> PICK n : n = Len(closures)
    OBVIOUS
<1>1. /\ At("set") /\ last' = Reads(i) /\ closures' = closures
      /\ \/ Assign(i)
         \/ frames' = << >> /\ scopes' = scopes /\ cells' = cells
    BY DEF Set, StopAll
<1>2. World(scopes, n, closures, cells, t, e, h) /\ ScopesOK(scopes, n, t, e) /\ frames # << >>
    BY <1>1 DEF At, World
<1>3. i \in Text /\ Op(i) = "set" /\ Op(i) \in Uses
  <2>1. Top.pc \in Text /\ Op(Top.pc) = "set"
      BY <1>1, <1>2, TopIs
  <2> QED BY <2>1 DEF Uses
<1>4. VmKeepsMeaning'
  <2>1. Reads(Top.pc).vm = Reads(Top.pc).means
      BY <1>2, <1>3, ReadsAgree
  <2> QED BY <1>1, <2>1 DEF VmKeepsMeaning
<1>5. CASE frames' = << >> /\ scopes' = scopes /\ cells' = cells
  <2>1. FramesOK(scopes, << >>, t, e, h)
      BY NoCalls
  <2> QED BY <1>1, <1>4, <1>5, <2>1 DEF Sound
<1>6. CASE Assign(i)
  <2>1. /\ Written /\ Len(frames) \in Nat /\ Len(frames) >= 1 /\ Top = frames[Len(frames)]
        /\ FrameOK(scopes, Top, Seen(i), t, e, h) /\ IsFrame(Top)
        /\ i \in Places /\ s \in DOMAIN t /\ t[s] = Inner(i) /\ s \in 1 .. Len(scopes) /\ Len(scopes) \in Nat
        /\ List(scopes) /\ \A x \in 1 .. Len(scopes) : {"out", "bound"} \subseteq DOMAIN scopes[x]
        /\ Base(Top, e) \in Nat
      BY <1>2, TopIs
  <2>2. d # 0 /\ Op(d) = "var"
      BY <1>3 DEF Static, UsesMean
  <2>3. /\ code[i].means = d
        /\ d \in Seen(i) /\ d \in Binding /\ k \in DOMAIN t /\ d \in DOMAIN scopes[k].bound
        /\ BindingIn(d, s) = k
        /\ FunOf(d) = FunOf(i) => p = Own(d)
        /\ FunOf(d) # FunOf(i) => Boxed(d) /\ p = Place("captured", d) /\ CellAt(h, k, d, Top.captured[d])
        /\ FunOf(d) = FunOf(i) /\ Boxed(d) => CellAt(h, k, d, Top.cells[d])
        /\ FunOf(d) = FunOf(i) /\ ~Boxed(d) => Own(d).at \in DOMAIN Top.slots
      BY <1>2, <1>3, <2>2, UseIs DEF CellAt
  <2>4. k \in 1 .. Len(scopes)
      BY <1>2, <2>1, <2>3 DEF ScopesOK
  <2> PICK v : v = clock
      OBVIOUS
  <2> PICK a0 : a0 = NameIn(Name(i), s)
      OBVIOUS
  <2> PICK x0 : x0 = Name(i)
      OBVIOUS
  <2> PICK sc2 : sc2 = Assigned(scopes, a0, x0, k, d, v)
      OBVIOUS
  <2> PICK ce2 : ce2 = cells'
      OBVIOUS
  <2>5. scopes' = sc2 /\ AssignVm(p)
      BY <1>6, <2>3 DEF Assign, Assigned
  <2>6. Bound(scopes, sc2, k, d, v)
      BY <2>1, <2>3, <2>4, AssignIs
  <2>7. Boxed(d) => p.kind \in {"cell", "captured"} /\ p.at = d
    <3>1. Boxed(d) => p \in {Place("cell", d), Place("captured", d)}
      <4>1. Boxed(d) => Own(d) = Place("cell", d)
          BY <2>1, <2>3, OwnIs
      <4> QED BY <4>1, <2>3
    <3> QED BY <3>1 DEF Place
  <2>8. ~Boxed(d) => p.kind = "slot" /\ p = Own(d) /\ FunOf(d) = FunOf(i)
      BY <2>1, <2>3, OwnIs
  <2>9. CellPut(cells, cells', h, k, d, v)
    <3> PICK c : c = h[<<k, d>>]
        OBVIOUS
    <3>1. FunOf(d) # FunOf(i) => Top.captured[d] = c
        BY <2>3 DEF CellAt
    <3>2. FunOf(d) = FunOf(i) /\ Boxed(d) => Top.cells[d] = c
        BY <2>3 DEF CellAt
    <3>3. CASE ~Boxed(d)
        BY <2>5, <2>8, <3>3 DEF AssignVm, CellPut
    <3>4. CASE Boxed(d) /\ FunOf(d) = FunOf(i)
      <4>1. p.kind = "cell" /\ p.at = d
        <5>1. Own(d) = Place("cell", d)
            BY <2>1, <2>3, <3>4, OwnIs
        <5> QED BY <5>1, <2>3, <3>4 DEF Place
      <4>2. cells' = [cells EXCEPT ![c] = v]
          BY <4>1, <3>2, <3>4, <2>5 DEF AssignVm
      <4> QED BY <4>2, <3>4 DEF CellPut, Put
    <3>5. CASE Boxed(d) /\ FunOf(d) # FunOf(i)
      <4>1. p.kind = "captured" /\ p.at = d
          BY <2>3, <3>5 DEF Place
      <4>2. cells' = [cells EXCEPT ![c] = v]
          BY <4>1, <3>1, <3>5, <2>5 DEF AssignVm
      <4> QED BY <4>2, <3>5 DEF CellPut, Put
    <3> QED BY <3>3, <3>4, <3>5
  <2> PICK fr1 : fr1 = IF Boxed(d) THEN Top ELSE [Top EXCEPT !.slots = [@ EXCEPT ![Own(d).at] = v]]
      OBVIOUS
  <2> PICK fr2 : fr2 = [fr1 EXCEPT !.pc = i + 1]
      OBVIOUS
  <2>10. SlotPut(Top, fr1, d, v)
    <3>1. CASE Boxed(d)
        BY <3>1, <2>1 DEF SlotPut
    <3>2. CASE ~Boxed(d)
      <4> PICK a : a = Own(d).at
          OBVIOUS
      <4> PICK b : b = [Top.slots EXCEPT ![a] = v]
          OBVIOUS
      <4>1. DOMAIN b = DOMAIN Top.slots /\ \A x \in DOMAIN Top.slots : b[x] = IF x = a THEN v ELSE Top.slots[x]
          OBVIOUS
      <4>2. fr1 = [Top EXCEPT !.slots = b]
          BY <3>2
      <4>3. IsFrame(fr1) /\ fr1.pc = Top.pc /\ fr1.scope = Top.scope /\ fr1.captured = Top.captured
            /\ fr1.cells = Top.cells /\ fr1.slots = b
          BY <4>2, <2>1 DEF IsFrame
      <4> QED BY <3>2, <4>1, <4>3, <2>8 DEF SlotPut
    <3> QED BY <3>1, <3>2
  <2>11. frames' = WithTop(fr2)
    <3>1. CASE Boxed(d)
      <4>1. Next1 = fr2
          BY <3>1 DEF Next1, Goto
      <4> QED BY <4>1, <3>1, <2>5, <2>7 DEF AssignVm
    <3>2. CASE ~Boxed(d)
      <4> PICK a : a = Own(d).at
          OBVIOUS
      <4>1. fr2 = [[Top EXCEPT !.slots = [@ EXCEPT ![a] = v]] EXCEPT !.pc = i + 1]
          BY <3>2
      <4>2. [Next1 EXCEPT !.slots[a] = clock] = fr2
          BY <4>1, <2>1 DEF Next1, Goto, IsFrame
      <4>3. p.kind = "slot" /\ p.at = a
          BY <3>2, <2>8
      <4> QED BY <4>2, <4>3, <2>5 DEF AssignVm
    <3> QED BY <3>1, <3>2
  <2>16. GoesOn(fr1, fr2)
      BY <2>10 DEF SlotPut, IsFrame, GoesOn
  <2>17. World(sc2, n, closures, ce2, t, e, h) /\ FramesOK(sc2, WithTop(fr2), t, e, h)
    <3>1. d \in Seen(Top.pc) /\ Op(d) = "var" /\ k = e[Top.scope][ScopeOf(d)] /\ d \in DOMAIN scopes[k].bound
        BY <2>2, <2>3
    <3>2. /\ Static /\ World(scopes, n, closures, cells, t, e, h) /\ FramesOK(scopes, frames, t, e, h)
          /\ frames # << >> /\ Top.pc \in Text /\ Op(Top.pc) \in Uses
        BY <1>2, <1>3
    <3>3. Bound(scopes, sc2, k, d, v) /\ CellPut(cells, ce2, h, k, d, v) /\ SlotPut(Top, fr1, d, v)
        BY <2>6, <2>9, <2>10
    <3> QED BY <2>16, <3>1, <3>2, <3>3, TopAssigns
  <2>19. /\ World(scopes', Len(closures'), closures', cells', t, e, h)
         /\ FramesOK(scopes', frames', t, e, h)
      BY <1>1, <2>5, <2>11, <2>17
  <2> QED BY <1>4, <2>19 DEF Sound
<1> QED BY <1>1, <1>5, <1>6

\* A new scope is a new instance of the bracket b.
NewInstance(sc, sc2, r, t, e, h, t2, e2, b, k) ==
    /\ k = Len(sc) + 1 /\ Len(sc2) = k /\ sc2[k] = r /\ k \in DOMAIN t2 /\ t2[k] = b
    /\ Grows(sc, t, e, h, t2, e2, h) /\ Untouched(sc, sc2, t, Len(sc) + 1)

\* A scope is opened for a call, and the call runs in it.
LEMMA Opens ==
    ASSUME Written, NEW sc, NEW r, NEW n, NEW cl, NEW ce, NEW t, NEW e, NEW h,
           World(sc, n, cl, ce, t, e, h), NEW b \in Text, Op(b) \in Brackets,
           r.out \in DOMAIN t, t[r.out] = Inner(b), {"out", "bound"} \subseteq DOMAIN r, DOMAIN r.bound = {}
    PROVE  \E t2, e2, k : /\ World(Append(sc, r), n, cl, ce, t2, e2, h)
                          /\ NewInstance(sc, Append(sc, r), r, t, e, h, t2, e2, b, k)
<1> DEFINE k == Len(sc) + 1
           sc2 == Append(sc, r)
           t2 == Opened(t, k, b)
           e2 == Display(t, e, k, b, r.out)
<1>1. /\ World(sc2, n, cl, ce, t2, e2, h) /\ Grows(sc, t, e, h, t2, e2, h)
      /\ Untouched(sc, sc2, t, Len(sc) + 1)
      /\ k \in DOMAIN t2 /\ t2[k] = b /\ sc2[k] = r /\ Len(sc2) = k
    BY WorldOpens
<1> HIDE DEF t2, e2
<1>2. NewInstance(sc, sc2, r, t, e, h, t2, e2, b, k)
    BY <1>1 DEF NewInstance
<1> QED BY <1>1, <1>2

LEMMA NewScopeIs ==
    ASSUME NEW up, NEW out, NEW r, r = NewScope(up, out)
    PROVE  r.out = out /\ {"out", "bound"} \subseteq DOMAIN r /\ DOMAIN r.bound = {}
BY DEF NewScope

\* A closure is called: its instance is new, and the caller's are as they were.
LEMMA PushSound ==
    ASSUME Static, NEW n, NEW t, NEW e, NEW h, World(scopes, n, closures, cells, t, e, h),
           NEW frs, FramesOK(scopes, frs, t, e, h), NEW c \in 1 .. Len(closures), Push(c, frs)
    PROVE  \E t2, e2 : /\ World(scopes', n, closures, cells, t2, e2, h)
                       /\ FramesOK(scopes', frames', t2, e2, h)
<1> PICK r : r = closures[c]
    OBVIOUS
<1> PICK q : q = NewScope(r.env, r.home)
    OBVIOUS
<1> PICK fr : fr = Frame(c, Len(scopes) + 1, r.at + 1, r.holds)
    OBVIOUS
<1> PICK sc2 : sc2 = Append(scopes, q)
    OBVIOUS
<1>1. Written /\ ScopesOK(scopes, n, t, e) /\ ClosureOK(scopes, r, t, e, h) /\ List(frs)
    BY DEF Static, World, ClosuresOK, FramesOK
<1>2. scopes' = sc2 /\ frames' = Append(frs, fr)
  <2>1. scopes' = sc2 /\ frames' = frs \o <<fr>>
      BY DEF Push
  <2> QED BY <1>1, <2>1, ListJoin
<1>3. q.out = r.home /\ {"out", "bound"} \subseteq DOMAIN q /\ DOMAIN q.bound = {}
    BY NewScopeIs
<1>4. r.at \in Text /\ Op(r.at) \in Brackets /\ q.out \in DOMAIN t /\ t[q.out] = Inner(r.at)
    BY <1>1, <1>3 DEF ClosureOK, Functions, Brackets
<1>5. PICK t2, e2, k : /\ World(sc2, n, closures, cells, t2, e2, h)
                       /\ NewInstance(scopes, sc2, q, t, e, h, t2, e2, r.at, k)
    BY <1>1, <1>3, <1>4, Opens
<1>6. /\ k = Len(scopes) + 1 /\ sc2[k] = q /\ k \in DOMAIN t2 /\ t2[k] = r.at
      /\ Grows(scopes, t, e, h, t2, e2, h) /\ Untouched(scopes, sc2, t, Len(scopes) + 1)
    BY <1>5 DEF NewInstance
<1>7. ScopesOK(sc2, n, t2, e2) /\ ClosureOK(sc2, r, t2, e2, h)
    BY <1>5 DEF World, ClosuresOK
<1>8. IsFrame(fr) /\ fr.scope = k /\ fr.pc = r.at + 1 /\ fr.captured = r.holds
    BY <1>6 DEF Frame, IsFrame
<1>9. FrameOK(sc2, fr, Seen(fr.pc), t2, e2, h) /\ Base(fr, e2) = k
  <2>1. Calling(sc2, r, fr, t2, k)
      BY <1>3, <1>6, <1>8 DEF Calling
  <2> QED BY <1>1, <1>7, <2>1, FrameCalls
<1>10. FramesOK(sc2, Append(frs, fr), t2, e2, h)
  <2>1. Base(fr, e2) = Len(scopes) + 1
      BY <1>6, <1>9
  <2> QED BY <1>1, <1>6, <1>9, <2>1, PushSteps
<1> QED BY <1>2, <1>5, <1>10

\* What a call means is a closure.
LEMMA CalledIs ==
    ASSUME Static, NEW n, NEW t, NEW e, NEW h, World(scopes, n, closures, cells, t, e, h),
           FramesOK(scopes, frames, t, e, h), frames # << >>, Top.pc \in Text, Op(Top.pc) = "call"
    PROVE  Reads(Top.pc).means \in 1 .. n
<1> PICK i : i = Top.pc
    OBVIOUS
<1> PICK d : d = Meaning(i)
    OBVIOUS
<1> PICK k : k = e[Top.scope][ScopeOf(d)]
    OBVIOUS
<1>1. Op(i) \in Uses /\ d # 0
    BY DEF Uses, Static, UsesMean
<1>2. /\ code[i].means = d /\ Name(d) = Name(i) /\ d \in Binding /\ k \in DOMAIN t /\ d \in DOMAIN scopes[k].bound
      /\ Means(d) = scopes[k].bound[d]
    BY <1>1, UseIs
<1>3. Op(d) \in Functions
  <2>1. prog[i] \in Token /\ prog[d] \in Token
    <3>1. i \in 1 .. Len(prog) /\ d \in 1 .. Len(prog) /\ prog \in Seq(Token)
        BY <1>2 DEF Binding, Text, Static, Written
    <3> QED BY <3>1, ElementOfSeq
  <2>2. Name(i) \in Fun
      BY <2>1 DEF Token, Op, Name
  <2>3. Name(d) \in Fun /\ Name(d) \notin Data
      BY <1>2, <2>2 DEF Static
  <2>4. Op(d) \in Binders
      BY <1>2 DEF Binding
  <2> QED BY <2>1, <2>3, <2>4 DEF Token, Op, Name, Binders, Functions
<1>4. scopes[k].bound[d] \in 1 .. n
    BY <1>2, <1>3 DEF World, ScopesOK, Instance
<1>5. Reads(i).means = Means(code[i].means)
    BY DEF Reads
<1> QED BY <1>2, <1>4, <1>5

\* A closure is called, by the body or by the one who kept it.
LEMMA CallSteps ==
    ASSUME Static, NEW t, NEW e, NEW h, World(scopes, Len(closures), closures, cells, t, e, h),
           FramesOK(scopes, frames, t, e, h), Call
    PROVE  Sound(scopes', closures', cells', frames') /\ VmKeepsMeaning'
<1> PICK c : c = Reads(Top.pc).means
    OBVIOUS
<1> PICK n : n = Len(closures)
    OBVIOUS
<1>1. /\ At("call") /\ last' = Reads(Top.pc)
      /\ Push(c, WithTop(Next1)) \/ (frames' = << >> /\ scopes' = scopes)
      /\ closures' = closures /\ cells' = cells
    BY DEF Call, StopAll
<1>2. ScopesOK(scopes, n, t, e) /\ frames # << >> /\ World(scopes, n, closures, cells, t, e, h)
    BY <1>1 DEF At, World
<1>3. Top.pc \in Text /\ Op(Top.pc) = "call" /\ Op(Top.pc) \in Uses
  <2>1. Top.pc \in Text /\ Op(Top.pc) = "call"
      BY <1>1, <1>2, TopIs
  <2> QED BY <2>1 DEF Uses
<1>4. VmKeepsMeaning'
  <2>1. Reads(Top.pc).vm = Reads(Top.pc).means
      BY <1>2, <1>3, ReadsAgree
  <2> QED BY <1>1, <2>1 DEF VmKeepsMeaning
<1>5. CASE Push(c, WithTop(Next1))
  <2>1. c \in 1 .. Len(closures)
      BY <1>2, <1>3, CalledIs
  <2>2. FramesOK(scopes, WithTop(Next1), t, e, h)
      BY <1>2, <1>3, TopPasses
  <2>3. PICK t2, e2 : World(scopes', n, closures, cells, t2, e2, h) /\ FramesOK(scopes', frames', t2, e2, h)
      BY <1>2, <1>5, <2>1, <2>2, PushSound
  <2> QED BY <1>1, <1>4, <2>3 DEF Sound
<1>6. CASE frames' = << >> /\ scopes' = scopes
  <2>1. FramesOK(scopes, << >>, t, e, h)
      BY NoCalls
  <2> QED BY <1>1, <1>4, <1>6, <2>1 DEF Sound
<1> QED BY <1>1, <1>5, <1>6

LEMMA CallKeptSteps ==
    ASSUME Static, NEW t, NEW e, NEW h, World(scopes, Len(closures), closures, cells, t, e, h),
           FramesOK(scopes, frames, t, e, h), called \in Nat, CallKept
    PROVE  Sound(scopes', closures', cells', frames')
<1> PICK n : n = Len(closures)
    OBVIOUS
<1> PICK c : c = called + 1
    OBVIOUS
<1>1. /\ frames = << >> /\ called < n /\ closures' = closures /\ cells' = cells
      /\ Push(c, frames) \/ (frames' = frames /\ scopes' = scopes)
    BY DEF CallKept
<1>2. CASE Push(c, frames)
  <2>1. n \in Nat
      BY ListIs DEF World, ClosuresOK
  <2>2. c \in 1 .. Len(closures)
      BY <1>1, <2>1
  <2>3. PICK t2, e2 : World(scopes', n, closures, cells, t2, e2, h) /\ FramesOK(scopes', frames', t2, e2, h)
      BY <1>2, <2>2, PushSound
  <2> QED BY <1>1, <2>3 DEF Sound
<1>3. CASE frames' = frames /\ scopes' = scopes
    BY <1>1, <1>3 DEF Sound
<1> QED BY <1>1, <1>2, <1>3

\* Closing a scope takes names of the tree-walker's only.
LEMMA CloseAlike ==
    ASSUME NEW n, NEW t, NEW e, ScopesOK(scopes, n, t, e), NEW s
    PROVE  Alike(scopes, Close(s), t)
<1> PICK sc2 : sc2 = Close(s)
    OBVIOUS
<1>1. List(scopes) /\ Len(scopes) \in Nat /\ \A k \in 1 .. Len(scopes) : {"out", "bound"} \subseteq DOMAIN scopes[k]
    BY ListIs DEF ScopesOK
<1>2. CASE sc2 = scopes
    BY <1>1, <1>2 DEF Alike
<1>3. CASE sc2 # scopes
  <2> PICK x : x = [n2 \in DOMAIN scopes[s].names \ Doomed(s) |-> scopes[s].names[n2]]
      OBVIOUS
  <2> PICK r : r = [scopes[s] EXCEPT !.names = x]
      OBVIOUS
  <2>1. sc2 = Put(scopes, s, r)
      BY <1>3 DEF Close, Put
  <2>2. List(sc2) /\ Len(sc2) = Len(scopes) /\ \A k \in 1 .. Len(scopes) : sc2[k] = IF k = s THEN r ELSE scopes[k]
      BY <1>1, <2>1, ListPut
  <2>3. ASSUME NEW k \in 1 .. Len(scopes)
        PROVE  {"out", "bound"} \subseteq DOMAIN sc2[k] /\ sc2[k].out = scopes[k].out /\ sc2[k].bound = scopes[k].bound
    <3>1. CASE k = s
      <4>1. sc2[k] = [scopes[k] EXCEPT !.names = x]
          BY <2>2, <3>1
      <4> QED BY <1>1, <4>1
    <3>2. CASE k # s
        BY <1>1, <2>2, <3>2
    <3> QED BY <3>1, <3>2
  <2> QED BY <1>1, <2>2, <2>3 DEF Alike
<1> QED BY <1>2, <1>3

\* Scope.close takes names away, never bindings.
LEMMA CloseSound ==
    ASSUME Written, NEW n, NEW cl, NEW ce, NEW t, NEW e, NEW h, World(scopes, n, cl, ce, t, e, h), NEW s,
           NEW sc2, sc2 = Close(s)
    PROVE  /\ World(sc2, n, cl, ce, t, e, h) /\ ScopesOK(sc2, n, t, e) /\ Len(sc2) = Len(scopes)
           /\ \A frs : FramesOK(scopes, frs, t, e, h) => FramesOK(sc2, frs, t, e, h)
           /\ \A k \in DOMAIN t : sc2[k].out = scopes[k].out /\ sc2[k].bound = scopes[k].bound
<1>1. ScopesOK(scopes, n, t, e) /\ Alike(scopes, sc2, t) /\ Grows(scopes, t, e, h, t, e, h)
    BY CloseAlike, GrowsSelf DEF World
<1>2. World(sc2, n, cl, ce, t, e, h) /\ Untouched(scopes, sc2, t, Len(scopes) + 1)
    BY <1>1, WorldAlike
<1>3. \A frs : FramesOK(scopes, frs, t, e, h) => FramesOK(sc2, frs, t, e, h)
    BY <1>1, <1>2, FramesKept
<1>4. Len(scopes) \in Nat /\ List(scopes)
    BY <1>1, ListIs DEF ScopesOK
<1>5. \A k \in DOMAIN t : sc2[k].out = scopes[k].out /\ sc2[k].bound = scopes[k].bound
  <2>1. \A k \in DOMAIN t : k \in 1 .. Len(scopes) /\ k \in 1 .. Len(sc2)
    <3>1. Len(sc2) \in Nat /\ Len(scopes) <= Len(sc2)
        BY <1>1, ListIs DEF Alike
    <3> QED BY <1>1, <1>4, <3>1 DEF ScopesOK
  <2> QED BY <1>1, <2>1 DEF Alike
<1>6. Len(sc2) = Len(scopes)
  <2>1. CASE sc2 = scopes
      BY <2>1
  <2>2. CASE sc2 # scopes
    <3> PICK r : r = [scopes[s] EXCEPT !.names = [n2 \in DOMAIN @ \ Doomed(s) |-> @[n2]]]
        OBVIOUS
    <3>1. sc2 = Put(scopes, s, r)
        BY <2>2 DEF Close, Put
    <3> QED BY <1>4, <3>1, ListPut
  <2> QED BY <2>1, <2>2
<1> QED BY <1>1, <1>2, <1>3, <1>5, <1>6 DEF World

LEMMA ReturnSteps ==
    ASSUME Static, NEW t, NEW e, NEW h, World(scopes, Len(closures), closures, cells, t, e, h),
           FramesOK(scopes, frames, t, e, h), Return
    PROVE  Sound(scopes', closures', cells', frames')
<1> PICK s : s = Top.scope
    OBVIOUS
<1> PICK sc2 : sc2 = Close(s)
    OBVIOUS
<1>1. /\ frames # << >> /\ scopes' = sc2 /\ closures' = closures /\ cells' = cells
      /\ frames' = SubSeq(frames, 1, Len(frames) - 1)
    BY DEF Return
<1>2. Written
    BY DEF Static
<1>3. World(sc2, Len(closures), closures, cells, t, e, h) /\ FramesOK(sc2, frames, t, e, h)
    BY <1>2, CloseSound
<1>4. FramesOK(sc2, SubSeq(frames, 1, Len(frames) - 1), t, e, h)
    BY <1>1, <1>3, PopSteps
<1> QED BY <1>1, <1>3, <1>4 DEF Sound

\* The bodies of blocks and loops.
\* fr is where the newest call is, or may as well be.
IsNewest(sc, frs, fr, t, e, h) ==
    /\ FramesOK(sc, frs, t, e, h) /\ frs # << >> /\ IsFrame(fr)
    /\ FrameOK(sc, fr, Seen(fr.pc), t, e, h) /\ Base(fr, e) = Base(frs[Len(frs)], e)

\* Instances are scopes.
LEMMA InstanceIs ==
    ASSUME NEW sc, NEW n, NEW t, NEW e, ScopesOK(sc, n, t, e)
    PROVE  DOMAIN t \subseteq 1 .. Len(sc) /\ Len(sc) \in Nat /\ DOMAIN t \subseteq Nat
<1>1. Len(sc) \in Nat
    BY ListIs DEF ScopesOK
<1> QED BY <1>1 DEF ScopesOK

InNew(sc, n, fr, fr2, t, e, h, k) == FrameOK(sc, fr2, Seen(fr.pc), t, e, h) /\ Base(fr2, e) = Base(fr, e)

LEMMA OpensInNew ==
    ASSUME Written, NEW sc, NEW n, NEW fr, NEW fr2, NEW t, NEW e, NEW h, NEW k \in DOMAIN t,
           ScopesOK(sc, n, t, e), FrameOK(sc, fr, Seen(fr.pc), t, e, h),
           fr.pc \in Text, Op(fr.pc) \in {"if", "for"},
           t[k] = fr.pc, sc[k].out = fr.scope, DOMAIN sc[k].bound = {}, Opening(fr, fr2, k)
    PROVE  InNew(sc, n, fr, fr2, t, e, h, k)
BY FrameOpens DEF InNew

\* A block is entered.
LEMMA NewestEnters ==
    ASSUME Written, NEW sc, NEW n, NEW cl, NEW ce, NEW frs, NEW t, NEW e, NEW h, World(sc, n, cl, ce, t, e, h),
           NEW fr, IsNewest(sc, frs, fr, t, e, h), NEW b, b = fr.pc, b \in Text, Op(b) \in {"if", "for"},
           NEW r, r.out = fr.scope, {"out", "bound"} \subseteq DOMAIN r, DOMAIN r.bound = {},
           NEW fr2, Opening(fr, fr2, Len(sc) + 1)
    PROVE  \E t2, e2, k : /\ World(Append(sc, r), n, cl, ce, t2, e2, h)
                          /\ NewInstance(sc, Append(sc, r), r, t, e, h, t2, e2, b, k)
                          /\ FrameOK(Append(sc, r), fr2, Seen(b), t2, e2, h)
                          /\ Base(fr2, e2) = Base(fr, e)
<1> PICK sc2 : sc2 = Append(sc, r)
    OBVIOUS
<1> PICK D : D = Seen(b)
    OBVIOUS
<1> PICK s : s = fr.scope
    OBVIOUS
<1> PICK m : m = Len(sc) + 1
    OBVIOUS
<1>1. ScopesOK(sc, n, t, e) /\ FrameOK(sc, fr, D, t, e, h) /\ Op(b) \in Brackets
    BY DEF World, IsNewest, Brackets
<1>2. s \in DOMAIN t /\ t[s] = Inner(b) /\ b \in Places
    BY <1>1 DEF FrameOK
<1>3. PICK t2, e2, k : World(sc2, n, cl, ce, t2, e2, h) /\ NewInstance(sc, sc2, r, t, e, h, t2, e2, b, k)
    BY <1>1, <1>2, Opens
<1>4. /\ k = m /\ sc2[k] = r /\ k \in DOMAIN t2 /\ t2[k] = b
      /\ Grows(sc, t, e, h, t2, e2, h) /\ Untouched(sc, sc2, t, m)
    BY <1>3 DEF NewInstance
<1>5. m \in Nat /\ s < m
    BY <1>1, <1>2, InstanceIs
<1>6. FrameOK(sc2, fr, D, t2, e2, h)
    BY <1>1, <1>4, <1>5, FrameKept
<1>7. ScopesOK(sc2, n, t2, e2)
    BY <1>3 DEF World
<1>8. Opening(fr, fr2, k)
    BY <1>4
<1>9. FrameOK(sc2, fr2, D, t2, e2, h) /\ Base(fr2, e2) = Base(fr, e2)
  <2>1. FrameOK(sc2, fr, Seen(fr.pc), t2, e2, h) /\ fr.pc \in Text /\ Op(fr.pc) \in {"if", "for"} /\ t2[k] = fr.pc
        /\ sc2[k].out = fr.scope /\ DOMAIN sc2[k].bound = {} /\ k \in DOMAIN t2
      BY <1>4, <1>6
  <2>2. InNew(sc2, n, fr, fr2, t2, e2, h, k)
      BY <1>7, <1>8, <2>1, OpensInNew, Zenon
  <2> QED BY <2>2 DEF InNew
<1>10. Base(fr, e2) = Base(fr, e)
    BY <1>2, <1>4 DEF Base, Grows
<1> QED BY <1>3, <1>9, <1>10

\* A block or a loop is entered where fr is, in the new scope r.
Entering(sc, fr, r, fr2) ==
    /\ fr.pc \in Text /\ Op(fr.pc) \in {"if", "for"}
    /\ r.out = fr.scope /\ {"out", "bound"} \subseteq DOMAIN r /\ DOMAIN r.bound = {}
    /\ Opening(fr, fr2, Len(sc) + 1)
Entered(sc, n, cl, ce, frs, fr, r, fr2, t, e, h) ==
    \E t2, e2, k : /\ World(Append(sc, r), n, cl, ce, t2, e2, h)
                   /\ NewInstance(sc, Append(sc, r), r, t, e, h, t2, e2, fr.pc, k)
                   /\ FrameOK(Append(sc, r), fr2, Seen(fr.pc), t2, e2, h)
                   /\ Base(fr2, e2) = Base(fr, e)

LEMMA NewestEntered ==
    ASSUME Written, NEW sc, NEW n, NEW cl, NEW ce, NEW frs, NEW t, NEW e, NEW h, World(sc, n, cl, ce, t, e, h),
           NEW fr, IsNewest(sc, frs, fr, t, e, h), NEW r, NEW fr2, Entering(sc, fr, r, fr2)
    PROVE  Entered(sc, n, cl, ce, frs, fr, r, fr2, t, e, h)
<1>1. /\ fr.pc \in Text /\ Op(fr.pc) \in {"if", "for"}
      /\ r.out = fr.scope /\ {"out", "bound"} \subseteq DOMAIN r /\ DOMAIN r.bound = {}
      /\ Opening(fr, fr2, Len(sc) + 1)
    BY DEF Entering
<1>2. \E t2, e2, k : /\ World(Append(sc, r), n, cl, ce, t2, e2, h)
                     /\ NewInstance(sc, Append(sc, r), r, t, e, h, t2, e2, fr.pc, k)
                     /\ FrameOK(Append(sc, r), fr2, Seen(fr.pc), t2, e2, h)
                     /\ Base(fr2, e2) = Base(fr, e)
    BY <1>1, NewestEnters
<1> QED BY <1>2 DEF Entered

LEMMA NewestSteps ==
    ASSUME Static, NEW sc, NEW sc2, NEW n, NEW t, NEW e, NEW h, NEW t2, NEW e2, NEW h2, ScopesOK(sc, n, t, e),
           NEW fr, NEW fr2, IsNewest(sc, frames, fr, t, e, h), Grows(sc, t, e, h, t2, e2, h2),
           Untouched(sc, sc2, t, Len(sc) + 1),
           FrameOK(sc2, fr2, Seen(fr2.pc), t2, e2, h2), Base(fr2, e2) = Base(fr, e)
    PROVE  FramesOK(sc2, WithTop(fr2), t2, e2, h2)
<1> PICK m : m = Base(frames[Len(frames)], e)
    OBVIOUS
<1>1. FramesOK(sc, frames, t, e, h) /\ frames # << >> /\ Base(fr2, e2) = m
    BY DEF IsNewest
<1>2. Written /\ Top = frames[Len(frames)] /\ Base(Top, e) \in DOMAIN t
    BY <1>1, TopIs
<1>3. m \in 1 .. Len(sc) /\ Len(sc) \in Nat /\ DOMAIN t \subseteq Nat
    BY <1>2, InstanceIs
<1>4. Untouched(sc, sc2, t, m)
  <2>1. \A k \in DOMAIN t : k < m => k < Len(sc) + 1
      BY <1>3
  <2> QED BY <2>1 DEF Untouched
<1>5. FramesOK(sc2, [frames EXCEPT ![Len(frames)] = fr2], t2, e2, h2)
    BY <1>1, <1>2, <1>4, TopSteps
<1> QED BY <1>5 DEF WithTop

LEMMA TopNewest ==
    ASSUME Static, NEW sc, NEW n, NEW t, NEW e, NEW h, ScopesOK(sc, n, t, e),
           FramesOK(sc, frames, t, e, h), frames # << >>
    PROVE  IsNewest(sc, frames, Top, t, e, h)
<1>1. Top = frames[Len(frames)] /\ FrameOK(sc, Top, Seen(Top.pc), t, e, h) /\ IsFrame(Top)
    BY TopIs
<1> QED BY <1>1 DEF IsNewest

LEMMA EnterBlockSteps ==
    ASSUME Static, NEW t, NEW e, NEW h, World(scopes, Len(closures), closures, cells, t, e, h),
           FramesOK(scopes, frames, t, e, h), EnterBlock
    PROVE  Sound(scopes', closures', cells', frames')
<1> PICK i : i = Top.pc
    OBVIOUS
<1> PICK s : s = Top.scope
    OBVIOUS
<1> PICK r : r = NewScope(s, s)
    OBVIOUS
<1> PICK n : n = Len(closures)
    OBVIOUS
<1> PICK sc2 : sc2 = Append(scopes, r)
    OBVIOUS
<1> PICK fr2 : fr2 = [Next1 EXCEPT !.scope = Len(scopes) + 1]
    OBVIOUS
<1>1. /\ At("if") /\ scopes' = sc2 /\ frames' = WithTop(fr2) /\ closures' = closures /\ cells' = cells
    BY DEF EnterBlock
<1>2. ScopesOK(scopes, n, t, e) /\ frames # << >> /\ World(scopes, n, closures, cells, t, e, h) /\ Written
    BY <1>1 DEF At, World, Static
<1>3. i \in Text /\ Op(i) = "if" /\ IsFrame(Top) /\ i \in Nat
    BY <1>1, <1>2, TopIs
<1>4. IsNewest(scopes, frames, Top, t, e, h)
    BY <1>2, TopNewest
<1>5. Opening(Top, fr2, Len(scopes) + 1) /\ fr2.pc = i + 1
    BY <1>3 DEF Opening, IsFrame, Next1, Goto
<1>6. r.out = s /\ {"out", "bound"} \subseteq DOMAIN r /\ DOMAIN r.bound = {}
    BY NewScopeIs
<1>7. PICK t2, e2, k : /\ World(sc2, n, closures, cells, t2, e2, h)
                       /\ NewInstance(scopes, sc2, r, t, e, h, t2, e2, i, k)
                       /\ FrameOK(sc2, fr2, Seen(i), t2, e2, h)
                       /\ Base(fr2, e2) = Base(Top, e)
  <2>1. Entering(scopes, Top, r, fr2)
      BY <1>3, <1>5, <1>6 DEF Entering
  <2>2. Entered(scopes, n, closures, cells, frames, Top, r, fr2, t, e, h)
      BY <1>2, <1>4, <2>1, NewestEntered, Zenon
  <2> QED BY <2>2 DEF Entered
<1>8. Seen(i + 1) = Seen(i)
  <2>1. Op(i) \in Brackets /\ Op(i) \notin Binders
      BY <1>3 DEF Brackets, Binders
  <2> QED BY <1>2, <1>3, <2>1, SeenAfterBracket
<1>9. Grows(scopes, t, e, h, t2, e2, h) /\ Untouched(scopes, sc2, t, Len(scopes) + 1)
    BY <1>7 DEF NewInstance
<1>10. FrameOK(sc2, fr2, Seen(fr2.pc), t2, e2, h)
    BY <1>5, <1>7, <1>8
<1>11. FramesOK(sc2, WithTop(fr2), t2, e2, h)
    BY <1>2, <1>4, <1>7, <1>9, <1>10, NewestSteps
<1>12. World(scopes', Len(closures'), closures', cells', t2, e2, h) /\ FramesOK(scopes', frames', t2, e2, h)
    BY <1>1, <1>7, <1>11
<1> QED BY <1>12 DEF Sound

\* A block is left: fr2 is fr in the scope outside, at the loop or past its end.
Leaving(sc, fr, fr2) ==
    /\ IsFrame(fr2) /\ fr2.scope = sc[fr.scope].out /\ fr2.slots = fr.slots /\ fr2.cells = fr.cells
    /\ fr2.captured = fr.captured /\ fr2.pc \in {Inner(fr.pc), fr.pc + 1}

\* A block is left.
LEMMA NewestLeaves ==
    ASSUME Static, NEW sc, NEW n, NEW t, NEW e, NEW h, ScopesOK(sc, n, t, e),
           FramesOK(sc, frames, t, e, h), frames # << >>, Top.pc \in Text, Op(Top.pc) = "end",
           Op(Inner(Top.pc)) \in {"if", "for"}, NEW fr2, Leaving(sc, Top, fr2)
    PROVE  IsNewest(sc, frames, fr2, t, e, h)
<1>1. /\ Written /\ EndsClose /\ Top = frames[Len(frames)] /\ FrameOK(sc, Top, Seen(Top.pc), t, e, h)
    BY TopIs DEF Static, AllClosed
<1>2. /\ IsFrame(fr2) /\ fr2.scope = sc[Top.scope].out /\ fr2.slots = Top.slots /\ fr2.cells = Top.cells
      /\ fr2.captured = Top.captured /\ fr2.pc \in {Inner(Top.pc), Top.pc + 1}
    BY DEF Leaving
<1>3. FrameOK(sc, fr2, Seen(fr2.pc), t, e, h) /\ Base(fr2, e) = Base(Top, e)
  <2>1. Written /\ EndsClose /\ FrameOK(sc, Top, Seen(Top.pc), t, e, h)
      BY <1>1
  <2> QED BY <1>2, <2>1, FrameLeaves
<1> QED BY <1>1, <1>2, <1>3 DEF IsNewest

LEMMA LeaveSteps ==
    ASSUME Static, NEW t, NEW e, NEW h, World(scopes, Len(closures), closures, cells, t, e, h),
           FramesOK(scopes, frames, t, e, h), At("end"), Op(Inner(Top.pc)) \in {"if", "for"},
           LeaveBlock, closures' = closures
    PROVE  Sound(scopes', closures', cells', frames')
<1> PICK s : s = Top.scope
    OBVIOUS
<1> PICK sc2 : sc2 = Close(s)
    OBVIOUS
<1> PICK fr2 : fr2 = [Next1 EXCEPT !.scope = Out(s)]
    OBVIOUS
<1> PICK n : n = Len(closures)
    OBVIOUS
<1>1. scopes' = sc2 /\ frames' = WithTop(fr2) /\ cells' = cells
    BY DEF LeaveBlock
<1>2. Written /\ frames # << >> /\ World(scopes, n, closures, cells, t, e, h) /\ ScopesOK(scopes, n, t, e)
    BY DEF At, Static, World
<1>3. Top.pc \in Text /\ Op(Top.pc) = "end" /\ IsFrame(Top) /\ s \in DOMAIN t
    BY <1>2, TopIs
<1>4. /\ World(sc2, n, closures, cells, t, e, h) /\ ScopesOK(sc2, n, t, e)
      /\ FramesOK(sc2, frames, t, e, h) /\ sc2[s].out = scopes[s].out
    BY <1>2, <1>3, CloseSound
<1>5. Leaving(sc2, Top, fr2)
    BY <1>3, <1>4 DEF Leaving, IsFrame, Next1, Goto, Out
<1>6. IsNewest(sc2, frames, fr2, t, e, h)
    BY <1>2, <1>3, <1>4, <1>5, NewestLeaves
<1>7. Grows(sc2, t, e, h, t, e, h) /\ Untouched(sc2, sc2, t, Len(sc2) + 1)
    BY GrowsSelf DEF Untouched
<1>8. FrameOK(sc2, fr2, Seen(fr2.pc), t, e, h)
    BY <1>6 DEF IsNewest
<1>9. FramesOK(sc2, WithTop(fr2), t, e, h)
    BY <1>4, <1>6, <1>7, <1>8, NewestSteps
<1>10. World(scopes', Len(closures'), closures', cells', t, e, h) /\ FramesOK(scopes', frames', t, e, h)
    BY <1>1, <1>4, <1>9
<1> QED BY <1>10 DEF Sound

\* A loop's turn: its scope is left, and the next one opened with the variable
\* bound.
LEMMA GrowsOn ==
    ASSUME NEW sc, NEW sc1, NEW sc2, NEW m, NEW t, NEW e, NEW h, NEW t2, NEW e2, NEW h2,
           \A k \in DOMAIN t : k < m, Grows(sc, t, e, h, t2, e2, h), Untouched(sc, sc1, t, m),
           Grows(sc1, t2, e2, h, t2, e2, h2), Untouched(sc1, sc2, t2, m)
    PROVE  Grows(sc, t, e, h, t2, e2, h2) /\ Untouched(sc, sc2, t, m)
<1>1. ASSUME NEW k \in DOMAIN t
      PROVE  /\ k \in DOMAIN t2 /\ t2[k] = t[k] /\ e2[k] = e[k] /\ k < m
             /\ DOMAIN sc1[k].bound = DOMAIN sc[k].bound /\ DOMAIN sc2[k].bound = DOMAIN sc[k].bound
    BY DEF Grows, Untouched
<1>2. ASSUME NEW k \in DOMAIN t, NEW d \in DOMAIN sc[k].bound
      PROVE  /\ Boxed(d) => h2[<<k, d>>] = h[<<k, d>>]
             /\ ~Boxed(d) => sc2[k].bound[d] = sc[k].bound[d]
  <2>1. k \in DOMAIN t2 /\ k < m /\ d \in DOMAIN sc1[k].bound
      BY <1>1
  <2>2. Boxed(d) => h2[<<k, d>>] = h[<<k, d>>]
      BY <2>1 DEF Grows
  <2>3. ~Boxed(d) => sc2[k].bound[d] = sc1[k].bound[d] /\ sc1[k].bound[d] = sc[k].bound[d]
      BY <2>1 DEF Untouched
  <2> QED BY <2>2, <2>3
<1>3. Grows(sc, t, e, h, t2, e2, h2)
    BY <1>1, <1>2 DEF Grows
<1>4. Untouched(sc, sc2, t, m)
    BY <1>1, <1>2 DEF Untouched
<1> QED BY <1>3, <1>4

\* The variable of a loop is bound in its frame g1, after the loop's state.
LEMMA LoopHolds ==
    ASSUME Static, NEW i \in Binding, Op(i) = "for", NEW g1, IsFrame(g1), NEW g2,
           g2 = [g1 EXCEPT !.slots = Over(@, LoopState(i), None)], NEW v, NEW ca, ca = Len(cells) + 1
    PROVE  Holding(g1, BindFrame(g2, i, v), i, v, ca) /\ BindFrame(g2, i, v).pc = g1.pc
           /\ (InCell(i) <=> Boxed(i))
<1> PICK c : c = Over(g1.slots, LoopState(i), None)
    OBVIOUS
<1> PICK fr2 : fr2 = BindFrame(g2, i, v)
    OBVIOUS
<1>1. g2 = [g1 EXCEPT !.slots = c]
    OBVIOUS
<1>2. /\ IsFrame(g2) /\ g2.pc = g1.pc /\ g2.scope = g1.scope /\ g2.captured = g1.captured
      /\ g2.cells = g1.cells /\ g2.slots = c
    BY <1>1 DEF IsFrame
<1>3. Holding(g2, fr2, i, v, ca) /\ fr2.pc = g2.pc /\ (InCell(i) <=> Boxed(i))
    BY <1>2, BindFrameIs
<1>4. LoopState(i) \subseteq Slots(i)
  <2>1. Written /\ code[i].first = NextSlot(i)
      BY DEF Static, Coded, Binding
  <2>2. LoopState(i) = NextSlot(i) .. NextSlot(i) + (IF Boxed(i) THEN 2 ELSE 1)
      BY <1>3, <2>1 DEF LoopState
  <2> QED BY <2>1, <2>2, OwnIs
<1>5. \A x \in DOMAIN g1.slots : x \notin Slots(i) => x \in DOMAIN c /\ c[x] = g1.slots[x]
    BY <1>4 DEF Over
<1>6. Holding(g1, fr2, i, v, ca)
    BY <1>2, <1>3, <1>5 DEF Holding
<1> QED BY <1>2, <1>3, <1>6

HoldsTurn(g1, i, v) ==
    LET fr2 == BindFrame([g1 EXCEPT !.slots = Over(@, LoopState(i), None)], i, v) IN
    Holding(g1, fr2, i, v, Len(cells) + 1) /\ fr2.pc = g1.pc /\ (InCell(i) <=> Boxed(i))

LEMMA LoopHeld ==
    ASSUME Static, NEW i \in Binding, Op(i) = "for", NEW g1, IsFrame(g1), NEW v
    PROVE  HoldsTurn(g1, i, v)
BY LoopHolds DEF HoldsTurn

LEMMA LoopTextIs ==
    ASSUME Static, NEW i \in Text, Op(i) = "for"
    PROVE  /\ Written /\ i \in Binding /\ i \in Nat /\ ScopeOf(i) = i /\ i + 1 \in Places
           /\ Seen(i + 1) = Seen(i) \cup {i} /\ FunOf(i) = FunOf(i + 1)
<1>1. Written /\ Op(i) \in Brackets /\ Op(i) \in Binders /\ i \in Binding
    BY DEF Static, Brackets, Binders, Binding
<1>2. i \in Nat /\ ScopeOf(i) = i
    BY <1>1, SizeIs, ScopeIs DEF Text
<1>3. i + 1 \in Places /\ Around(i + 1) = Around(i) \cup {i} /\ Seen(i + 1) = Seen(i) \cup {i}
    BY <1>1, AfterBracket, SeenAfterBracket
<1>4. FunOf(i + 1) = FunOf(i)
    BY <1>1, <1>3, FunOfBlock
<1> QED BY <1>1, <1>2, <1>3, <1>4

\* The variable of the loop at i is bound in its new instance k, and the frame
\* g1 there is fr2 then.
LEMMA LoopBinds ==
    ASSUME Static, NEW i \in Text, Op(i) = "for", NEW sc, NEW n, NEW cl, NEW t, NEW e, NEW h,
           World(sc, n, cl, cells, t, e, h), NEW k \in DOMAIN t, t[k] = i, DOMAIN sc[k].bound = {},
           NEW g1, FrameOK(sc, g1, Seen(i), t, e, h), g1.scope = k, g1.pc = i + 1,
           NEW v, NEW fr2, Holding(g1, fr2, i, v, Len(cells) + 1), fr2.pc = i + 1, InCell(i) <=> Boxed(i)
    PROVE  \E h2 : LET sc2 == BindScope(sc, k, i, v) IN
               /\ World(sc2, n, cl, BindCells(i, v), t, e, h2)
               /\ Grows(sc, t, e, h, t, e, h2) /\ Untouched(sc, sc2, t, k)
               /\ FrameOK(sc2, fr2, Seen(fr2.pc), t, e, h2) /\ Base(fr2, e) = Base(g1, e)
<1> PICK sc2 : sc2 = BindScope(sc, k, i, v)
    OBVIOUS
<1> PICK ce2 : ce2 = BindCells(i, v)
    OBVIOUS
<1> PICK ca : ca = Len(cells) + 1
    OBVIOUS
<1> PICK p : p = <<k, i>>
    OBVIOUS
<1> PICK h2 : h2 = IF Boxed(i) THEN Over(h, {p}, ca) ELSE h
    OBVIOUS
<1> PICK D : D = Seen(i)
    OBVIOUS
<1>1. /\ Written /\ i \in Binding /\ i \in Nat /\ ScopeOf(i) = i /\ i + 1 \in Places
      /\ Seen(i + 1) = D \cup {i} /\ FunOf(i) = FunOf(i + 1)
    BY LoopTextIs
<1>2. ScopesOK(sc, n, t, e) /\ List(sc) /\ k \in 1 .. Len(sc)
      /\ \A x \in 1 .. Len(sc) : {"out", "bound"} \subseteq DOMAIN sc[x]
  <2>1. ScopesOK(sc, n, t, e) /\ Len(sc) \in Nat
      BY ListIs DEF World, ScopesOK
  <2> QED BY <2>1 DEF ScopesOK
<1>3. Bound(sc, sc2, k, i, v)
    BY <1>2, BindIs
<1>4. CellBinds(cells, ce2, h, h2, k, i, v)
    BY DEF BindCells, CellBinds
<1>5. ScopeOf(i) = t[k] /\ i \notin DOMAIN sc[k].bound /\ Op(i) \notin Functions
    BY <1>1 DEF Functions
<1>6. World(sc2, n, cl, ce2, t, e, h2) /\ Grows(sc, t, e, h, t, e, h2) /\ Untouched(sc, sc2, t, k)
  <2>1. Op(i) \in Functions => v \in 1 .. n
      BY <1>5
  <2> QED BY <1>1, <1>3, <1>4, <1>5, <2>1, WorldBinds
<1>7. Boxed(i) => CellAt(h2, k, i, ca)
  <2>1. Boxed(i) => h2[p] = ca
      BY DEF Over
  <2> QED BY <2>1 DEF CellAt
<1>8. FrameOK(sc2, fr2, D \cup {i}, t, e, h2) /\ Base(fr2, e) = Base(g1, e)
  <2>1. /\ ScopeOf(i) = t[g1.scope] /\ i \notin DOMAIN sc[g1.scope].bound /\ FunOf(i) = FunOf(g1.pc)
        /\ Bound(sc, sc2, g1.scope, i, v) /\ (Boxed(i) => CellAt(h2, g1.scope, i, ca))
        /\ Holding(g1, fr2, i, v, ca)
      BY <1>1, <1>3, <1>5, <1>7
  <2>2. /\ fr2.pc \in Places /\ Around(fr2.pc) = Around(g1.pc) /\ g1.pc <= fr2.pc /\ i < fr2.pc
        /\ D \subseteq Seen(fr2.pc) /\ i \in Seen(fr2.pc)
      BY <1>1
  <2> QED BY <1>1, <1>2, <1>6, <2>1, <2>2, FrameBinds
<1>9. FrameOK(sc2, fr2, Seen(fr2.pc), t, e, h2)
    BY <1>1, <1>8
<1> QED BY <1>6, <1>8, <1>9

LoopBound(i, sc, n, cl, k, g1, v, fr2, t, e, h) ==
    \E h2 : LET sc2 == BindScope(sc, k, i, v) IN
        /\ World(sc2, n, cl, BindCells(i, v), t, e, h2)
        /\ Grows(sc, t, e, h, t, e, h2) /\ Untouched(sc, sc2, t, k)
        /\ FrameOK(sc2, fr2, Seen(fr2.pc), t, e, h2) /\ Base(fr2, e) = Base(g1, e)
LoopBinding(i, sc, k, g1, v, fr2, t) ==
    /\ k \in DOMAIN t /\ t[k] = i /\ DOMAIN sc[k].bound = {} /\ g1.scope = k /\ g1.pc = i + 1
    /\ Holding(g1, fr2, i, v, Len(cells) + 1) /\ fr2.pc = i + 1 /\ (InCell(i) <=> Boxed(i))

LEMMA LoopIsBound ==
    ASSUME Static, NEW i \in Text, Op(i) = "for", NEW sc, NEW n, NEW cl, NEW t, NEW e, NEW h,
           World(sc, n, cl, cells, t, e, h), NEW k, NEW g1, NEW v, NEW fr2,
           LoopBinding(i, sc, k, g1, v, fr2, t), FrameOK(sc, g1, Seen(i), t, e, h)
    PROVE  LoopBound(i, sc, n, cl, k, g1, v, fr2, t, e, h)
<1>1. /\ k \in DOMAIN t /\ t[k] = i /\ DOMAIN sc[k].bound = {} /\ g1.scope = k /\ g1.pc = i + 1
      /\ Holding(g1, fr2, i, v, Len(cells) + 1) /\ fr2.pc = i + 1 /\ (InCell(i) <=> Boxed(i))
    BY DEF LoopBinding
<1>2. \E h2 : LET sc2 == BindScope(sc, k, i, v) IN
               /\ World(sc2, n, cl, BindCells(i, v), t, e, h2)
               /\ Grows(sc, t, e, h, t, e, h2) /\ Untouched(sc, sc2, t, k)
               /\ FrameOK(sc2, fr2, Seen(fr2.pc), t, e, h2) /\ Base(fr2, e) = Base(g1, e)
    BY <1>1, LoopBinds
<1> QED BY <1>2 DEF LoopBound

Later(t, m) == \A k \in DOMAIN t : k < m
GrownOn(sc, sc1, sc2, m, t, e, h, t2, e2, h2) == Grows(sc, t, e, h, t2, e2, h2) /\ Untouched(sc, sc2, t, m)

LEMMA GrownBoth ==
    ASSUME NEW sc, NEW sc1, NEW sc2, NEW m, NEW t, NEW e, NEW h, NEW t2, NEW e2, NEW h2,
           Later(t, m), Grows(sc, t, e, h, t2, e2, h), Untouched(sc, sc1, t, m),
           Grows(sc1, t2, e2, h, t2, e2, h2), Untouched(sc1, sc2, t2, m)
    PROVE  GrownOn(sc, sc1, sc2, m, t, e, h, t2, e2, h2)
<1>1. \A k \in DOMAIN t : k < m
    BY DEF Later
<1>2. Grows(sc, t, e, h, t2, e2, h2) /\ Untouched(sc, sc2, t, m)
    BY <1>1, GrowsOn
<1> QED BY <1>2 DEF GrownOn

LEMMA TurnSteps ==
    ASSUME Static, NEW sc, NEW t, NEW e, NEW h, World(sc, Len(closures), closures, cells, t, e, h),
           NEW fr, IsNewest(sc, frames, fr, t, e, h), NEW i \in Text, Op(i) = "for", fr.pc = i,
           NEW out, fr.scope = out, fr.slots = Top.slots, fr.cells = Top.cells, fr.captured = Top.captured,
           IsFrame(Top), NEW turn, Turn(i, sc, out, turn), closures' = closures
    PROVE  Sound(scopes', closures', cells', frames')
<1> PICK n : n = Len(closures)
    OBVIOUS
<1> PICK r : r = [NewScope(out, out) EXCEPT !.turn = turn]
    OBVIOUS
<1> PICK sc1 : sc1 = Append(sc, r)
    OBVIOUS
<1> PICK m : m = Len(sc) + 1
    OBVIOUS
<1> PICK g1 : g1 = [Goto(i + 1) EXCEPT !.scope = m]
    OBVIOUS
<1> PICK g2 : g2 = [g1 EXCEPT !.slots = Over(@, LoopState(i), None)]
    OBVIOUS
<1> PICK v : v = clock
    OBVIOUS
<1> PICK fr2 : fr2 = BindFrame(g2, i, v)
    OBVIOUS
<1>1. /\ IsFrame(g1) /\ g1.pc = i + 1 /\ g1.scope = m /\ g1.slots = Top.slots /\ g1.cells = Top.cells
      /\ g1.captured = Top.captured
    BY DEF Goto, IsFrame
<1>2. /\ scopes' = BindScope(sc1, m, i, v) /\ cells' = BindCells(i, v) /\ frames' = WithTop(fr2)
  <2>1. g2 = [Goto(i + 1) EXCEPT !.scope = Len(sc) + 1, !.slots = Over(@, LoopState(i), None)]
      BY DEF Goto
  <2> QED BY <2>1 DEF Turn
<1>3. r.out = out /\ {"out", "bound"} \subseteq DOMAIN r /\ DOMAIN r.bound = {}
    BY DEF NewScope
<1>4. Written /\ World(sc, n, closures, cells, t, e, h) /\ ScopesOK(sc, n, t, e)
    BY DEF Static, World
<1>5. Entered(sc, n, closures, cells, frames, fr, r, g1, t, e, h)
  <2>1. Entering(sc, fr, r, g1)
      BY <1>1, <1>3 DEF Entering, Opening
  <2> QED BY <1>4, <2>1, NewestEntered, Zenon
<1>6. PICK t2, e2, k : /\ World(sc1, n, closures, cells, t2, e2, h)
                       /\ NewInstance(sc, sc1, r, t, e, h, t2, e2, i, k)
                       /\ FrameOK(sc1, g1, Seen(i), t2, e2, h) /\ Base(g1, e2) = Base(fr, e)
    BY <1>5 DEF Entered
<1>7. /\ k = m /\ sc1[k] = r /\ k \in DOMAIN t2 /\ t2[k] = i
      /\ Grows(sc, t, e, h, t2, e2, h) /\ Untouched(sc, sc1, t, m)
    BY <1>6 DEF NewInstance
<1>8. i \in Binding /\ Holding(g1, fr2, i, v, Len(cells) + 1) /\ fr2.pc = g1.pc /\ (InCell(i) <=> Boxed(i))
  <2>1. i \in Binding
      BY LoopTextIs
  <2>2. HoldsTurn(g1, i, v)
      BY <1>1, <2>1, LoopHeld
  <2> QED BY <2>1, <2>2 DEF HoldsTurn
<1> PICK sc2 : sc2 = BindScope(sc1, m, i, v)
    OBVIOUS
<1> PICK ce2 : ce2 = BindCells(i, v)
    OBVIOUS
<1>9. PICK h2 : /\ World(sc2, n, closures, ce2, t2, e2, h2)
                /\ Grows(sc1, t2, e2, h, t2, e2, h2) /\ Untouched(sc1, sc2, t2, m)
                /\ FrameOK(sc2, fr2, Seen(fr2.pc), t2, e2, h2) /\ Base(fr2, e2) = Base(g1, e2)
  <2>1. LoopBinding(i, sc1, m, g1, v, fr2, t2)
      BY <1>1, <1>3, <1>7, <1>8 DEF LoopBinding
  <2>2. LoopBound(i, sc1, n, closures, m, g1, v, fr2, t2, e2, h)
      BY <1>6, <2>1, LoopIsBound, Zenon
  <2> QED BY <2>2 DEF LoopBound
<1>10. Grows(sc, t, e, h, t2, e2, h2) /\ Untouched(sc, sc2, t, m)
  <2>1. Later(t, m)
    <3>1. DOMAIN t \subseteq 1 .. Len(sc) /\ Len(sc) \in Nat
        BY <1>4, InstanceIs
    <3> QED BY <3>1 DEF Later
  <2>2. Grows(sc, t, e, h, t2, e2, h) /\ Untouched(sc, sc1, t, m)
        /\ Grows(sc1, t2, e2, h, t2, e2, h2) /\ Untouched(sc1, sc2, t2, m)
      BY <1>7, <1>9
  <2>3. GrownOn(sc, sc1, sc2, m, t, e, h, t2, e2, h2)
      BY <2>1, <2>2, GrownBoth, Zenon
  <2> QED BY <2>3 DEF GrownOn
<1>11. FramesOK(sc2, WithTop(fr2), t2, e2, h2)
  <2>1. Untouched(sc, sc2, t, Len(sc) + 1) /\ Base(fr2, e2) = Base(fr, e)
      BY <1>6, <1>9, <1>10
  <2> QED BY <1>4, <1>9, <1>10, <2>1, NewestSteps
<1>12. World(scopes', Len(closures'), closures', cells', t2, e2, h2) /\ FramesOK(scopes', frames', t2, e2, h2)
    BY <1>2, <1>9, <1>11
<1> QED BY <1>12 DEF Sound

\* fr is at the loop i, where another turn may start.
AtLoop(sc, fr, i, t, e, h) ==
    /\ IsNewest(sc, frames, fr, t, e, h) /\ IsFrame(Top) /\ fr.pc = i /\ i \in Text /\ Op(i) = "for"
    /\ fr.slots = Top.slots /\ fr.cells = Top.cells /\ fr.captured = Top.captured
TurnSound == Sound(scopes', closures', cells', frames')

LEMMA TurnIsSound ==
    ASSUME Static, NEW sc, NEW t, NEW e, NEW h, World(sc, Len(closures), closures, cells, t, e, h),
           NEW fr, NEW i, AtLoop(sc, fr, i, t, e, h), NEW out, out = fr.scope, NEW turn,
           Turn(i, sc, out, turn), closures' = closures
    PROVE  TurnSound
<1>1. /\ IsNewest(sc, frames, fr, t, e, h) /\ IsFrame(Top) /\ fr.pc = i /\ i \in Text /\ Op(i) = "for"
      /\ fr.slots = Top.slots /\ fr.cells = Top.cells /\ fr.captured = Top.captured
    BY DEF AtLoop
<1>2. Sound(scopes', closures', cells', frames')
    BY <1>1, TurnSteps
<1> QED BY <1>2 DEF TurnSound

LEMMA EnterLoopSteps ==
    ASSUME Static, NEW t, NEW e, NEW h, World(scopes, Len(closures), closures, cells, t, e, h),
           FramesOK(scopes, frames, t, e, h), EnterLoop
    PROVE  Sound(scopes', closures', cells', frames')
<1> PICK n : n = Len(closures)
    OBVIOUS
<1> PICK i : i = Top.pc
    OBVIOUS
<1>1. At("for") /\ Turn(i, scopes, Top.scope, 1) /\ closures' = closures
    BY DEF EnterLoop
<1>2. frames # << >> /\ World(scopes, n, closures, cells, t, e, h) /\ ScopesOK(scopes, n, t, e)
    BY <1>1 DEF At, World
<1>3. i \in Text /\ Op(i) = "for" /\ IsFrame(Top)
    BY <1>1, <1>2, TopIs
<1>4. IsNewest(scopes, frames, Top, t, e, h)
    BY <1>2, TopNewest
<1>5. AtLoop(scopes, Top, i, t, e, h)
    BY <1>3, <1>4 DEF AtLoop
<1>6. TurnSound
    BY <1>1, <1>5, TurnIsSound
<1> QED BY <1>6 DEF TurnSound

LEMMA EndBlockSteps ==
    ASSUME Static, NEW t, NEW e, NEW h, World(scopes, Len(closures), closures, cells, t, e, h),
           FramesOK(scopes, frames, t, e, h), EndBlock
    PROVE  Sound(scopes', closures', cells', frames')
<1> PICK n : n = Len(closures)
    OBVIOUS
<1> PICK s : s = Top.scope
    OBVIOUS
<1> PICK i : i = code[Top.pc].opened
    OBVIOUS
<1> PICK turn : turn = scopes[s].turn + 1
    OBVIOUS
<1>1. /\ At("end") /\ Op(i) \in {"if", "for"} /\ closures' = closures
      /\ \/ Op(i) = "for" /\ Turn(i, Close(s), Out(s), turn)
         \/ LeaveBlock
    BY DEF EndBlock
<1>2. frames # << >> /\ World(scopes, n, closures, cells, t, e, h) /\ ScopesOK(scopes, n, t, e) /\ Written /\ EndsClose
    BY <1>1 DEF At, World, Static, AllClosed
<1>3. Top.pc \in Text /\ Op(Top.pc) = "end" /\ IsFrame(Top) /\ s \in DOMAIN t
    BY <1>1, <1>2, TopIs
<1>4. i = Inner(Top.pc) /\ i \in Text
  <2>1. i = Inner(Top.pc)
      BY <1>3 DEF Static, Coded
  <2> QED BY <2>1, <1>2, <1>3, EndIs
<1>5. CASE LeaveBlock
    BY <1>1, <1>4, <1>5, LeaveSteps
<1>6. CASE Op(i) = "for" /\ Turn(i, Close(s), Out(s), turn)
  <2> PICK sc : sc = Close(s)
      OBVIOUS
  <2> PICK out : out = Out(s)
      OBVIOUS
  <2> PICK fr : fr = [Top EXCEPT !.pc = i, !.scope = out]
      OBVIOUS
  <2>1. /\ World(sc, n, closures, cells, t, e, h) /\ ScopesOK(sc, n, t, e)
        /\ FramesOK(sc, frames, t, e, h) /\ sc[s].out = scopes[s].out
      BY <1>2, <1>3, CloseSound
  <2>2. /\ IsFrame(fr) /\ fr.pc = i /\ fr.scope = out /\ fr.slots = Top.slots /\ fr.cells = Top.cells
        /\ fr.captured = Top.captured
      BY <1>3 DEF IsFrame
  <2>3. Leaving(sc, Top, fr)
      BY <1>4, <2>1, <2>2 DEF Leaving, Out
  <2>4. IsNewest(sc, frames, fr, t, e, h)
      BY <1>1, <1>2, <1>3, <1>4, <2>1, <2>3, NewestLeaves
  <2>5. AtLoop(sc, fr, i, t, e, h)
      BY <1>3, <1>4, <1>6, <2>2, <2>4 DEF AtLoop
  <2>6. Turn(i, sc, out, turn) /\ out = fr.scope
      BY <1>6, <2>2
  <2>7. TurnSound
      BY <1>1, <2>1, <2>5, <2>6, TurnIsSound
  <2> QED BY <2>7 DEF TurnSound
<1> QED BY <1>1, <1>5, <1>6

--------------------------------------------------------------------------------
(* Closures.                                                                  *)
LEMMA HoldsIs ==
    ASSUME Static, NEW sc, NEW n, NEW t, NEW e, NEW h, ScopesOK(sc, n, t, e),
           FramesOK(sc, frames, t, e, h), frames # << >>, Top.pc \in Text, Op(Top.pc) \in Functions,
           NEW d \in Captures(Top.pc)
    PROVE  d \in Seen(Top.pc) /\ Boxed(d) /\ Holds(Top.pc)[d] = h[<<e[Top.scope][ScopeOf(d)], d>>]
<1> PICK i : i = Top.pc
    OBVIOUS
<1> PICK c : c = h[<<e[Top.scope][ScopeOf(d)], d>>]
    OBVIOUS
<1>1. Written /\ FrameOK(sc, Top, Seen(i), t, e, h)
    BY TopIs
<1>2. /\ d \in Seen(i) /\ Boxed(d) /\ d \in Text
      /\ FunOf(d) # FunOf(i) => FunOf(i) # 0 /\ d \in Captures(FunOf(i))
    BY <1>1, CapturesAre DEF Seen, Binding
<1>3. code[d].fun = FunOf(d) /\ code[i].fun = FunOf(i) /\ code[i].holds = Captures(i)
    BY <1>2 DEF Static, Coded
<1>4. FunOf(d) = FunOf(i) => Top.cells[d] = c
    BY <1>1, <1>2 DEF FrameOK
<1>5. FunOf(d) # FunOf(i) => Top.captured[d] = c
    BY <1>1, <1>2 DEF FrameOK
<1>6. Holds(i)[d] = IF FunOf(d) = FunOf(i) THEN Top.cells[d] ELSE Top.captured[d]
    BY <1>3 DEF Holds
<1> QED BY <1>2, <1>4, <1>5, <1>6

\* A closure is made, over the scope itself or over a copy of some of its names.
LEMMA NarrowedAlike ==
    ASSUME NEW sc, NEW n, NEW t, NEW e, ScopesOK(sc, n, t, e), NEW i, NEW s
    PROVE  Alike(sc, sc, t) /\ Alike(sc, Append(sc, Narrowed(i, s)), t)
<1> PICK q : q = Narrowed(i, s)
    OBVIOUS
<1> PICK sc2 : sc2 = Append(sc, q)
    OBVIOUS
<1>1. List(sc) /\ Len(sc) \in Nat /\ \A k \in 1 .. Len(sc) : {"out", "bound"} \subseteq DOMAIN sc[k]
    BY ListIs DEF ScopesOK
<1>2. {"out", "bound"} \subseteq DOMAIN q /\ q.out = 0
    BY DEF Narrowed, NewScope
<1>3. List(sc2) /\ Len(sc2) = Len(sc) + 1 /\ sc2[Len(sc) + 1] = q /\ \A k \in 1 .. Len(sc) : sc2[k] = sc[k]
    BY <1>1, ListAppend
<1>4. \A k \in 1 .. Len(sc2) : k \in 1 .. Len(sc) \/ k = Len(sc) + 1
    BY <1>1, <1>3
<1>5. Alike(sc, sc2, t)
  <2>1. Len(sc) <= Len(sc2) /\ Len(sc) + 1 \notin 1 .. Len(sc)
      BY <1>1, <1>3
  <2> QED BY <1>1, <1>2, <1>3, <1>4, <2>1 DEF Alike
<1>6. Alike(sc, sc, t)
    BY <1>1 DEF Alike
<1> QED BY <1>5, <1>6

\* A closure more, that holds what it says.
LEMMA ClosureMade ==
    ASSUME NEW sc, NEW n, NEW cl, NEW ce, NEW t, NEW e, NEW h, World(sc, n, cl, ce, t, e, h),
           NEW r, ClosureOK(sc, r, t, e, h)
    PROVE  World(sc, n, Append(cl, r), ce, t, e, h) /\ Len(Append(cl, r)) = Len(cl) + 1 /\ Len(cl) \in Nat
<1> PICK c2 : c2 = Append(cl, r)
    OBVIOUS
<1>1. List(cl) /\ Len(cl) \in Nat /\ \A c \in 1 .. Len(cl) : ClosureOK(sc, cl[c], t, e, h)
    BY ListIs DEF World, ClosuresOK
<1>2. List(c2) /\ Len(c2) = Len(cl) + 1 /\ c2[Len(cl) + 1] = r /\ \A c \in 1 .. Len(cl) : c2[c] = cl[c]
    BY <1>1, ListAppend
<1>3. \A c \in 1 .. Len(c2) : c \in 1 .. Len(cl) \/ c = Len(cl) + 1
    BY <1>1, <1>2
<1>4. ClosuresOK(sc, c2, t, e, h)
    BY <1>1, <1>2, <1>3 DEF ClosuresOK
<1> QED BY <1>1, <1>2, <1>4 DEF World

LEMMA WorldMore ==
    ASSUME NEW sc, NEW n \in Nat, NEW cl, NEW ce, NEW t, NEW e, NEW h, World(sc, n, cl, ce, t, e, h)
    PROVE  World(sc, n + 1, cl, ce, t, e, h)
<1>1. ScopesOK(sc, n + 1, t, e)
    BY ScopesMore DEF World
<1> QED BY <1>1 DEF World

LEMMA PastClosure ==
    ASSUME Static, NEW i \in Text, Op(i) \in Functions, NEW j, j = code[i].closes + 1
    PROVE  /\ j \in Places /\ i < j /\ Around(j) = Around(i) /\ Seen(j) = Seen(i) \cup {i}
           /\ i \in Binding /\ Op(i) # "for"
<1>1. Written /\ AllClosed /\ Op(i) \in Brackets /\ Op(i) \in Binders /\ Op(i) # "for" /\ i \in Binding /\ i \in Nat
    BY SizeIs DEF Static, Functions, Brackets, Binders, Binding, Text
<1>2. Closes(i) \in Text /\ j = Closes(i) + 1
    BY <1>1, EveryCloses DEF Static, Coded
<1>3. i < j
  <2>1. Closes(i) \in i + 1 .. Len(prog) + 1
      BY <1>1, ClosesIs
  <2> QED BY <2>1, <1>1, <1>2, SizeIs
<1> QED BY <1>1, <1>2, <1>3, AfterClosed, SeenAfterClosed

\* What binding the name of the newest call's closure does.
MadeBound(sc, n, t, e, h, j, v) ==
    \E h2 : LET sc2 == BindScope(sc, Top.scope, Top.pc, v) IN
        /\ World(sc2, n, closures, BindCells(Top.pc, v), t, e, h2)
        /\ FramesOK(sc2, WithTop(BindFrame(Goto(j), Top.pc, v)), t, e, h2)
        /\ Bounds(sc2, e, Top.scope, Seen(Top.pc) \cup {Top.pc})
        /\ Grows(sc, t, e, h, t, e, h2)

LEMMA MadeIsBound ==
    ASSUME Static, NEW sc, NEW n, NEW t, NEW e, NEW h, World(sc, n, closures, cells, t, e, h),
           FramesOK(sc, frames, t, e, h), frames # << >>, Top.pc \in Text, Op(Top.pc) \in Functions,
           NEW v, v \in 1 .. n, NEW j, j = code[Top.pc].closes + 1
    PROVE  MadeBound(sc, n, t, e, h, j, v)
<1>1. /\ j \in Places /\ Top.pc < j /\ Around(j) = Around(Top.pc) /\ Seen(j) = Seen(Top.pc) \cup {Top.pc}
      /\ Top.pc \in Binding /\ Op(Top.pc) # "for"
    BY PastClosure
<1>2. \E h2 : LET sc2 == BindScope(sc, Top.scope, Top.pc, v) IN
               /\ World(sc2, n, closures, BindCells(Top.pc, v), t, e, h2)
               /\ FramesOK(sc2, WithTop(BindFrame(Goto(j), Top.pc, v)), t, e, h2)
               /\ Bounds(sc2, e, Top.scope, Seen(Top.pc) \cup {Top.pc})
               /\ Grows(sc, t, e, h, t, e, h2)
    BY <1>1, TopBinds
<1> QED BY <1>2 DEF MadeBound

\* The closure holds the cells its body's captures have where it is made.
LEMMA MadeIsOK ==
    ASSUME Static, NEW sc, NEW sc2, NEW n, NEW t, NEW e, NEW h, NEW h2, ScopesOK(sc, n, t, e),
           FramesOK(sc, frames, t, e, h), frames # << >>, Top.pc \in Text, Op(Top.pc) \in Functions,
           Bounds(sc2, e, Top.scope, Seen(Top.pc) \cup {Top.pc}), Grows(sc, t, e, h, t, e, h2),
           NEW r, r.at = Top.pc, r.home = Top.scope, r.holds = Holds(Top.pc)
    PROVE  ClosureOK(sc2, r, t, e, h2)
<1> PICK i : i = Top.pc
    OBVIOUS
<1> PICK s : s = Top.scope
    OBVIOUS
<1>1. /\ Written /\ i \in Places /\ s \in DOMAIN t /\ t[s] = Inner(i) /\ Bounds(sc, e, s, Seen(i))
    BY TopIs
<1>2. ASSUME NEW d \in Captures(i) PROVE r.holds[d] = h2[<<e[s][ScopeOf(d)], d>>]
  <2> PICK k : k = e[s][ScopeOf(d)]
      OBVIOUS
  <2>1. d \in Seen(i) /\ Boxed(d) /\ r.holds[d] = h[<<k, d>>]
      BY HoldsIs
  <2>2. k \in DOMAIN t
      BY <1>1, <2>1, SeenAt
  <2>3. d \in DOMAIN sc[k].bound
      BY <1>1, <2>1 DEF Bounds, Has
  <2>4. h2[<<k, d>>] = h[<<k, d>>]
      BY <2>1, <2>2, <2>3 DEF Grows
  <2> QED BY <2>1, <2>4
<1> QED BY <1>1, <1>2 DEF ClosureOK

LEMMA MakeClosureSteps ==
    ASSUME Static, NEW t, NEW e, NEW h, World(scopes, Len(closures), closures, cells, t, e, h),
           FramesOK(scopes, frames, t, e, h), MakeClosure
    PROVE  Sound(scopes', closures', cells', frames')
<1> PICK i : i = Top.pc
    OBVIOUS
<1> PICK s : s = Top.scope
    OBVIOUS
<1> PICK n : n = Len(closures)
    OBVIOUS
<1> PICK c : c = n + 1
    OBVIOUS
<1> PICK whole : whole = CapturesWhole(i, s)
    OBVIOUS
<1> PICK r : r = [at |-> i, env |-> IF whole THEN s ELSE Len(scopes) + 1, home |-> s, holds |-> Holds(i)]
    OBVIOUS
<1> PICK sc1 : sc1 = IF whole THEN scopes ELSE Append(scopes, Narrowed(i, s))
    OBVIOUS
<1> PICK j : j = code[i].closes + 1
    OBVIOUS
<1> PICK sc2 : sc2 = BindScope(sc1, s, i, c)
    OBVIOUS
<1> PICK ce2 : ce2 = BindCells(i, c)
    OBVIOUS
<1> PICK frs2 : frs2 = WithTop(BindFrame(Goto(j), i, c))
    OBVIOUS
<1>1. /\ frames # << >> /\ \E op \in Functions : At(op)
      /\ closures' = Append(closures, r) /\ scopes' = sc2 /\ cells' = ce2 /\ frames' = frs2
    BY DEF MakeClosure, At
<1>2. Written /\ World(scopes, n, closures, cells, t, e, h) /\ ScopesOK(scopes, n, t, e) /\ n \in Nat
    BY ListIs DEF Static, World, ClosuresOK
<1>3. i \in Text /\ Op(i) \in Functions /\ Top.scope \in DOMAIN t
    BY <1>1, <1>2, TopIs
<1>4. Alike(scopes, sc1, t)
    BY <1>2, NarrowedAlike
<1>5. World(sc1, n, closures, cells, t, e, h) /\ Untouched(scopes, sc1, t, Len(scopes) + 1)
    BY <1>2, <1>4, WorldAlike
<1>6. FramesOK(sc1, frames, t, e, h)
    BY <1>2, <1>5, GrowsSelf, FramesKept
<1>7. World(sc1, c, closures, cells, t, e, h) /\ ScopesOK(sc1, c, t, e)
    BY <1>2, <1>5, WorldMore DEF World
<1>8. c \in 1 .. c
    BY <1>2
<1>9. MadeBound(sc1, c, t, e, h, j, c)
    BY <1>1, <1>3, <1>6, <1>7, <1>8, MadeIsBound
<1>10. PICK h2 : /\ World(sc2, c, closures, ce2, t, e, h2) /\ FramesOK(sc2, frs2, t, e, h2)
                 /\ Bounds(sc2, e, s, Seen(i) \cup {i}) /\ Grows(sc1, t, e, h, t, e, h2)
    BY <1>9 DEF MadeBound
<1>11. ClosureOK(sc2, r, t, e, h2)
  <2>1. r.at = Top.pc /\ r.home = Top.scope /\ r.holds = Holds(Top.pc)
      OBVIOUS
  <2> QED BY <1>1, <1>3, <1>6, <1>7, <1>10, <2>1, MadeIsOK
<1>12. World(sc2, c, Append(closures, r), ce2, t, e, h2) /\ Len(Append(closures, r)) = c
    BY <1>10, <1>11, ClosureMade
<1>13. World(scopes', Len(closures'), closures', cells', t, e, h2) /\ FramesOK(scopes', frames', t, e, h2)
    BY <1>1, <1>10, <1>12
<1> QED BY <1>13 DEF Sound

\* The invariant from the parts of a state.
LEMMA SoundStays ==
    ASSUME prog' = prog, Sound(scopes', closures', cells', frames')
    PROVE  Sound(scopes, closures, cells, frames)'
<1> PICK sc, cl, ce, frs : sc = scopes' /\ cl = closures' /\ ce = cells' /\ frs = frames'
    OBVIOUS
<1>1. PICK t, e, h : World(sc, Len(cl), cl, ce, t, e, h) /\ FramesOK(sc, frs, t, e, h)
    BY DEF Sound
<1>2. World(sc, Len(cl), cl, ce, t, e, h)' /\ FramesOK(sc, frs, t, e, h)'
    BY <1>1, RunStays
<1>3. \E t2, e2, h2 : World(sc, Len(cl), cl, ce, t2, e2, h2)' /\ FramesOK(sc, frs, t2, e2, h2)'
    BY <1>2
<1>4. Sound(sc, cl, ce, frs)'
    BY <1>3 DEF Sound
<1> QED BY <1>4

\* Before the body is compiled there is the root scope and nothing else.
Blank == /\ List(scopes) /\ Len(scopes) = 1 /\ {"out", "bound"} \subseteq DOMAIN scopes[1] /\ scopes[1].out = 0
         /\ closures = << >> /\ cells = << >> /\ frames = << >>

\* What compile works out of a closed text.
LEMMA Coding ==
    ASSUME Written, AllClosed, Compile
    PROVE  code' # << >> /\ Coded'
<1>1. prog' = prog /\ prog # << >>
    BY DEF Compile
<1> PICK c : c = code'
    OBVIOUS
<1>2. c = [i \in Text |->
                  [means |-> IF Op(i) \in Uses THEN Meaning(i) ELSE 0,
                   place |-> CASE Op(i) \in Uses -> Resolve(i)
                               [] Op(i) \in Binders -> Own(i)
                               [] OTHER -> GlobalOrNone(0),
                   first |-> IF Op(i) = "for" THEN NextSlot(i) ELSE 0,
                   holds |-> IF Op(i) \in Functions THEN Captures(i) ELSE {},
                   free |-> IF Op(i) = "lam" THEN CollectFree(i) ELSE {},
                   fun |-> FunOf(i),
                   closes |-> IF Op(i) \in Brackets THEN Closes(i) ELSE i,
                   opened |-> IF Op(i) = "end"
                              THEN CHOOSE j \in 1 .. i - 1 : Op(j) \in Brackets /\ Closes(j) = i
                              ELSE 0,
                   kept |-> Op(i) \in Functions /\ (Calls(i) => KeptCallers)]]
    BY DEF Compile
<1>3. c # << >>
  <2>1. 1 \in Text
    <3>1. Len(prog) \in Nat /\ Len(prog) # 0
        BY <1>1, EmptySeq DEF Written
    <3> QED BY <3>1 DEF Text
  <2>2. DOMAIN c = Text /\ DOMAIN << >> = {}
      BY <1>2
  <2> QED BY <2>1, <2>2
<1>4. ASSUME NEW i \in Text
      PROVE  /\ Op(i) \in Uses => c[i].means = Meaning(i) /\ c[i].place = Resolve(i)
             /\ Op(i) \in Binders => c[i].place = Own(i)
             /\ Op(i) = "for" => c[i].first = NextSlot(i)
             /\ Op(i) \in Functions => c[i].holds = Captures(i)
             /\ Op(i) \in Brackets => c[i].closes = Closes(i)
             /\ c[i].fun = FunOf(i)
  <2>1. Op(i) \in Binders => Op(i) \notin Uses
      BY DEF Binders, Uses
  <2> QED BY <1>2, <2>1
<1>5. ASSUME NEW i \in Text, Op(i) = "end" PROVE c[i].opened = Inner(i)
  <2>1. c[i].opened = CHOOSE j \in 1 .. i - 1 : Op(j) \in Brackets /\ Closes(j) = i
      BY <1>2, <1>5
  <2>2. /\ Inner(i) \in Text /\ Op(Inner(i)) \in Brackets /\ Closes(Inner(i)) = i
        /\ \A j \in Text : Op(j) \in Brackets /\ Closes(j) = i => j = Inner(i)
      BY <1>5, EndIs DEF AllClosed
  <2>3. 1 .. i - 1 \subseteq Text /\ i \in Nat
      BY SizeIs DEF Text
  <2>4. Inner(i) \in 1 .. i - 1
    <3>1. i \in Inner(i) + 1 .. Len(prog) + 1
        BY <2>2, ClosesIs
    <3> QED BY <2>2, <2>3, <3>1, SizeIs DEF Text
  <2> QED BY <2>1, <2>2, <2>3, <2>4
<1>6. Coded'
  <2>1. \A i \in Text :
          /\ Op(i)' \in Uses => c[i].means = Meaning(i)' /\ c[i].place = Resolve(i)'
          /\ Op(i)' \in Binders => c[i].place = Own(i)'
          /\ Op(i)' = "for" => c[i].first = NextSlot(i)'
          /\ Op(i)' \in Functions => c[i].holds = Captures(i)'
          /\ Op(i)' \in Brackets => c[i].closes = Closes(i)'
          /\ Op(i)' = "end" => c[i].opened = Inner(i)'
          /\ c[i].fun = FunOf(i)'
      BY <1>1, <1>4, <1>5, TextStays
  <2>2. Text' = Text
      BY <1>1, TextStays
  <2> QED BY <2>1, <2>2 DEF Coded
<1> QED BY <1>3, <1>6

\* Nothing is around the first token, and it sees nothing.
LEMMA FirstPlace ==
    ASSUME Written
    PROVE  /\ 1 \in Places /\ Around(1) = {0} /\ Inner(1) = 0 /\ FunOf(1) = 0 /\ Seen(1) = {}
           /\ Reach(0) = {0} /\ Captures(0) = {}
<1>1. 1 \in Places
    BY SizeIs DEF Places
<1>2. Around(1) = {0}
    BY <1>1, AroundIs
<1>3. Inner(1) = 0
    BY <1>1, <1>2, InnermostIs DEF Inner
<1>4. FunOf(1) = 0
    BY <1>1, <1>2, FunIs
<1>5. Seen(1) = {}
  <2>1. \A d \in Binding : d \in Nat /\ d >= 1
      BY SizeIs DEF Binding, Text
  <2> QED BY <2>1 DEF Seen
<1> QED BY <1>1, <1>2, <1>3, <1>4, <1>5 DEF Reach, Captures

\* A list of two.
LEMMA SecondIs ==
    ASSUME NEW s, List(s), NEW x
    PROVE  Len(s) = 1 => LET r == Append(s, x) IN List(r) /\ Len(r) = 2 /\ r[1] = s[1] /\ r[2] = x
<1>1. /\ List(Append(s, x)) /\ Len(Append(s, x)) = Len(s) + 1 /\ Append(s, x)[Len(s) + 1] = x
      /\ \A i \in 1 .. Len(s) : Append(s, x)[i] = s[i]
    BY ListAppend
<1> QED BY <1>1

\* The body starts in a scope of its own.
LEMMA BodyStarts ==
    ASSUME Written, NEW sc, List(sc), Len(sc) = 1, {"out", "bound"} \subseteq DOMAIN sc[1], sc[1].out = 0
    PROVE  Sound(Append(sc, NewScope(Root, Root)), << >>, << >>, <<Frame(0, Len(sc) + 1, 1, << >>)>>)
<1> PICK r : r = NewScope(Root, Root)
    OBVIOUS
<1> PICK sc2 : sc2 = Append(sc, r)
    OBVIOUS
<1>1. r.out = 1 /\ {"out", "bound"} \subseteq DOMAIN r /\ DOMAIN r.bound = {}
    BY DEF NewScope, Root
<1>2. List(sc2) /\ Len(sc2) = 2 /\ sc2[1] = sc[1] /\ sc2[2] = r
    BY SecondIs
<1> PICK fr : fr = Frame(0, Len(sc) + 1, 1, << >>)
    OBVIOUS
<1> PICK t : t = [x \in {2} |-> 0]
    OBVIOUS
<1> PICK e : e = [x \in {2} |-> [a \in {0} |-> 2]]
    OBVIOUS
<1> PICK h : h = [x \in {} |-> 0]
    OBVIOUS
<1>3. DOMAIN t = {2} /\ t[2] = 0 /\ e[2][0] = 2
    OBVIOUS
<1>4. ScopesOK(sc2, 0, t, e)
  <2>1. Instance(sc2, 0, t, e, 2)
      BY <1>1, <1>2, <1>3, FirstPlace DEF Instance, Root
  <2>2. \A k \in 1 .. 2 : k = 1 \/ k = 2
      OBVIOUS
  <2> QED BY <1>1, <1>2, <1>3, <2>1, <2>2 DEF ScopesOK
<1>5. List(<< >>) /\ Len(<< >>) = 0
    BY NoCalls, EmptySeq DEF FramesOK
<1>6. World(sc2, 0, << >>, << >>, t, e, h)
    BY <1>1, <1>2, <1>3, <1>4, <1>5 DEF World, CellsOK, ClosuresOK
<1>7. FrameOK(sc2, fr, Seen(fr.pc), t, e, h)
  <2>1. {"pc", "scope", "slots", "cells", "captured"} \subseteq DOMAIN fr /\ fr.pc = 1 /\ fr.scope = 2
      BY DEF Frame
  <2> QED BY <1>1, <1>2, <1>3, <2>1, FirstPlace DEF FrameOK, Bounds
<1>8. FramesOK(sc2, <<fr>>, t, e, h)
  <2> PICK l : l = <<fr>>
      OBVIOUS
  <2>1. l \in Seq({fr}) /\ Len(l) = 1 /\ l[1] = fr
      OBVIOUS
  <2>2. List(l)
      BY <2>1 DEF List
  <2>3. \A f \in 1 .. 1 : f = 1
      OBVIOUS
  <2> QED BY <1>7, <2>1, <2>2, <2>3 DEF FramesOK
<1> QED BY <1>5, <1>6, <1>8 DEF Sound

--------------------------------------------------------------------------------
VmInv ==
    /\ VmKeepsMeaning /\ called \in Nat
    /\ Written /\ EndsClose /\ UsesMean
    /\ code = << >> => Blank
    /\ code # << >> => Static /\ Sound(scopes, closures, cells, frames)

\* The invariant: of an empty state, of a text that grows, of one that is
\* compiled, of a run.
LEMMA VmStarts == Init => VmInv
<1> SUFFICES ASSUME Init PROVE VmInv
    OBVIOUS
<1> PICK r : r = [NewScope(0, 0) EXCEPT !.names = [n \in Global |-> 0]]
    OBVIOUS
<1>1. /\ prog = << >> /\ code = << >> /\ scopes = <<r>> /\ closures = << >> /\ cells = << >> /\ frames = << >>
      /\ called = 0 /\ last.vm = None /\ last.means = None
    BY DEF Init
<1>2. Written /\ Text = {}
    BY <1>1, EmptySeq DEF Written, Text
<1>3. EndsClose /\ UsesMean
    BY <1>2 DEF EndsClose, UsesMean
<1>4. {"out", "bound"} \subseteq DOMAIN r /\ r.out = 0
    BY DEF NewScope
<1>5. List(scopes) /\ Len(scopes) = 1 /\ scopes[1] = r
  <2> PICK l : l = <<r>>
      OBVIOUS
  <2>1. l \in Seq({r}) /\ Len(l) = 1 /\ l[1] = r
      OBVIOUS
  <2>2. List(l)
      BY <2>1 DEF List
  <2> QED BY <1>1, <2>1, <2>2
<1>6. Blank
    BY <1>1, <1>4, <1>5 DEF Blank
<1> QED BY <1>1, <1>2, <1>3, <1>6 DEF VmInv, VmKeepsMeaning

LEMMA VmWrites ==
    ASSUME VmInv, WriteText
    PROVE  VmInv'
<1>1. /\ code = << >> /\ code' = code /\ scopes' = scopes /\ closures' = closures /\ cells' = cells
      /\ frames' = frames /\ called' = called /\ last' = last
    BY DEF WriteText
<1>2. PICK x \in Token : Allowed(x) /\ prog' = Append(prog, x)
    BY DEF WriteText, Write
<1>3. Written' /\ EndsClose' /\ UsesMean'
  <2> PICK l : l = Len(prog)
      OBVIOUS
  <2>1. Written /\ EndsClose /\ UsesMean
      BY DEF VmInv
  <2>2. l \in Nat
      BY <2>1, SizeIs
  <2> QED BY <1>2, <2>1, <2>2, TextGrowsRight
<1>4. Blank'
    BY <1>1 DEF VmInv, Blank
<1> QED BY <1>1, <1>3, <1>4 DEF VmInv, VmKeepsMeaning

LEMMA VmCompiles ==
    ASSUME ~FunsInBlocks, ~OwnNames, Data \cap Fun = {}, VmInv, Compile
    PROVE  VmInv'
<1>1. /\ code = << >> /\ prog' = prog /\ Depth(Len(prog) + 1) = 0 /\ ~FunInBlock /\ ~NamesItself
      /\ scopes' = Append(scopes, NewScope(Root, Root)) /\ frames' = <<Frame(0, Len(scopes) + 1, 1, << >>)>>
      /\ closures' = closures /\ cells' = cells /\ called' = called /\ last' = last
    BY DEF Compile
<1>2. Written /\ EndsClose /\ UsesMean /\ AllClosed /\ Blank
    BY <1>1 DEF VmInv, AllClosed
<1>3. Written' /\ EndsClose' /\ UsesMean' /\ AllClosed' /\ ~FunInBlock' /\ ~NamesItself'
  <2>1. Written' /\ UsesMean' /\ EndsClose'
      BY <1>1, <1>2, TextStays DEF Written, UsesMean, EndsClose
  <2>2. (Depth(Len(prog) + 1) = 0)' = (Depth(Len(prog) + 1) = 0)
      BY <1>1, TextStays
  <2>3. AllClosed'
      BY <1>1, <2>1, <2>2 DEF AllClosed
  <2>4. ~FunInBlock' /\ ~NamesItself'
      BY <1>1, TextStays DEF FunInBlock, NamesItself
  <2> QED BY <2>1, <2>3, <2>4
<1>4. code' # << >> /\ Coded'
    BY <1>2, Coding
<1>5. Static'
    BY <1>3, <1>4 DEF Static
<1>6. Sound(scopes, closures, cells, frames)'
  <2>1. /\ List(scopes) /\ Len(scopes) = 1 /\ {"out", "bound"} \subseteq DOMAIN scopes[1] /\ scopes[1].out = 0
        /\ closures' = << >> /\ cells' = << >>
      BY <1>1, <1>2 DEF Blank
  <2>2. Sound(scopes', closures', cells', frames')
      BY <1>1, <1>2, <2>1, BodyStarts
  <2> QED BY <1>1, <2>2, SoundStays
<1> QED BY <1>1, <1>3, <1>4, <1>5, <1>6 DEF VmInv, VmKeepsMeaning

\* The steps of a run.
Runs == \/ Let \/ Read \/ Set \/ MakeClosure \/ Call \/ EnterBlock \/ EnterLoop \/ EndBlock \/ Return \/ CallKept

\* Nothing runs before the body is compiled.
LEMMA NothingRuns == ASSUME code = << >>, Blank PROVE ~Runs
<1>1. frames = << >>
    BY DEF Blank
<1>2. \A op : ~At(op)
    BY <1>1 DEF At
<1> QED BY <1>1, <1>2 DEF Runs, Let, Read, Set, MakeClosure, Call, EnterBlock, EnterLoop, EndBlock, Return, CallKept

LEMMA RunSteps ==
    ASSUME Static, called \in Nat, VmKeepsMeaning, Sound(scopes, closures, cells, frames), Runs
    PROVE  /\ Sound(scopes', closures', cells', frames') /\ VmKeepsMeaning'
           /\ prog' = prog /\ code' = code /\ called' \in Nat
<1>1. PICK t, e, h : World(scopes, Len(closures), closures, cells, t, e, h) /\ FramesOK(scopes, frames, t, e, h)
    BY DEF Sound
<1>2. Len(closures) \in Nat
    BY <1>1, ListIs DEF World, ClosuresOK
<1>3. CASE Let
  <2>1. prog' = prog /\ code' = code /\ called' = called /\ last' = last
      BY <1>3 DEF Let
  <2> QED BY <1>1, <1>3, <2>1, LetSteps DEF VmKeepsMeaning
<1>4. CASE Read
  <2>1. prog' = prog /\ code' = code /\ called' \in {called, Len(closures)}
      BY <1>4 DEF Read, StopAll
  <2> QED BY <1>1, <1>2, <1>4, <2>1, ReadSteps
<1>5. CASE Set
  <2>1. prog' = prog /\ code' = code /\ called' \in {called, Len(closures)}
      BY <1>5 DEF Set, StopAll, Assign
  <2> QED BY <1>1, <1>2, <1>5, <2>1, SetSteps
<1>6. CASE MakeClosure
  <2>1. prog' = prog /\ code' = code /\ called' = called /\ last' = last
      BY <1>6 DEF MakeClosure
  <2> QED BY <1>1, <1>6, <2>1, MakeClosureSteps DEF VmKeepsMeaning
<1>7. CASE Call
  <2>1. prog' = prog /\ code' = code /\ called' \in {called, Len(closures)}
      BY <1>7 DEF Call, StopAll
  <2> QED BY <1>1, <1>2, <1>7, <2>1, CallSteps
<1>8. CASE EnterBlock
  <2>1. prog' = prog /\ code' = code /\ called' = called /\ last' = last
      BY <1>8 DEF EnterBlock
  <2> QED BY <1>1, <1>8, <2>1, EnterBlockSteps DEF VmKeepsMeaning
<1>9. CASE EnterLoop
  <2>1. prog' = prog /\ code' = code /\ called' = called /\ last' = last
      BY <1>9 DEF EnterLoop
  <2> QED BY <1>1, <1>9, <2>1, EnterLoopSteps DEF VmKeepsMeaning
<1>10. CASE EndBlock
  <2>1. prog' = prog /\ code' = code /\ called' = called /\ last' = last
      BY <1>10 DEF EndBlock
  <2> QED BY <1>1, <1>10, <2>1, EndBlockSteps DEF VmKeepsMeaning
<1>11. CASE Return
  <2>1. prog' = prog /\ code' = code /\ called' = called /\ last' = last
      BY <1>11 DEF Return
  <2> QED BY <1>1, <1>11, <2>1, ReturnSteps DEF VmKeepsMeaning
<1>12. CASE CallKept
  <2>1. prog' = prog /\ code' = code /\ called' = called + 1 /\ last' = last
      BY <1>12 DEF CallKept
  <2> QED BY <1>1, <1>12, <2>1, CallKeptSteps DEF VmKeepsMeaning
<1> QED BY <1>3, <1>4, <1>5, <1>6, <1>7, <1>8, <1>9, <1>10, <1>11, <1>12 DEF Runs

LEMMA VmRuns ==
    ASSUME VmInv, Runs
    PROVE  VmInv'
<1>1. code # << >>
    BY NothingRuns DEF VmInv
<1>2. Static /\ called \in Nat /\ VmKeepsMeaning /\ Sound(scopes, closures, cells, frames)
    BY <1>1 DEF VmInv
<1>3. /\ Sound(scopes', closures', cells', frames') /\ VmKeepsMeaning'
      /\ prog' = prog /\ code' = code /\ called' \in Nat
    BY <1>2, RunSteps
<1>4. Static' /\ Sound(scopes, closures, cells, frames)'
    BY <1>2, <1>3, StaticStays, SoundStays
<1>5. Written' /\ EndsClose' /\ UsesMean'
    BY <1>4 DEF Static, AllClosed
<1> QED BY <1>1, <1>3, <1>4, <1>5 DEF VmInv

\* And of nothing at all.
LEMMA VmWaits ==
    ASSUME VmInv, UNCHANGED vars
    PROVE  VmInv'
<1>1. /\ prog' = prog /\ code' = code /\ scopes' = scopes /\ closures' = closures /\ cells' = cells
      /\ frames' = frames /\ called' = called /\ last' = last
    BY DEF vars
<1>2. Written' /\ EndsClose' /\ UsesMean' /\ Blank' = Blank /\ VmKeepsMeaning'
    BY <1>1, TextStays DEF VmInv, Written, EndsClose, UsesMean, Blank, VmKeepsMeaning
<1>3. CASE code = << >>
    BY <1>1, <1>2, <1>3 DEF VmInv
<1>4. CASE code # << >>
  <2>1. Static /\ Sound(scopes', closures', cells', frames')
      BY <1>1, <1>4 DEF VmInv
  <2>2. Static' /\ Sound(scopes, closures, cells, frames)'
      BY <1>1, <2>1, StaticStays, SoundStays
  <2> QED BY <1>1, <1>2, <1>4, <2>2 DEF VmInv
<1> QED BY <1>3, <1>4

\* The invariant is inductive.
LEMMA VmKeeps ==
    ASSUME ~FunsInBlocks, ~OwnNames, Data \cap Fun = {}, VmInv, [Next]_vars
    PROVE  VmInv'
<1>1. CASE WriteText
    BY <1>1, VmWrites
<1>2. CASE Compile
    BY <1>2, VmCompiles
<1>3. CASE Runs
    BY <1>3, VmRuns
<1>4. CASE UNCHANGED vars
    BY <1>4, VmWaits
<1> QED BY <1>1, <1>2, <1>3, <1>4 DEF Next, Runs, Done

\* On the VM a use is of the binding the checker read: whatever was captured,
\* boxed or reused a slot on the way, for any names, text and run, of programs
\* without a `fun` in a block that is part of an expression and without a
\* function that names itself (compiler.rs `resolve`, vm.rs LoadLocal, LoadCell,
\* LoadCaptured).
THEOREM NamesKeepTheirMeaning ==
    ASSUME ~FunsInBlocks, ~OwnNames, Data \cap Fun = {}
    PROVE  Spec => []VmKeepsMeaning
<1>1. Init => VmInv
    BY VmStarts
<1>2. VmInv /\ [Next]_vars => VmInv'
    BY VmKeeps
<1>3. VmInv => VmKeepsMeaning
    BY DEF VmInv
<1> QED BY <1>1, <1>2, <1>3, PTL DEF Spec
================================================================================
