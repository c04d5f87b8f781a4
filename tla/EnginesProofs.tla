------------------------------- MODULE EnginesProofs -------------------------------
(***************************************************************************)
(* Proofs about the engines.  `try`, for any types, clause lists and depth *)
(* of nesting: what compiled programs count, and the handlers the VM       *)
(* holds, are the tries that are open, and both engines catch where the    *)
(* interpreter does.  Int arithmetic, for any width of a word.  The pool   *)
(* of actors beside them, as run `engines` has it, and what names mean on  *)
(* the VM there (NamesProofs).                                             *)
(***************************************************************************)
EXTENDS MCEngines, FiniteSetTheorems, SequenceTheorems, WellFoundedInduction, TLAPS

(* Open blocks, as both models keep them.                                  *)
Paths == Seq(I!Items)
Stacks == Seq(Paths)
Tries(fs) == UNION {{<<f, k>> : k \in TriesIn(fs[f])} : f \in DOMAIN fs}
Below(fs, place) == {t \in Tries(fs) : ~(t[1] = place[1] /\ t[2] > place[2])}
\* Where a try is open in both, what is around it is the same.
Agree(gs, fs) == \A t \in Tries(gs) \cap Tries(fs) : \A j \in 1 .. t[2] : gs[t[1]][j] = fs[t[1]][j]

LEMMA TryIsOpen ==
    ASSUME NEW fs \in Stacks, NEW t
    PROVE  t \in Tries(fs) <=> \E f \in 1 .. Len(fs) : \E k \in 1 .. Len(fs[f]) :
                                    t = <<f, k>> /\ fs[f][k].kind = "try"
<1>1. DOMAIN fs = 1 .. Len(fs) /\ \A f \in 1 .. Len(fs) : fs[f] \in Paths /\ DOMAIN fs[f] = 1 .. Len(fs[f])
    BY LenProperties, ElementOfSeq DEF Stacks, Paths
<1> QED BY <1>1 DEF Tries, TriesIn

\* The innermost path replaced, a frame more, frames less.
LEMMA PathReplaced ==
    ASSUME NEW fs \in Stacks, fs # << >>, NEW path \in Paths
    PROVE  LET gs == [fs EXCEPT ![Len(fs)] = path] IN
           /\ gs \in Stacks /\ Len(gs) = Len(fs) /\ gs # << >>
           /\ gs[Len(fs)] = path
           /\ \A f \in 1 .. Len(fs) : f # Len(fs) => gs[f] = fs[f]
<1>1. Len(fs) \in 1 .. Len(fs)
    BY EmptySeq, LenProperties DEF Stacks
<1> QED BY <1>1, ExceptSeq, EmptySeq DEF Stacks

LEMMA LastPath ==
    ASSUME NEW fs \in Stacks, fs # << >>
    PROVE  Len(fs) \in Nat /\ Len(fs) > 0 /\ Last(fs) = fs[Len(fs)] /\ Last(fs) \in Paths
           /\ Len(Last(fs)) \in Nat
BY EmptySeq, LenProperties, ElementOfSeq DEF Stacks, Paths, Last

\* A block opened, the innermost closed or cut.
LEMMA PathGrows ==
    ASSUME NEW path \in Paths, NEW item \in I!Items
    PROVE  /\ Append(path, item) \in Paths /\ Len(Append(path, item)) = Len(path) + 1
           /\ \A k \in 1 .. Len(path) : Append(path, item)[k] = path[k]
           /\ Append(path, item)[Len(path) + 1] = item
BY AppendProperties DEF Paths

LEMMA PathCut ==
    ASSUME NEW path \in Paths, NEW m \in 0 .. Len(path)
    PROVE  /\ I!Upto(path, m) \in Paths /\ Len(I!Upto(path, m)) = m
           /\ \A k \in 1 .. m : I!Upto(path, m)[k] = path[k]
<1>1. Len(path) \in Nat /\ m \in Nat /\ \A k \in 1 .. m : path[k] \in I!Items
    BY LenProperties, ElementOfSeq DEF Paths
<1>2. /\ SubSeq(path, 1, m) \in Paths
      /\ Len(SubSeq(path, 1, m)) = IF 1 <= m THEN m - 1 + 1 ELSE 0
      /\ \A k \in 1 .. m - 1 + 1 : SubSeq(path, 1, m)[k] = path[1 + k - 1]
    BY <1>1, SubSeqProperties DEF Paths
<1> QED BY <1>1, <1>2 DEF I!Upto

LEMMA FrontIsCut ==
    ASSUME NEW path \in Paths, path # << >>
    PROVE  Front(path) = I!Upto(path, Len(path) - 1) /\ Len(path) - 1 \in 0 .. Len(path) /\ Len(path) >= 1
<1>1. Len(path) \in Nat /\ Len(path) # 0
    BY EmptySeq, LenProperties DEF Paths
<1> QED BY <1>1 DEF Front, I!Upto

\* The largest of a set of numbers that has a bound.
LEMMA LargestIsThere ==
    ASSUME NEW S, NEW m \in Nat, S \subseteq 0 .. m, S # {}
    PROVE  I!Max(S) \in S /\ \A x \in S : x <= I!Max(S)
<1> DEFINE T == {m - x : x \in S}
<1>1. T \subseteq Nat /\ T # {}
  <2>1. \A x \in S : m - x \in Nat
    BY SMT
  <2> QED BY <2>1
<1>2. PICK y \in T : \A z \in T : ~(<<z, y>> \in OpToRel(<, Nat))
    BY <1>1, WFMin, NatLessThanWellFounded
<1>3. \A z \in T : ~(z < y)
    BY <1>1, <1>2 DEF OpToRel
<1>4. PICK x \in S : y = m - x
    OBVIOUS
<1>5. \A w \in S : x >= w
  <2> TAKE w \in S
  <2>1. ~(m - w < m - x)
      BY <1>3, <1>4
  <2> QED BY <2>1
<1> QED BY <1>5 DEF I!Max

LEMMA FirstIsThere ==
    ASSUME NEW S, NEW m \in Nat, S \subseteq 0 .. m, S # {}
    PROVE  I!Min(S) \in S
<1>1. S \subseteq Nat
    BY SMT
<1>2. PICK y \in S : \A z \in S : ~(<<z, y>> \in OpToRel(<, Nat))
    BY <1>1, WFMin, NatLessThanWellFounded
<1>3. \A z \in S : ~(z < y)
    BY <1>1, <1>2 DEF OpToRel
<1>4. \A z \in S : y =< z
    BY <1>1, <1>3
<1> QED BY <1>4 DEF I!Min

\* The innermost block of a kind, if there is one, is open and of that kind.
LEMMA InnermostIsThere ==
    ASSUME NEW path \in Paths, NEW kinds
    PROVE  LET k == I!Innermost(path, kinds) IN
           /\ k \in 0 .. Len(path)
           /\ k > 0 => path[k].kind \in kinds
           /\ \A j \in 1 .. Len(path) : path[j].kind \in kinds => j <= k
<1> DEFINE S == {0} \cup {k \in DOMAIN path : path[k].kind \in kinds}
<1>1. Len(path) \in Nat /\ DOMAIN path = 1 .. Len(path)
    BY LenProperties DEF Paths
<1>2. S \subseteq 0 .. Len(path) /\ S # {}
    BY <1>1
<1>3. I!Max(S) \in S /\ \A x \in S : x <= I!Max(S)
    BY <1>1, <1>2, LargestIsThere
<1> QED BY <1>1, <1>2, <1>3 DEF I!Innermost

LEMMA Between ==
    ASSUME NEW i \in Int, NEW j \in Int, i <= j + 1
    PROVE  IsFiniteSet(i .. j) /\ Cardinality(i .. j) = j - i + 1
BY FS_Interval, SMTT(30)

LEMMA UpTo ==
    ASSUME NEW k \in Nat
    PROVE  IsFiniteSet(1 .. k)
BY Between

LEMMA CountedTries ==
    ASSUME NEW fs \in Stacks
    PROVE  IsFiniteSet(Tries(fs)) /\ Cardinality(Tries(fs)) \in Nat
<1> DEFINE Of(f) == {<<f, k>> : k \in TriesIn(fs[f])}
           All == {Of(f) : f \in 1 .. Len(fs)}
<1>1. Len(fs) \in Nat /\ DOMAIN fs = 1 .. Len(fs)
    BY LenProperties DEF Stacks
<1>2. \A f \in 1 .. Len(fs) : IsFiniteSet(Of(f))
  <2> TAKE f \in 1 .. Len(fs)
  <2>1. Len(fs[f]) \in Nat /\ DOMAIN fs[f] = 1 .. Len(fs[f])
      BY ElementOfSeq, LenProperties DEF Stacks, Paths
  <2>2. IsFiniteSet(1 .. Len(fs[f]))
      BY <2>1, UpTo
  <2>3. TriesIn(fs[f]) \in SUBSET (1 .. Len(fs[f]))
      BY <2>1, Zenon DEF TriesIn
  <2> HIDE DEF Of
  <2>5. IsFiniteSet(TriesIn(fs[f]))
      BY <2>2, <2>3, FS_Subset
  <2> USE DEF Of
  <2> DEFINE place == [k \in TriesIn(fs[f]) |-> <<f, k>>]
  <2>4. place \in Surjection(TriesIn(fs[f]), Of(f))
      BY DEF Surjection
  <2> QED BY <2>4, <2>5, FS_Surjection
<1>3. IsFiniteSet(All)
  <2> DEFINE frame == [f \in 1 .. Len(fs) |-> Of(f)]
  <2>1. IsFiniteSet(1 .. Len(fs))
      BY <1>1, UpTo
  <2>2. frame \in Surjection(1 .. Len(fs), All)
      BY DEF Surjection
  <2> QED BY <2>1, <2>2, FS_Surjection
<1>4. IsFiniteSet(UNION All)
    BY <1>2, <1>3, FS_UNION
<1>5. UNION All = Tries(fs)
    BY <1>1 DEF Tries
<1> QED BY <1>4, <1>5, FS_CardinalityType

(* What each way to move does to the open tries.                           *)
Goes(fs, path) == [fs EXCEPT ![Len(fs)] = path]

LEMMA TriesAfter ==
    ASSUME NEW fs \in Stacks, fs # << >>, NEW path \in Paths, NEW t
    PROVE  t \in Tries(Goes(fs, path)) <=>
               \/ t \in Tries(fs) /\ t[1] # Len(fs)
               \/ \E k \in 1 .. Len(path) : t = <<Len(fs), k>> /\ path[k].kind = "try"
<1> DEFINE gs == Goes(fs, path)
           top == Len(fs)
<1>1. /\ gs \in Stacks /\ Len(gs) = top /\ gs[top] = path
      /\ \A f \in 1 .. top : f # top => gs[f] = fs[f]
    BY PathReplaced DEF Goes
<1>2. top \in Nat /\ top > 0
    BY LastPath
<1>3. t \in Tries(gs) <=> \E f \in 1 .. top : \E k \in 1 .. Len(gs[f]) : t = <<f, k>> /\ gs[f][k].kind = "try"
    BY <1>1, TryIsOpen
<1>4. t \in Tries(fs) <=> \E f \in 1 .. top : \E k \in 1 .. Len(fs[f]) : t = <<f, k>> /\ fs[f][k].kind = "try"
    BY TryIsOpen
<1> HIDE DEF gs, top
<1> QED BY <1>1, <1>2, <1>3, <1>4 DEF gs, top

LEMMA BlockOpened ==
    ASSUME NEW fs \in Stacks, fs # << >>, NEW item \in I!Items
    PROVE  LET gs == Goes(fs, Append(Last(fs), item))
               place == <<Len(fs), Len(Last(fs)) + 1>>
           IN  /\ gs \in Stacks /\ gs # << >> /\ Len(gs) = Len(fs) /\ Last(gs) = Append(Last(fs), item)
               /\ Tries(gs) = Tries(fs) \cup (IF item.kind = "try" THEN {place} ELSE {})
               /\ place \notin Tries(fs)
               /\ Agree(gs, fs)
<1> DEFINE path == Append(Last(fs), item)
           gs == Goes(fs, path)
<1>1. /\ Len(fs) \in Nat /\ Len(fs) > 0 /\ Last(fs) = fs[Len(fs)] /\ Last(fs) \in Paths
      /\ Len(Last(fs)) \in Nat
    BY LastPath
<1>2. /\ path \in Paths /\ Len(path) = Len(Last(fs)) + 1
      /\ \A k \in 1 .. Len(Last(fs)) : path[k] = Last(fs)[k]
      /\ path[Len(Last(fs)) + 1] = item
    BY <1>1, PathGrows
<1>3. /\ gs \in Stacks /\ Len(gs) = Len(fs) /\ gs # << >> /\ gs[Len(fs)] = path
      /\ \A f \in 1 .. Len(fs) : f # Len(fs) => gs[f] = fs[f]
    BY <1>2, PathReplaced DEF Goes
<1>4. Last(gs) = path
    BY <1>3 DEF Last
<1> HIDE DEF path, gs
<1>5. ASSUME NEW t
      PROVE  t \in Tries(gs) <=> t \in Tries(fs) \/ (item.kind = "try" /\ t = <<Len(fs), Len(Last(fs)) + 1>>)
  <2>1. t \in Tries(gs) <=> \/ t \in Tries(fs) /\ t[1] # Len(fs)
                            \/ \E k \in 1 .. Len(path) : t = <<Len(fs), k>> /\ path[k].kind = "try"
      BY <1>2, TriesAfter DEF gs
  <2>2. t \in Tries(fs) <=> \E f \in 1 .. Len(fs) : \E k \in 1 .. Len(fs[f]) : t = <<f, k>> /\ fs[f][k].kind = "try"
      BY TryIsOpen
  <2>3. (\E k \in 1 .. Len(path) : t = <<Len(fs), k>> /\ path[k].kind = "try")
            <=> \/ \E k \in 1 .. Len(Last(fs)) : t = <<Len(fs), k>> /\ Last(fs)[k].kind = "try"
                \/ item.kind = "try" /\ t = <<Len(fs), Len(Last(fs)) + 1>>
      BY <1>1, <1>2
  <2> QED BY <1>1, <2>1, <2>2, <2>3
<1>6. <<Len(fs), Len(Last(fs)) + 1>> \notin Tries(fs)
    BY <1>1, TryIsOpen
<1>7. Agree(gs, fs)
  <2> SUFFICES ASSUME NEW t \in Tries(fs), NEW j \in 1 .. t[2]
               PROVE  gs[t[1]][j] = fs[t[1]][j]
      BY DEF Agree
  <2>1. PICK f \in 1 .. Len(fs) : \E k \in 1 .. Len(fs[f]) : t = <<f, k>>
      BY TryIsOpen
  <2>2. t[1] = f /\ t[2] \in 1 .. Len(fs[f])
      BY <2>1
  <2>3. CASE f # Len(fs)
      BY <1>3, <2>2, <2>3
  <2>4. CASE f = Len(fs)
      BY <1>1, <1>2, <1>3, <2>2, <2>4
  <2> QED BY <2>3, <2>4
<1> QED BY <1>3, <1>4, <1>5, <1>6, <1>7 DEF path, gs

\* What is kept of the innermost path is the first m of its blocks; what is
\* above them is no try.
LEMMA BlocksClosed ==
    ASSUME NEW fs \in Stacks, fs # << >>, NEW path \in Paths, NEW m \in 0 .. Len(path),
           m <= Len(Last(fs)),
           \A k \in 1 .. m : path[k] = Last(fs)[k],
           \A k \in m + 1 .. Len(path) : path[k].kind # "try"
    PROVE  LET gs == Goes(fs, path)
           IN  /\ gs \in Stacks /\ gs # << >> /\ Len(gs) = Len(fs) /\ Last(gs) = path
               /\ Tries(gs) = Below(fs, <<Len(fs), m>>)
               /\ Agree(gs, fs)
<1> DEFINE gs == Goes(fs, path)
<1>1. /\ Len(fs) \in Nat /\ Len(fs) > 0 /\ Last(fs) = fs[Len(fs)] /\ Last(fs) \in Paths
      /\ Len(Last(fs)) \in Nat /\ Len(path) \in Nat
    BY LastPath, LenProperties DEF Paths
<1>3. /\ gs \in Stacks /\ Len(gs) = Len(fs) /\ gs # << >> /\ gs[Len(fs)] = path
      /\ \A f \in 1 .. Len(fs) : f # Len(fs) => gs[f] = fs[f]
    BY PathReplaced DEF Goes
<1>4. Last(gs) = path
    BY <1>3 DEF Last
<1> HIDE DEF gs
<1>5. ASSUME NEW t
      PROVE  t \in Tries(gs) <=> t \in Tries(fs) /\ ~(t[1] = Len(fs) /\ t[2] > m)
  <2>1. t \in Tries(gs) <=> \/ t \in Tries(fs) /\ t[1] # Len(fs)
                            \/ \E k \in 1 .. Len(path) : t = <<Len(fs), k>> /\ path[k].kind = "try"
      BY TriesAfter DEF gs
  <2>2. t \in Tries(fs) <=> \E f \in 1 .. Len(fs) : \E k \in 1 .. Len(fs[f]) : t = <<f, k>> /\ fs[f][k].kind = "try"
      BY TryIsOpen
  <2>3. (\E k \in 1 .. Len(path) : t = <<Len(fs), k>> /\ path[k].kind = "try")
            <=> \E k \in 1 .. m : t = <<Len(fs), k>> /\ Last(fs)[k].kind = "try"
      BY <1>1
  <2>4. (t \in Tries(fs) /\ t[1] = Len(fs) /\ ~(t[2] > m))
            <=> \E k \in 1 .. m : t = <<Len(fs), k>> /\ Last(fs)[k].kind = "try"
      BY <1>1, <2>2
  <2> QED BY <2>1, <2>3, <2>4
<1>6. Tries(gs) = Below(fs, <<Len(fs), m>>)
    BY <1>5 DEF Below
<1>7. Agree(gs, fs)
  <2> SUFFICES ASSUME NEW t \in Tries(gs), t \in Tries(fs), NEW j \in 1 .. t[2]
               PROVE  gs[t[1]][j] = fs[t[1]][j]
      BY DEF Agree
  <2>1. PICK f \in 1 .. Len(fs) : \E k \in 1 .. Len(fs[f]) : t = <<f, k>>
      BY TryIsOpen
  <2>2. t[1] = f /\ t[2] \in 1 .. Len(fs[f])
      BY <2>1
  <2>3. CASE f # Len(fs)
      BY <1>3, <2>2, <2>3
  <2>4. CASE f = Len(fs)
    <3>1. ~(t[2] > m)
        BY <1>5, <2>2, <2>4
    <3> QED BY <1>1, <1>3, <2>2, <2>4, <3>1
  <2> QED BY <2>3, <2>4
<1> QED BY <1>3, <1>4, <1>6, <1>7 DEF gs

LEMMA FrameEntered ==
    ASSUME NEW fs \in Stacks, fs # << >>
    PROVE  LET gs == Append(fs, << >>)
           IN  /\ gs \in Stacks /\ gs # << >> /\ Len(gs) = Len(fs) + 1 /\ Last(gs) = << >>
               /\ Tries(gs) = Tries(fs)
               /\ Agree(gs, fs)
<1> DEFINE gs == Append(fs, << >>)
<1>1. Len(fs) \in Nat /\ << >> \in Paths
    BY LenProperties, EmptySeq DEF Stacks, Paths
<1>2. /\ gs \in Stacks /\ gs # << >> /\ Len(gs) = Len(fs) + 1
      /\ \A f \in 1 .. Len(fs) : gs[f] = fs[f]
      /\ gs[Len(fs) + 1] = << >>
    BY <1>1, AppendProperties DEF Stacks
<1>3. Last(gs) = << >> /\ Len(gs[Len(fs) + 1]) = 0
    BY <1>2, EmptySeq DEF Last
<1> HIDE DEF gs
<1>4. ASSUME NEW t
      PROVE  t \in Tries(gs) <=> t \in Tries(fs)
  <2>1. t \in Tries(gs) <=> \E f \in 1 .. Len(gs) : \E k \in 1 .. Len(gs[f]) : t = <<f, k>> /\ gs[f][k].kind = "try"
      BY <1>2, TryIsOpen, SMTT(30)
  <2>2. t \in Tries(fs) <=> \E f \in 1 .. Len(fs) : \E k \in 1 .. Len(fs[f]) : t = <<f, k>> /\ fs[f][k].kind = "try"
      BY TryIsOpen
  <2> QED BY <1>1, <1>2, <1>3, <2>1, <2>2
<1>5. Agree(gs, fs)
  <2> SUFFICES ASSUME NEW t \in Tries(fs), NEW j \in 1 .. t[2]
               PROVE  gs[t[1]][j] = fs[t[1]][j]
      BY DEF Agree
  <2>1. t[1] \in 1 .. Len(fs)
      BY TryIsOpen
  <2> QED BY <1>2, <2>1
<1> QED BY <1>2, <1>3, <1>4, <1>5 DEF gs

LEMMA FramesLeft ==
    ASSUME NEW fs \in Stacks, fs # << >>, NEW m \in 1 .. Len(fs)
    PROVE  LET gs == SubSeq(fs, 1, m)
           IN  /\ gs \in Stacks /\ gs # << >> /\ Len(gs) = m
               /\ Tries(gs) = {t \in Tries(fs) : t[1] <= m}
               /\ Agree(gs, fs)
               /\ \A f \in 1 .. m : gs[f] = fs[f]
<1> DEFINE gs == SubSeq(fs, 1, m)
<1>1. Len(fs) \in Nat /\ \A f \in 1 .. m : fs[f] \in Paths
    BY LenProperties, ElementOfSeq DEF Stacks
<1>2. /\ gs \in Stacks /\ Len(gs) = (IF 1 <= m THEN m - 1 + 1 ELSE 0)
      /\ \A f \in 1 .. m - 1 + 1 : gs[f] = fs[1 + f - 1]
    BY <1>1, SubSeqProperties DEF Stacks
<1>3. Len(gs) = m /\ \A f \in 1 .. m : gs[f] = fs[f]
    BY <1>1, <1>2
<1>4. gs # << >>
    BY <1>3, EmptySeq
<1> HIDE DEF gs
<1>5. ASSUME NEW t
      PROVE  t \in Tries(gs) <=> t \in Tries(fs) /\ t[1] <= m
  <2>1. t \in Tries(gs) <=> \E f \in 1 .. Len(gs) : \E k \in 1 .. Len(gs[f]) : t = <<f, k>> /\ gs[f][k].kind = "try"
      BY <1>2, TryIsOpen, SMTT(30)
  <2>2. t \in Tries(fs) <=> \E f \in 1 .. Len(fs) : \E k \in 1 .. Len(fs[f]) : t = <<f, k>> /\ fs[f][k].kind = "try"
      BY TryIsOpen
  <2>3. ASSUME t \in Tries(gs) PROVE t \in Tries(fs) /\ t[1] <= m
    <3>1. PICK f \in 1 .. Len(gs) : \E k \in 1 .. Len(gs[f]) : t = <<f, k>> /\ gs[f][k].kind = "try"
        BY <2>1, <2>3
    <3>2. gs[f] = fs[f] /\ f \in 1 .. Len(fs) /\ f <= m
        BY <1>1, <1>3
    <3>3. t[1] = f
        BY <3>1
    <3> QED BY <2>2, <3>1, <3>2, <3>3
  <2>4. ASSUME t \in Tries(fs), t[1] <= m PROVE t \in Tries(gs)
    <3>1. PICK f \in 1 .. Len(fs) : \E k \in 1 .. Len(fs[f]) : t = <<f, k>> /\ fs[f][k].kind = "try"
        BY <2>2, <2>4
    <3>2. t[1] = f
        BY <3>1
    <3>3. f \in 1 .. Len(gs) /\ gs[f] = fs[f]
        BY <1>1, <1>3, <2>4, <3>2
    <3> QED BY <2>1, <3>1, <3>3
  <2> QED BY <2>3, <2>4
<1>6. Agree(gs, fs)
  <2> SUFFICES ASSUME NEW t \in Tries(gs), NEW j \in 1 .. t[2]
               PROVE  gs[t[1]][j] = fs[t[1]][j]
      BY DEF Agree
  <2>1. t[1] \in 1 .. Len(gs)
      BY <1>2, TryIsOpen
  <2> QED BY <1>3, <2>1
<1> QED BY <1>2, <1>3, <1>4, <1>5, <1>6 DEF gs

LEMMA InnermostClosed ==
    ASSUME NEW fs \in Stacks, fs # << >>, Last(fs) # << >>
    PROVE  /\ Below(fs, <<Len(fs), Len(Last(fs)) - 1>>) = Tries(fs) \ {<<Len(fs), Len(Last(fs))>>}
           /\ <<Len(fs), Len(Last(fs))>> \in Tries(fs) <=> Last(Last(fs)).kind = "try"
<1>1. /\ Len(fs) \in Nat /\ Len(fs) > 0 /\ Last(fs) = fs[Len(fs)] /\ Last(fs) \in Paths
      /\ Len(Last(fs)) \in Nat /\ Len(Last(fs)) >= 1
    BY LastPath, FrontIsCut
<1>2. ASSUME NEW t \in Tries(fs)
      PROVE  (t[1] = Len(fs) /\ t[2] > Len(Last(fs)) - 1) <=> t = <<Len(fs), Len(Last(fs))>>
  <2>1. PICK f \in 1 .. Len(fs) : \E k \in 1 .. Len(fs[f]) : t = <<f, k>>
      BY TryIsOpen
  <2>2. t[1] = f /\ t[2] \in 1 .. Len(fs[f]) /\ t = <<t[1], t[2]>>
      BY <2>1
  <2>3. CASE f = Len(fs)
      BY <1>1, <2>2, <2>3
  <2>4. CASE f # Len(fs)
      BY <2>2, <2>4
  <2> QED BY <2>3, <2>4
<1>3. Below(fs, <<Len(fs), Len(Last(fs)) - 1>>) = Tries(fs) \ {<<Len(fs), Len(Last(fs))>>}
    BY <1>2 DEF Below
<1>4. <<Len(fs), Len(Last(fs))>> \in Tries(fs) <=> fs[Len(fs)][Len(Last(fs))].kind = "try"
    BY <1>1, TryIsOpen
<1>5. Last(Last(fs)) = fs[Len(fs)][Len(Last(fs))]
    BY <1>1 DEF Last
<1> QED BY <1>3, <1>4, <1>5

LEMMA NothingAbove ==
    ASSUME NEW fs \in Stacks, fs # << >>, NEW m \in 0 .. Len(Last(fs)),
           \A k \in m + 1 .. Len(Last(fs)) : Last(fs)[k].kind # "try"
    PROVE  Below(fs, <<Len(fs), m>>) = Tries(fs)
<1>1. Len(fs) \in Nat /\ Last(fs) = fs[Len(fs)] /\ Len(Last(fs)) \in Nat
    BY LastPath
<1>2. ASSUME NEW t \in Tries(fs)
      PROVE  ~(t[1] = Len(fs) /\ t[2] > m)
  <2>1. PICK f \in 1 .. Len(fs) : \E k \in 1 .. Len(fs[f]) : t = <<f, k>> /\ fs[f][k].kind = "try"
      BY TryIsOpen
  <2>2. t[1] = f /\ t[2] \in 1 .. Len(fs[f]) /\ fs[f][t[2]].kind = "try"
      BY <2>1
  <2> QED BY <1>1, <2>2
<1> QED BY <1>2 DEF Below

\* A frame in which no try is open.
LEMMA FrameWithoutTries ==
    ASSUME NEW fs \in Stacks, Len(fs) > 1, \A k \in 1 .. Len(Last(fs)) : Last(fs)[k].kind # "try"
    PROVE  /\ Front(fs) \in Stacks /\ Front(fs) # << >>
           /\ Tries(Front(fs)) = Tries(fs)
<1>1. fs # << >> /\ Len(fs) \in Nat
    BY EmptySeq, LenProperties DEF Stacks
<1>2. Last(fs) = fs[Len(fs)] /\ Len(Last(fs)) \in Nat
    BY <1>1, LastPath
<1>3. Front(fs) = SubSeq(fs, 1, Len(fs) - 1) /\ Len(fs) - 1 \in 1 .. Len(fs)
    BY <1>1 DEF Front
<1>4. /\ Front(fs) \in Stacks /\ Front(fs) # << >>
      /\ Tries(Front(fs)) = {t \in Tries(fs) : t[1] <= Len(fs) - 1}
    BY <1>1, <1>3, FramesLeft
<1>5. ASSUME NEW t \in Tries(fs)
      PROVE  t[1] <= Len(fs) - 1
  <2>1. PICK f \in 1 .. Len(fs) : \E k \in 1 .. Len(fs[f]) : t = <<f, k>> /\ fs[f][k].kind = "try"
      BY TryIsOpen
  <2>2. f # Len(fs)
      BY <1>2, <2>1
  <2> QED BY <1>1, <2>1, <2>2
<1> QED BY <1>4, <1>5

\* The blocks programs open are blocks.
LEMMA BlocksAreItems ==
    /\ I!Loop \in I!Items /\ I!Loop.kind = "loop"
    /\ \A cs \in Seq(Type \cup {NoType}) : I!Try(cs) \in I!Items /\ I!Try(cs).kind = "try"
    /\ \A c \in Type \cup {NoType} : I!Clause(c) \in I!Items /\ I!Clause(c).kind = "clause"
<1>1. << >> \in Seq(Type \cup {NoType})
    BY EmptySeq
<1> QED BY <1>1 DEF I!Loop, I!Try, I!Clause, I!Item, I!Items

\* The clause that takes a failure is one of its try's.
LEMMA ClauseIsTaken ==
    ASSUME NEW block \in I!Items, NEW v, I!Taken(block.clauses, v) # {}
    PROVE  block.clauses[I!Min(I!Taken(block.clauses, v))] \in Type \cup {NoType}
<1> DEFINE cs == block.clauses
<1>1. cs \in Seq(Type \cup {NoType})
    BY DEF I!Items
<1>2. Len(cs) \in Nat /\ DOMAIN cs = 1 .. Len(cs)
    BY <1>1, LenProperties
<1>3. I!Taken(cs, v) \subseteq 1 .. Len(cs)
    BY <1>2 DEF I!Taken
<1>4. I!Taken(cs, v) \subseteq 0 .. Len(cs)
    BY <1>2, <1>3
<1>5. I!Min(I!Taken(cs, v)) \in I!Taken(cs, v)
    BY <1>2, <1>4, FirstIsThere
<1> QED BY <1>1, <1>3, <1>5, ElementOfSeq

-------------------------------------------------------------------------------
(* Compiled programs.  The count is off by one between a catch label, where *)
(* the try has counted itself out, and its clauses, where it is left.       *)
LabelIsATry == label => unwinding /\ Path # << >> /\ Last(Path).kind = "try"
NInv == TypeOK /\ LabelIsATry /\ DepthCountsOpenTries

LEMMA OpenTriesAreTries == OpenTries = Tries(frames)
BY DEF OpenTries, Tries

LEMMA OpenTriesAreTriesNext == OpenTries' = Tries(frames')
BY DEF OpenTries, Tries, TriesIn

LEMMA NativeMoves == ASSUME NEW path, Goto(path) PROVE frames' = Goes(frames, path)
BY DEF Goto, Goes

LEMMA StacksAreSequences == Stacks = Seq(Seq(I!Items))
BY DEF Stacks, Paths

LEMMA NativeInit == Init => NInv
<1> SUFFICES ASSUME Init PROVE NInv
    OBVIOUS
<1>1. << >> \in Seq(I!Items)
    BY EmptySeq
<1>2. frames \in Stacks /\ frames # << >> /\ Len(frames) = 1 /\ frames[1] = << >>
    BY <1>1, StacksAreSequences DEF Init
<1>3. TypeOK
    BY <1>2, StacksAreSequences DEF Init, TypeOK
<1>4. Tries(frames) = {}
  <2> SUFFICES ASSUME NEW t \in Tries(frames) PROVE FALSE
      OBVIOUS
  <2>1. Len(frames[1]) = 0
      BY <1>2, EmptySeq
  <2> QED BY <1>2, <2>1, TryIsOpen
<1>5. DepthCountsOpenTries
    BY <1>4, OpenTriesAreTries, FS_EmptySet DEF Init, DepthCountsOpenTries
<1> QED BY <1>3, <1>5 DEF NInv, LabelIsATry, Init

LEMMA NativeStep ==
    ASSUME ~JumpsLeaveTries, NInv, [Next]_vars
    PROVE  NInv'
<1> DEFINE open == Cardinality(Tries(frames))
           path == Last(frames)
<1>1. /\ frames \in Stacks /\ frames # << >> /\ IsFiniteSet(Tries(frames)) /\ open \in Nat
      /\ depth \in Nat /\ unwinding \in BOOLEAN /\ hasValue \in BOOLEAN /\ label \in BOOLEAN
      /\ value \in Type \cup {NoType} /\ out \in {"none", "done", "uncaught"}
    BY CountedTries, StacksAreSequences DEF NInv, TypeOK
<1>2. out = "none" => depth = open - (IF label THEN 1 ELSE 0)
    BY OpenTriesAreTries DEF NInv, DepthCountsOpenTries
<1>3. label => unwinding /\ path # << >> /\ Last(path).kind = "try"
    BY DEF NInv, LabelIsATry, Path
<1>4. /\ Len(frames) \in Nat /\ Len(frames) > 0 /\ path = frames[Len(frames)] /\ path \in Paths
      /\ Len(path) \in Nat
    BY <1>1, LastPath
<1>5. Path = path
    BY DEF Path
<1>6. (Running => out = "none" /\ ~label /\ depth = open) /\ (Unwinding => out = "none" /\ ~label /\ depth = open)
    BY <1>1, <1>2, <1>3 DEF Running, Unwinding
\* What there is to show of a step.
<1>7. ASSUME frames' \in Stacks, frames' # << >>, depth' \in Nat,
             unwinding' \in BOOLEAN, hasValue' \in BOOLEAN, label' \in BOOLEAN,
             value' \in Type \cup {NoType}, out' \in {"none", "done", "uncaught"},
             label' => unwinding' /\ Last(frames') # << >> /\ Last(Last(frames')).kind = "try",
             out' = "none" => depth' = Cardinality(Tries(frames')) - (IF label' THEN 1 ELSE 0)
      PROVE  NInv'
  <2>1. TypeOK'
      BY <1>7, StacksAreSequences DEF TypeOK
  <2>2. LabelIsATry'
      BY <1>7 DEF LabelIsATry, Path
  <2>3. DepthCountsOpenTries'
      BY <1>7, OpenTriesAreTriesNext DEF DepthCountsOpenTries
  <2> QED BY <2>1, <2>2, <2>3 DEF NInv
<1> HIDE DEF path
<1>8. ASSUME NEW cs \in ClauseLists, EnterTry(cs)
      PROVE  NInv'
  <2>1. I!Try(cs) \in I!Items /\ I!Try(cs).kind = "try"
      BY BlocksAreItems, ProgramsAssumption DEF I!TypesAssumption
  <2>2. frames' = Goes(frames, Append(path, I!Try(cs)))
      BY <1>5, <1>8, NativeMoves DEF EnterTry
  <2>3. /\ frames' \in Stacks /\ frames' # << >>
        /\ Tries(frames') = Tries(frames) \cup {<<Len(frames), Len(path) + 1>>}
        /\ <<Len(frames), Len(path) + 1>> \notin Tries(frames)
      BY <1>1, <2>1, <2>2, BlockOpened DEF path
  <2>4. Cardinality(Tries(frames')) = open + 1
      BY <1>1, <2>3, FS_AddElement
  <2>5. Running /\ depth' = depth + 1 /\ UNCHANGED <<unwinding, hasValue, value, label, out>>
      BY <1>8 DEF EnterTry, UnwindState
  <2> HIDE DEF open
  <2> QED BY <1>1, <1>6, <1>7, <2>3, <2>4, <2>5
\* Nothing but the path changes, and no try in it.
<1>9. ASSUME Running, UNCHANGED <<depth, unwinding, hasValue, value, label, out>>,
             frames' \in Stacks, frames' # << >>, Tries(frames') = Tries(frames)
      PROVE  NInv'
    BY <1>1, <1>2, <1>6, <1>7, <1>9
<1>10. CASE EnterLoop
  <2>1. frames' = Goes(frames, Append(path, I!Loop))
      BY <1>5, <1>10, NativeMoves DEF EnterLoop
  <2>2. frames' \in Stacks /\ frames' # << >> /\ Tries(frames') = Tries(frames)
      BY <1>1, <2>1, BlockOpened, BlocksAreItems DEF path
  <2> QED BY <1>9, <1>10, <2>2 DEF EnterLoop, UnwindState
<1>11. CASE CallFunction
  <2>1. frames' \in Stacks /\ frames' # << >> /\ Tries(frames') = Tries(frames)
      BY <1>1, <1>11, FrameEntered DEF CallFunction
  <2> QED BY <1>9, <1>11, <2>1 DEF CallFunction, UnwindState
\* The innermost block ends.
<1>12. ASSUME path # << >>, frames' = Goes(frames, Front(path))
       PROVE  /\ frames' \in Stacks /\ frames' # << >>
              /\ Tries(frames') = Tries(frames) \ {<<Len(frames), Len(path)>>}
              /\ <<Len(frames), Len(path)>> \in Tries(frames) <=> Last(path).kind = "try"
  <2>1. Front(path) = I!Upto(path, Len(path) - 1) /\ Len(path) - 1 \in 0 .. Len(path) /\ Len(path) >= 1
      BY <1>4, <1>12, FrontIsCut
  <2>2. /\ Front(path) \in Paths /\ Len(Front(path)) = Len(path) - 1
        /\ \A k \in 1 .. Len(path) - 1 : Front(path)[k] = path[k]
      BY <1>4, <2>1, PathCut
  <2>3. Len(path) - 1 \in 0 .. Len(Front(path)) /\ Len(path) - 1 <= Len(path)
      BY <1>4, <2>1, <2>2
  <2>4. \A k \in Len(path) - 1 + 1 .. Len(Front(path)) : Front(path)[k].kind # "try"
      BY <1>4, <2>1, <2>2
  <2>5. /\ frames' \in Stacks /\ frames' # << >> /\ Tries(frames') = Below(frames, <<Len(frames), Len(path) - 1>>)
      BY <1>1, <1>12, <2>2, <2>3, <2>4, BlocksClosed DEF path
  <2> QED BY <1>1, <1>12, <2>5, InnermostClosed DEF path
<1>13. CASE EndTry
  <2>1. path # << >> /\ Last(path).kind = "try" /\ frames' = Goes(frames, Front(path))
      BY <1>5, <1>13, NativeMoves DEF EndTry
  <2>2. /\ frames' \in Stacks /\ frames' # << >>
        /\ Tries(frames') = Tries(frames) \ {<<Len(frames), Len(path)>>}
        /\ <<Len(frames), Len(path)>> \in Tries(frames)
      BY <1>12, <2>1
  <2>3. Cardinality(Tries(frames')) = open - 1
    <3>1. Cardinality(Tries(frames) \ {<<Len(frames), Len(path)>>}) = open - 1
        BY <1>1, <2>2, FS_RemoveElement
    <3> QED BY <2>2, <3>1
  <2>4. open > 0
      BY <1>1, <2>2, FS_EmptySet
  <2>5. Running /\ depth' = depth - 1 /\ UNCHANGED <<unwinding, hasValue, value, label, out>>
      BY <1>13 DEF EndTry, LeaveCounted, UnwindState
  <2> HIDE DEF open
  <2> QED BY <1>1, <1>6, <1>7, <2>2, <2>3, <2>4, <2>5
<1>14. CASE EndBlock
  <2>1. path # << >> /\ Last(path).kind # "try" /\ frames' = Goes(frames, Front(path))
      BY <1>5, <1>14, NativeMoves DEF EndBlock
  <2>2. frames' \in Stacks /\ frames' # << >> /\ Tries(frames') = Tries(frames)
      BY <1>12, <2>1
  <2> QED BY <1>9, <1>14, <2>2 DEF EndBlock, UnwindState
<1>15. ASSUME NEW m \in 0 .. Len(path), MayJump(path, m)
       PROVE  \A k \in m + 1 .. Len(path) : path[k].kind # "try"
  <2>1. TriesIn(path) \subseteq 1 .. m /\ DOMAIN path = 1 .. Len(path)
      BY <1>4, <1>15, LenProperties DEF MayJump, Paths
  <2>2. \A k \in 1 .. Len(path) : path[k].kind = "try" => k \in 1 .. m
      BY <2>1 DEF TriesIn
  <2> QED BY <1>4, <2>2
<1>16. CASE Return
  <2>1. \A k \in 1 .. Len(path) : path[k].kind # "try"
      BY <1>4, <1>5, <1>15, <1>16 DEF Return
  <2>2. frames' \in Stacks /\ frames' # << >> /\ Tries(frames') = Tries(frames)
      BY <1>1, <1>16, <2>1, FrameWithoutTries DEF Return, path
  <2> QED BY <1>9, <1>16, <2>2 DEF Return, UnwindState
\* A jump inside a function, to the block at m or out of it.
<1>17. ASSUME NEW m \in 0 .. Len(path), frames' = Goes(frames, I!Upto(path, m)),
              \A k \in m + 1 .. Len(path) : path[k].kind # "try"
       PROVE  /\ frames' \in Stacks /\ frames' # << >> /\ Tries(frames') = Tries(frames)
              /\ Last(frames') = I!Upto(path, m)
  <2>1. /\ I!Upto(path, m) \in Paths /\ Len(I!Upto(path, m)) = m
        /\ \A k \in 1 .. m : I!Upto(path, m)[k] = path[k]
      BY <1>4, PathCut
  <2>2. m \in 0 .. Len(I!Upto(path, m)) /\ m <= Len(path)
      BY <1>4, <2>1
  <2>3. \A k \in m + 1 .. Len(I!Upto(path, m)) : I!Upto(path, m)[k].kind # "try"
      BY <2>1, <2>2
  <2>4. /\ frames' \in Stacks /\ frames' # << >> /\ Tries(frames') = Below(frames, <<Len(frames), m>>)
        /\ Last(frames') = I!Upto(path, m)
      BY <1>1, <1>17, <2>1, <2>2, <2>3, BlocksClosed DEF path
  <2> QED BY <1>1, <1>17, <2>4, NothingAbove DEF path
<1>18. /\ LoopAt \in 0 .. Len(path) /\ (LoopAt > 0 => path[LoopAt].kind = "loop")
       /\ TryAt \in 0 .. Len(path) /\ (TryAt > 0 => path[TryAt].kind = "try")
       /\ \A j \in 1 .. Len(path) : path[j].kind = "try" => j <= TryAt
    BY <1>4, <1>5, InnermostIsThere DEF LoopAt, TryAt
<1>19. CASE Continue
  <2>1. \A k \in LoopAt + 1 .. Len(path) : path[k].kind # "try"
      BY <1>5, <1>15, <1>18, <1>19 DEF Continue
  <2>2. frames' = Goes(frames, I!Upto(path, LoopAt))
      BY <1>5, <1>19, NativeMoves DEF Continue
  <2>3. frames' \in Stacks /\ frames' # << >> /\ Tries(frames') = Tries(frames)
      BY <1>17, <1>18, <2>1, <2>2
  <2> QED BY <1>9, <1>19, <2>3 DEF Continue, UnwindState
<1>20. CASE Break
  <2>1. \A k \in LoopAt + 1 .. Len(path) : path[k].kind # "try"
      BY <1>5, <1>15, <1>18, <1>20 DEF Break
  <2>2. LoopAt > 0 /\ frames' = Goes(frames, I!Upto(path, LoopAt - 1))
      BY <1>5, <1>20, NativeMoves DEF Break
  <2>3. LoopAt - 1 \in 0 .. Len(path) /\ \A k \in LoopAt - 1 + 1 .. Len(path) : path[k].kind # "try"
      BY <1>4, <1>18, <2>1, <2>2
  <2>4. frames' \in Stacks /\ frames' # << >> /\ Tries(frames') = Tries(frames)
      BY <1>17, <2>2, <2>3
  <2> QED BY <1>9, <1>20, <2>4 DEF Break, UnwindState
<1>21. CASE Panic
    BY <1>1, <1>2, <1>6, <1>7, <1>21 DEF Panic
<1>22. ASSUME NEW v \in Type \ {Str}, ThrowValue(v)
       PROVE  NInv'
    BY <1>1, <1>2, <1>6, <1>7, <1>22 DEF ThrowValue
<1>23. CASE UnwindToCatch
  <2>1. \A k \in TryAt + 1 .. Len(path) : path[k].kind # "try"
      BY <1>4, <1>18
  <2>2. TryAt > 0 /\ frames' = Goes(frames, I!Upto(path, TryAt))
      BY <1>5, <1>23, NativeMoves DEF UnwindToCatch
  <2>3. /\ frames' \in Stacks /\ frames' # << >> /\ Tries(frames') = Tries(frames)
        /\ Last(frames') = I!Upto(path, TryAt)
      BY <1>17, <1>18, <2>1, <2>2
  <2>4. /\ I!Upto(path, TryAt) \in Paths /\ Len(I!Upto(path, TryAt)) = TryAt
        /\ I!Upto(path, TryAt)[TryAt] = path[TryAt]
      BY <1>4, <1>18, <2>2, PathCut
  <2>5. Last(frames') # << >> /\ Last(Last(frames')).kind = "try"
      BY <1>18, <2>2, <2>3, <2>4, EmptySeq DEF Last, Paths
  <2>6. <<Len(frames), TryAt>> \in Tries(frames)
      BY <1>1, <1>4, <1>18, <2>2, TryIsOpen
  <2>7. open > 0
      BY <1>1, <2>6, FS_EmptySet
  <2>8. Unwinding /\ depth' = depth - 1 /\ label' = TRUE /\ UNCHANGED <<unwinding, hasValue, value, out>>
      BY <1>23 DEF UnwindToCatch, LeaveCounted
  <2>9. unwinding
      BY <2>8 DEF Unwinding
  <2>10. depth = open /\ Cardinality(Tries(frames')) = open
      BY <1>6, <2>3, <2>8
  <2> HIDE DEF open
  <2> QED BY <1>1, <1>7, <2>3, <2>5, <2>7, <2>8, <2>9, <2>10
<1>24. CASE UnwindFrame
  <2>1. UNCHANGED <<depth, unwinding, hasValue, value, label>> /\ ~label /\ out = "none"
      BY <1>6, <1>24 DEF UnwindFrame, UnwindState
  <2>2. CASE Len(frames) > 1
    <3>1. \A k \in 1 .. Len(path) : path[k].kind # "try"
        BY <1>4, <1>18, <1>24 DEF UnwindFrame
    <3>2. frames' \in Stacks /\ frames' # << >> /\ Tries(frames') = Tries(frames)
        BY <1>1, <1>24, <2>2, <3>1, FrameWithoutTries DEF UnwindFrame, path
    <3>3. out' = out
        BY <1>24, <2>2 DEF UnwindFrame
    <3> QED BY <1>1, <1>2, <1>7, <2>1, <3>2, <3>3
  <2>3. CASE ~(Len(frames) > 1)
      BY <1>1, <1>7, <1>24, <2>1, <2>3 DEF UnwindFrame
  <2> QED BY <2>2, <2>3
<1>25. ASSUME label
       PROVE  /\ Cardinality(Tries(frames) \ {<<Len(frames), Len(path)>>}) = open - 1
              /\ path # << >>
    BY <1>1, <1>3, <1>25, InnermostClosed, FS_RemoveElement DEF path
<1>26. CASE Catch
  <2> DEFINE item == I!Clause(Last(path).clauses[FirstOf(Taken)])
             shut == Append(Front(path), item)
  <2>1. label /\ out = "none" /\ path # << >> /\ Last(path).kind = "try"
      BY <1>3, <1>26 DEF Catch
  <2>2. Last(path) \in I!Items
      BY <1>4, <2>1, EmptySeq, LenProperties, ElementOfSeq DEF Paths, Last
  <2>3. item \in I!Items /\ item.kind = "clause"
      BY <1>5, <1>26, <2>2, ClauseIsTaken, BlocksAreItems DEF Catch, Taken, FirstOf
  <2>4. Front(path) = I!Upto(path, Len(path) - 1) /\ Len(path) - 1 \in 0 .. Len(path) /\ Len(path) >= 1
      BY <1>4, <2>1, FrontIsCut
  <2>5. /\ Front(path) \in Paths /\ Len(Front(path)) = Len(path) - 1
        /\ \A k \in 1 .. Len(path) - 1 : Front(path)[k] = path[k]
      BY <1>4, <2>4, PathCut
  <2> HIDE DEF item
  <2>6. /\ shut \in Paths /\ Len(shut) = Len(path)
        /\ \A k \in 1 .. Len(path) - 1 : shut[k] = path[k]
        /\ shut[Len(path)] = item
      BY <1>4, <2>3, <2>4, <2>5, PathGrows
  <2>7. frames' = Goes(frames, shut)
      BY <1>5, <1>26, NativeMoves DEF Catch, item
  <2> HIDE DEF shut
  <2>8. \A k \in Len(path) - 1 + 1 .. Len(shut) : shut[k].kind # "try"
      BY <1>4, <2>3, <2>6
  <2>9. Len(path) - 1 \in 0 .. Len(shut) /\ Len(path) - 1 <= Len(path)
      BY <1>4, <2>4, <2>6
  <2>10. /\ frames' \in Stacks /\ frames' # << >>
         /\ Tries(frames') = Below(frames, <<Len(frames), Len(path) - 1>>)
      BY <1>1, <2>6, <2>7, <2>8, <2>9, BlocksClosed DEF path
  <2>11. Tries(frames') = Tries(frames) \ {<<Len(frames), Len(path)>>}
      BY <1>1, <2>1, <2>10, InnermostClosed DEF path
  <2>12. ~label' /\ label' \in BOOLEAN /\ unwinding' = FALSE /\ hasValue' = FALSE /\ UNCHANGED <<depth, value, out>>
      BY <1>26 DEF Catch
  <2>13. depth' = Cardinality(Tries(frames'))
      BY <1>2, <1>25, <2>1, <2>11, <2>12
  <2>14. depth' \in Nat /\ depth' = Cardinality(Tries(frames')) - (IF label' THEN 1 ELSE 0)
      BY <1>1, <2>12, <2>13
  <2> QED BY <1>1, <1>7, <2>10, <2>12, <2>14
<1>27. CASE PassOn
  <2>1. label /\ out = "none" /\ path # << >> /\ Last(path).kind = "try" /\ frames' = Goes(frames, Front(path))
      BY <1>3, <1>5, <1>27, NativeMoves DEF PassOn
  <2>2. /\ frames' \in Stacks /\ frames' # << >>
        /\ Tries(frames') = Tries(frames) \ {<<Len(frames), Len(path)>>}
      BY <1>12, <2>1
  <2>3. label' = FALSE /\ UNCHANGED <<depth, unwinding, hasValue, value, out>>
      BY <1>27 DEF PassOn
  <2>4. depth' = Cardinality(Tries(frames'))
      BY <1>2, <1>25, <2>1, <2>2, <2>3
  <2>5. depth' \in Nat /\ depth' = Cardinality(Tries(frames')) - (IF label' THEN 1 ELSE 0)
      BY <1>1, <2>3, <2>4
  <2> QED BY <1>1, <1>7, <2>2, <2>3, <2>5
<1>28. CASE Finish
    BY <1>1, <1>2, <1>6, <1>7, <1>28 DEF Finish, UnwindState
<1>29. CASE UNCHANGED vars
    BY <1>1, <1>2, <1>3, <1>7, <1>29 DEF vars, path
<1> QED BY <1>8, <1>10, <1>11, <1>13, <1>14, <1>16, <1>19, <1>20, <1>21, <1>22, <1>23, <1>24,
           <1>26, <1>27, <1>28, <1>29
        DEF Next

\* Every step of a compiled program keeps the invariant, if it does not jump
\* out of a try (JumpsLeaveTries).
LEMMA NativeAlways == ASSUME ~JumpsLeaveTries PROVE Spec => []NInv
<1>1. Init => NInv
    BY NativeInit
<1>2. NInv /\ [Next]_vars => NInv'
    BY NativeStep
<1> QED BY <1>1, <1>2, PTL DEF Spec

-------------------------------------------------------------------------------
(* The VM.  A handler is at the try it was pushed for, and remembers the   *)
(* blocks around it; handlers lie in the order their tries were opened.    *)
Handlers == Seq([frames_len : Nat \ {0}, target : Paths])
Place(h) == <<h.frames_len, Len(h.target)>>
Earlier(g, h) ==
    \/ g.frames_len < h.frames_len
    \/ g.frames_len = h.frames_len /\ Len(g.target) < Len(h.target)
Match(fs, hs, open) ==
    /\ {Place(hs[i]) : i \in 1 .. Len(hs)} = open
    /\ \A i, j \in 1 .. Len(hs) : i < j => Earlier(hs[i], hs[j])
    /\ \A i \in 1 .. Len(hs) : \A k \in 1 .. Len(hs[i].target) : hs[i].target[k] = fs[hs[i].frames_len][k]

LEMMA HandlerTypes ==
    ASSUME NEW hs \in Handlers
    PROVE  /\ Len(hs) \in Nat /\ DOMAIN hs = 1 .. Len(hs)
           /\ \A i \in 1 .. Len(hs) : /\ hs[i].frames_len \in Nat /\ hs[i].target \in Paths
                                      /\ Len(hs[i].target) \in Nat
<1>1. Len(hs) \in Nat /\ DOMAIN hs = 1 .. Len(hs)
    BY LenProperties DEF Handlers
<1>2. \A i \in 1 .. Len(hs) : hs[i] \in [frames_len : Nat \ {0}, target : Paths]
    BY ElementOfSeq DEF Handlers
<1>3. \A path \in Paths : Len(path) \in Nat
    BY LenProperties DEF Paths
<1> QED BY <1>1, <1>2, <1>3

\* Handlers are popped from the end: what is left is at the tries that are
\* left, if they are those of the first handlers.
LEMMA HandlersKept ==
    ASSUME NEW fs \in Stacks, NEW gs \in Stacks, NEW hs \in Handlers, NEW open, NEW kept,
           NEW m \in 0 .. Len(hs),
           Match(fs, hs, open), open \subseteq Tries(fs), kept \subseteq open, kept \subseteq Tries(gs), Agree(gs, fs),
           \A i \in 1 .. Len(hs) : i <= m <=> Place(hs[i]) \in kept
    PROVE  SubSeq(hs, 1, m) \in Handlers /\ Match(gs, SubSeq(hs, 1, m), kept)
<1> DEFINE ks == SubSeq(hs, 1, m)
<1>1. Len(hs) \in Nat /\ m \in Nat /\ \A i \in 1 .. m : hs[i] \in [frames_len : Nat \ {0}, target : Paths]
  <2>1. Len(hs) \in Nat
      BY HandlerTypes
  <2>2. \A i \in 1 .. Len(hs) : hs[i] \in [frames_len : Nat \ {0}, target : Paths]
      BY ElementOfSeq DEF Handlers
  <2> QED BY <2>1, <2>2
<1>2. /\ ks \in Handlers /\ Len(ks) = (IF 1 <= m THEN m - 1 + 1 ELSE 0)
      /\ \A i \in 1 .. m - 1 + 1 : ks[i] = hs[1 + i - 1]
    BY <1>1, SubSeqProperties DEF Handlers
<1>3. Len(ks) = m /\ \A i \in 1 .. m : ks[i] = hs[i]
    BY <1>1, <1>2
<1> HIDE DEF ks
<1>4. ASSUME NEW t
      PROVE  t \in {Place(ks[i]) : i \in 1 .. Len(ks)} <=> t \in kept
  <2>1. t \in {Place(ks[i]) : i \in 1 .. Len(ks)} <=> \E i \in 1 .. m : t = Place(hs[i])
      BY <1>3
  <2>2. t \in open <=> \E i \in 1 .. Len(hs) : t = Place(hs[i])
      BY DEF Match
  <2> QED BY <1>1, <2>1, <2>2
<1>5. \A i, j \in 1 .. Len(ks) : i < j => Earlier(ks[i], ks[j])
    BY <1>1, <1>3 DEF Match
<1>6. ASSUME NEW i \in 1 .. Len(ks), NEW k \in 1 .. Len(ks[i].target)
      PROVE  ks[i].target[k] = gs[ks[i].frames_len][k]
  <2>1. ks[i] = hs[i] /\ i \in 1 .. Len(hs) /\ Place(hs[i]) \in kept
      BY <1>1, <1>3
  <2>2. Place(hs[i]) \in Tries(gs) \cap Tries(fs)
      BY <2>1
  <2>3. Place(hs[i])[1] = hs[i].frames_len /\ Place(hs[i])[2] = Len(hs[i].target)
      BY DEF Place
  <2>4. gs[hs[i].frames_len][k] = fs[hs[i].frames_len][k]
      BY <2>1, <2>2, <2>3 DEF Agree
  <2>5. hs[i].target[k] = fs[hs[i].frames_len][k]
      BY <2>1 DEF Match
  <2> QED BY <2>1, <2>4, <2>5
<1> QED BY <1>2, <1>4, <1>5, <1>6 DEF ks, Match

LEMMA HandlersStay ==
    ASSUME NEW fs \in Stacks, NEW gs \in Stacks, NEW hs \in Handlers, NEW open,
           Match(fs, hs, open), open \subseteq Tries(fs), open \subseteq Tries(gs), Agree(gs, fs)
    PROVE  Match(gs, hs, open)
<1>1. Len(hs) \in 0 .. Len(hs) /\ SubSeq(hs, 1, Len(hs)) = hs
    BY HandlerTypes, SubSeqFull DEF Handlers
<1>2. \A i \in 1 .. Len(hs) : i <= Len(hs) <=> Place(hs[i]) \in open
    BY HandlerTypes DEF Match
<1>3. Match(gs, SubSeq(hs, 1, Len(hs)), open)
    BY <1>1, <1>2, HandlersKept
<1> QED BY <1>1, <1>3

LEMMA HandlerPushed ==
    ASSUME NEW fs \in Stacks, NEW gs \in Stacks, fs # << >>, NEW hs \in Handlers, NEW path \in Paths,
           Match(fs, hs, Tries(fs)), Agree(gs, fs), Tries(fs) \subseteq Tries(gs),
           Len(path) = Len(Last(fs)) + 1, Len(gs) = Len(fs), Last(gs) = path
    PROVE  LET h == [frames_len |-> Len(fs), target |-> path] IN
           /\ Append(hs, h) \in Handlers
           /\ Match(gs, Append(hs, h), Tries(fs) \cup {<<Len(fs), Len(path)>>})
<1> DEFINE h == [frames_len |-> Len(fs), target |-> path]
           ks == Append(hs, h)
<1>1. Match(gs, hs, Tries(fs))
    BY HandlersStay
<1>2. Len(fs) \in Nat \ {0} /\ Last(fs) = fs[Len(fs)] /\ Len(Last(fs)) \in Nat /\ Len(hs) \in Nat /\ Len(path) \in Nat
    BY LastPath, HandlerTypes
<1>3. h \in [frames_len : Nat \ {0}, target : Paths]
    BY <1>2
<1>4. /\ ks \in Handlers /\ Len(ks) = Len(hs) + 1
      /\ \A i \in 1 .. Len(hs) : ks[i] = hs[i]
      /\ ks[Len(hs) + 1] = h
    BY <1>3, AppendProperties DEF Handlers
<1>5. Place(h) = <<Len(fs), Len(path)>> /\ h.frames_len = Len(fs) /\ h.target = path
    BY DEF Place
<1> HIDE DEF ks, h
<1>6. ASSUME NEW t
      PROVE  t \in {Place(ks[i]) : i \in 1 .. Len(ks)} <=> t \in Tries(fs) \cup {<<Len(fs), Len(path)>>}
  <2>1. t \in Tries(fs) <=> \E i \in 1 .. Len(hs) : t = Place(hs[i])
      BY DEF Match
  <2>2. t \in {Place(ks[i]) : i \in 1 .. Len(ks)}
            <=> (\E i \in 1 .. Len(hs) : t = Place(hs[i])) \/ t = Place(h)
      BY <1>2, <1>4
  <2> QED BY <1>5, <2>1, <2>2
<1>7. ASSUME NEW i \in 1 .. Len(hs)
      PROVE  Earlier(hs[i], h)
  <2>1. Place(hs[i]) \in Tries(fs)
      BY DEF Match
  <2>2. PICK f \in 1 .. Len(fs) : \E k \in 1 .. Len(fs[f]) : Place(hs[i]) = <<f, k>>
      BY <2>1, TryIsOpen
  <2>3. hs[i].frames_len = f /\ Len(hs[i].target) \in 1 .. Len(fs[f])
      BY <2>2 DEF Place
  <2> QED BY <1>2, <1>5, <2>3 DEF Earlier
<1>8. \A i, j \in 1 .. Len(ks) : i < j => Earlier(ks[i], ks[j])
    BY <1>2, <1>4, <1>7, SMTT(30) DEF Match
<1>9. ASSUME NEW i \in 1 .. Len(ks), NEW k \in 1 .. Len(ks[i].target)
      PROVE  ks[i].target[k] = gs[ks[i].frames_len][k]
  <2>1. CASE i \in 1 .. Len(hs)
      BY <1>1, <1>4, <2>1 DEF Match
  <2>2. CASE i = Len(hs) + 1
      BY <1>2, <1>4, <1>5, <2>2 DEF Last
  <2> QED BY <1>2, <1>4, <2>1, <2>2
<1> QED BY <1>4, <1>6, <1>8, <1>9 DEF Match, ks, h

\* A set of numbers that has every smaller one with each ends at its largest.
LEMMA SmallestOnes ==
    ASSUME NEW most \in Nat, NEW S, S \subseteq 1 .. most, \A i, j \in 1 .. most : i < j /\ j \in S => i \in S
    PROVE  LET m == I!Max({0} \cup S) IN m \in 0 .. most /\ \A i \in 1 .. most : i <= m <=> i \in S
<1> DEFINE m == I!Max({0} \cup S)
<1>1. {0} \cup S \subseteq 0 .. most /\ {0} \cup S # {}
  <2>1. 1 .. most \subseteq 0 .. most /\ 0 \in 0 .. most
      OBVIOUS
  <2> QED BY <2>1
<1>2. m \in {0} \cup S /\ \A x \in {0} \cup S : x <= m
    BY <1>1, LargestIsThere
<1>3. m \in 0 .. most
    BY <1>1, <1>2
<1> HIDE DEF m
<1>4. ASSUME NEW i \in 1 .. most
      PROVE  i <= m <=> i \in S
  <2>1. i \in S => i <= m
      BY <1>2
  <2>2. ASSUME i <= m PROVE i \in S
    <3>1. m \in S /\ m \in 1 .. most
        BY <1>2, <1>3, <2>2
    <3>2. CASE i = m
        BY <3>1, <3>2
    <3>3. CASE i < m
        BY <3>1, <3>3
    <3> QED BY <1>3, <2>2, <3>2, <3>3
  <2> QED BY <2>1, <2>2
<1> QED BY <1>3, <1>4 DEF m

\* The handlers of the tries that go are the last ones, and as many.
LEMMA LastHandlersGo ==
    ASSUME NEW fs \in Stacks, NEW hs \in Handlers, NEW open, NEW kept, Match(fs, hs, open), kept \subseteq open,
           \A i, j \in 1 .. Len(hs) : i < j /\ Place(hs[j]) \in kept => Place(hs[i]) \in kept
    PROVE  /\ IsFiniteSet(open \ kept)
           /\ Len(hs) - Cardinality(open \ kept) \in 0 .. Len(hs)
           /\ \A i \in 1 .. Len(hs) : i <= Len(hs) - Cardinality(open \ kept) <=> Place(hs[i]) \in kept
<1> DEFINE S == {i \in 1 .. Len(hs) : Place(hs[i]) \in kept}
           m == I!Max({0} \cup S)
           over == m + 1 .. Len(hs)
           place == [i \in over |-> Place(hs[i])]
<1>1. Len(hs) \in Nat
    BY HandlerTypes
<1>2. m \in 0 .. Len(hs) /\ \A i \in 1 .. Len(hs) : i <= m <=> i \in S
  <2>1. S \subseteq 1 .. Len(hs) /\ \A i, j \in 1 .. Len(hs) : i < j /\ j \in S => i \in S
      OBVIOUS
  <2> HIDE DEF S
  <2> QED BY <1>1, <2>1, SmallestOnes
<1>3. \A i \in 1 .. Len(hs) : i <= m <=> Place(hs[i]) \in kept
    BY <1>2
<1> HIDE DEF m, S
<1>4. IsFiniteSet(over) /\ Cardinality(over) = Len(hs) - m
  <2>1. m + 1 \in Int /\ Len(hs) \in Int /\ m + 1 <= Len(hs) + 1 /\ m \in Nat
      BY <1>1, <1>2
  <2>2. IsFiniteSet(over) /\ Cardinality(over) = Len(hs) - (m + 1) + 1
      BY <2>1, Between
  <2> QED BY <2>1, <2>2
<1>5. \A i, j \in 1 .. Len(hs) : Place(hs[i]) = Place(hs[j]) => i = j
  <2> TAKE i, j \in 1 .. Len(hs)
  <2> HAVE Place(hs[i]) = Place(hs[j])
  <2>1. hs[i].frames_len = hs[j].frames_len /\ Len(hs[i].target) = Len(hs[j].target)
      BY DEF Place
  <2>2. hs[i].frames_len \in Nat /\ Len(hs[i].target) \in Nat
      BY HandlerTypes
  <2>3. ~Earlier(hs[i], hs[j]) /\ ~Earlier(hs[j], hs[i])
      BY <2>1, <2>2 DEF Earlier
  <2>4. ~(i < j) /\ ~(j < i)
      BY <2>3 DEF Match
  <2> QED BY <1>1, <2>4
<1>6. place \in Bijection(over, open \ kept)
  <2>1. ASSUME NEW i \in over PROVE i \in 1 .. Len(hs) /\ Place(hs[i]) \in open \ kept
      BY <1>1, <1>2, <1>3, <2>1 DEF Match
  <2>2. place \in [over -> open \ kept]
      BY <2>1
  <2>3. \A i, j \in over : place[i] = place[j] => i = j
      BY <1>5, <2>1
  <2>4. ASSUME NEW t \in open \ kept PROVE \E i \in over : place[i] = t
    <3>1. PICK i \in 1 .. Len(hs) : t = Place(hs[i])
        BY DEF Match
    <3>2. i \in over
        BY <1>1, <1>2, <1>3, <3>1
    <3> QED BY <3>1, <3>2
  <2> HIDE DEF place, over
  <2>5. place \in Injection(over, open \ kept)
      BY <2>2, <2>3 DEF Injection, IsInjective
  <2>6. place \in Surjection(over, open \ kept)
      BY <2>2, <2>4 DEF Surjection
  <2> QED BY <2>5, <2>6 DEF Bijection
<1>7. ExistsBijection(over, open \ kept)
    BY <1>6 DEF ExistsBijection
<1>8. IsFiniteSet(open \ kept) /\ Cardinality(open \ kept) = Cardinality(over)
    BY <1>4, <1>7, FS_Bijection
<1>9. Len(hs) - Cardinality(open \ kept) = m
    BY <1>1, <1>2, <1>4, <1>8
<1> QED BY <1>2, <1>3, <1>8, <1>9

\* What is above a place goes first.
LEMMA AboveGoesFirst ==
    ASSUME NEW fs \in Stacks, fs # << >>, NEW hs \in Handlers, Match(fs, hs, Tries(fs)), NEW k \in Nat,
           NEW i \in 1 .. Len(hs), NEW j \in 1 .. Len(hs), i < j, Place(hs[j]) \in Below(fs, <<Len(fs), k>>)
    PROVE  Place(hs[i]) \in Below(fs, <<Len(fs), k>>)
<1>1. Place(hs[i]) \in Tries(fs) /\ Place(hs[j]) \in Tries(fs) /\ Earlier(hs[i], hs[j])
    BY DEF Match
<1>2. PICK f \in 1 .. Len(fs) : \E x \in 1 .. Len(fs[f]) : Place(hs[j]) = <<f, x>>
    BY <1>1, TryIsOpen
<1>3. hs[j].frames_len <= Len(fs) /\ Len(fs) \in Nat
  <2>1. hs[j].frames_len = f
      BY <1>2 DEF Place
  <2> QED BY <2>1, LastPath
<1>4. /\ hs[i].frames_len \in Nat /\ Len(hs[i].target) \in Nat
      /\ hs[j].frames_len \in Nat /\ Len(hs[j].target) \in Nat
    BY HandlerTypes
<1>5. ~(hs[j].frames_len = Len(fs) /\ Len(hs[j].target) > k)
    BY DEF Below, Place
<1>6. ~(hs[i].frames_len = Len(fs) /\ Len(hs[i].target) > k)
    BY <1>1, <1>3, <1>4, <1>5 DEF Earlier
<1> QED BY <1>1, <1>6 DEF Below, Place

-------------------------------------------------------------------------------
\* Both models take their operators on paths from the interpreter's.
LEMMA SameOperators ==
    /\ V!I!Items = I!Items
    /\ \A path, k : V!I!Upto(path, k) = I!Upto(path, k)
    /\ \A path, kinds : V!I!Innermost(path, kinds) = I!Innermost(path, kinds)
    /\ \A cs : V!I!Try(cs) = I!Try(cs)
    /\ \A c : V!I!Clause(c) = I!Clause(c)
    /\ V!I!Loop = I!Loop
    /\ \A cs, v : V!I!Taken(cs, v) = I!Taken(cs, v)
    /\ \A S : V!I!Max(S) = I!Max(S) /\ V!I!Min(S) = I!Min(S)
    /\ \A path : V!Last(path) = Last(path) /\ V!Front(path) = Front(path) /\ V!ToSet(path) = ToSet(path)
    /\ \A path : V!TriesIn(path) = TriesIn(path)
    /\ \A S : V!Cardinality(S) = Cardinality(S)
<1>1. V!I!Items = I!Items
    BY DEF V!I!Items, I!Items
<1>2. \A path, k : V!I!Upto(path, k) = I!Upto(path, k)
    BY DEF V!I!Upto, I!Upto
<1>3. \A S : V!I!Max(S) = I!Max(S) /\ V!I!Min(S) = I!Min(S)
    BY DEF V!I!Max, I!Max, V!I!Min, I!Min
<1>4. \A path, kinds : V!I!Innermost(path, kinds) = I!Innermost(path, kinds)
    BY <1>3 DEF V!I!Innermost, I!Innermost
<1>5. \A cs : V!I!Try(cs) = I!Try(cs)
    BY DEF V!I!Try, I!Try, V!I!Item, I!Item
<1>6. \A c : V!I!Clause(c) = I!Clause(c)
    BY DEF V!I!Clause, I!Clause, V!I!Item, I!Item
<1>7. V!I!Loop = I!Loop
    BY DEF V!I!Loop, I!Loop, V!I!Item, I!Item
<1>8. \A cs, v : V!I!Taken(cs, v) = I!Taken(cs, v)
    BY DEF V!I!Taken, I!Taken, V!I!Takes, I!Takes
<1>9. \A path : V!Last(path) = Last(path) /\ V!Front(path) = Front(path) /\ V!ToSet(path) = ToSet(path)
    BY DEF V!Last, Last, V!Front, Front, V!ToSet, ToSet
<1>10. \A path : V!TriesIn(path) = TriesIn(path)
    BY DEF V!TriesIn, TriesIn
<1>11. \A S : V!Cardinality(S) = Cardinality(S)
    BY DEF V!Cardinality, Cardinality
<1> QED BY <1>1, <1>2, <1>3, <1>4, <1>5, <1>6, <1>7, <1>8, <1>9, <1>10, <1>11

\* The `execute`s that run lie in the frames, each in a later one.
Executes(fs, ds) ==
    /\ ds \in Seq(Nat) /\ ds # << >> /\ ds[1] = 0
    /\ \A i, j \in 1 .. Len(ds) : i < j => ds[i] < ds[j]
    /\ \A i \in 1 .. Len(ds) : ds[i] < Len(fs)

LEMMA DepthTypes ==
    ASSUME NEW fs \in Stacks, NEW ds, Executes(fs, ds)
    PROVE  /\ Len(ds) \in Nat /\ Len(ds) >= 1 /\ \A i \in 1 .. Len(ds) : ds[i] \in Nat
           /\ Len(fs) \in Nat
           /\ Last(ds) = ds[Len(ds)] /\ Last(ds) \in Nat
           /\ Len(ds) > 1 => Last(ds) > 0
<1>1. ds \in Seq(Nat) /\ ds # << >>
    BY DEF Executes
<1>2. Len(ds) \in Nat /\ Len(ds) # 0 /\ \A i \in 1 .. Len(ds) : ds[i] \in Nat
    BY <1>1, EmptySeq, LenProperties, ElementOfSeq
<1>3. Len(fs) \in Nat
    BY LenProperties DEF Stacks
<1>4. Len(ds) > 1 => ds[1] < ds[Len(ds)] /\ ds[1] = 0
    BY <1>2 DEF Executes
<1> QED BY <1>2, <1>3, <1>4 DEF Last

LEMMA ExecutesStay ==
    ASSUME NEW fs \in Stacks, NEW gs \in Stacks, NEW ds, Executes(fs, ds), Len(gs) > Last(ds)
    PROVE  Executes(gs, ds)
<1>1. /\ Len(ds) \in Nat /\ Len(ds) >= 1 /\ \A i \in 1 .. Len(ds) : ds[i] \in Nat
      /\ Last(ds) = ds[Len(ds)] /\ Len(gs) \in Nat
    BY DepthTypes, LenProperties DEF Stacks
<1>2. \A i \in 1 .. Len(ds) : i < Len(ds) => ds[i] < ds[Len(ds)]
    BY <1>1 DEF Executes
<1>3. \A i \in 1 .. Len(ds) : ds[i] < Len(gs)
    BY <1>1, <1>2
<1> QED BY <1>3 DEF Executes

LEMMA ExecuteEntered ==
    ASSUME NEW fs \in Stacks, NEW gs \in Stacks, NEW ds, Executes(fs, ds), Len(gs) = Len(fs) + 1
    PROVE  Executes(gs, Append(ds, Len(fs)))
<1> DEFINE es == Append(ds, Len(fs))
<1>1. /\ Len(ds) \in Nat /\ Len(ds) >= 1 /\ \A i \in 1 .. Len(ds) : ds[i] \in Nat /\ ds[i] < Len(fs)
      /\ Len(fs) \in Nat /\ ds \in Seq(Nat) /\ ds[1] = 0
    BY DepthTypes DEF Executes
<1>2. /\ es \in Seq(Nat) /\ es # << >> /\ Len(es) = Len(ds) + 1
      /\ \A i \in 1 .. Len(ds) : es[i] = ds[i]
      /\ es[Len(ds) + 1] = Len(fs)
    BY <1>1, AppendProperties
<1> HIDE DEF es
<1>3. es[1] = 0 /\ \A i \in 1 .. Len(es) : es[i] < Len(gs)
    BY <1>1, <1>2
<1>4. \A i, j \in 1 .. Len(es) : i < j => es[i] < es[j]
  <2> TAKE i, j \in 1 .. Len(es)
  <2> HAVE i < j
  <2>1. i \in 1 .. Len(ds) /\ es[i] = ds[i]
      BY <1>1, <1>2
  <2>2. CASE j = Len(ds) + 1
      BY <1>1, <1>2, <2>1, <2>2
  <2>3. CASE j \in 1 .. Len(ds)
    <3>1. ds[i] < ds[j]
        BY <2>1, <2>3 DEF Executes
    <3> QED BY <1>2, <2>1, <2>3, <3>1
  <2> QED BY <1>1, <1>2, <2>2, <2>3
<1> QED BY <1>2, <1>3, <1>4 DEF Executes, es

LEMMA ExecuteLeft ==
    ASSUME NEW fs \in Stacks, NEW gs \in Stacks, NEW ds, Executes(fs, ds), Len(ds) > 1, Len(gs) >= Last(ds)
    PROVE  Executes(gs, Front(ds))
<1> DEFINE es == Front(ds)
<1>1. /\ Len(ds) \in Nat /\ \A i \in 1 .. Len(ds) : ds[i] \in Nat
      /\ Last(ds) = ds[Len(ds)] /\ Len(gs) \in Nat /\ ds[1] = 0
    BY DepthTypes, LenProperties DEF Stacks, Executes
<1>2. /\ es \in Seq(Nat) /\ Len(es) = (IF 1 <= Len(ds) - 1 THEN Len(ds) - 1 - 1 + 1 ELSE 0)
      /\ \A i \in 1 .. Len(ds) - 1 - 1 + 1 : es[i] = ds[1 + i - 1]
    BY <1>1, SubSeqProperties DEF Front
<1> HIDE DEF es
<1>3. Len(es) = Len(ds) - 1 /\ \A i \in 1 .. Len(es) : es[i] = ds[i]
    BY <1>1, <1>2
<1>4. es # << >> /\ es[1] = 0
    BY <1>1, <1>3, EmptySeq
<1>5. \A i \in 1 .. Len(ds) : i < Len(ds) => ds[i] < ds[Len(ds)]
    BY <1>1 DEF Executes
<1>6. \A i \in 1 .. Len(es) : es[i] < Len(gs)
    BY <1>1, <1>3, <1>5
<1>7. \A i, j \in 1 .. Len(es) : i < j => es[i] < es[j]
  <2> TAKE i, j \in 1 .. Len(es)
  <2> HAVE i < j
  <2>1. i \in 1 .. Len(ds) /\ j \in 1 .. Len(ds)
      BY <1>1, <1>3
  <2>2. ds[i] < ds[j]
      BY <2>1 DEF Executes
  <2> QED BY <1>3, <2>2
<1> QED BY <1>2, <1>4, <1>6, <1>7 DEF Executes, es

\* The tries whose handlers are still there: at the clauses, the innermost's
\* is popped already.
Guarded(fs, where) == IF where = "clauses" THEN Tries(fs) \ {<<Len(fs), Len(Last(fs))>>} ELSE Tries(fs)
VTypes ==
    /\ vframes \in Stacks /\ vframes # << >> /\ vhandlers \in Handlers
    /\ vmode \in {"run", "flying", "clauses", "over"}
    /\ vthrown \in Type \cup {NoType} /\ vout \in {"none", "done", "uncaught"}
ClausesAreATrys == vmode = "clauses" => Last(vframes) # << >> /\ Last(Last(vframes)).kind = "try"
VInv ==
    /\ VTypes /\ ClausesAreATrys
    /\ Executes(vframes, vdepths)
    /\ Match(vframes, vhandlers, Guarded(vframes, vmode))

LEMMA VmTypes == VInv => V!TypeOK
<1> SUFFICES ASSUME VInv PROVE V!TypeOK
    OBVIOUS
<1>1. vframes \in Seq(Seq(V!I!Items)) /\ vhandlers \in Seq(V!Handler)
    BY SameOperators, StacksAreSequences DEF VInv, VTypes, Handlers, Paths, V!Handler
<1>2. vdepths \in Seq(Nat) /\ \A k \in 1 .. Len(vdepths) : vdepths[k] < Len(vframes)
    BY DEF VInv, Executes
<1>3. DOMAIN vdepths = 1 .. Len(vdepths)
    BY <1>2, LenProperties
<1> QED BY <1>1, <1>2, <1>3 DEF V!TypeOK, VInv, VTypes

LEMMA VmHandlers == VInv => V!HandlersAreOpenTries
<1> SUFFICES ASSUME VInv PROVE V!HandlersAreOpenTries
    OBVIOUS
<1>1. vframes \in Stacks /\ vhandlers \in Handlers /\ Match(vframes, vhandlers, Guarded(vframes, vmode))
    BY DEF VInv, VTypes
<1>2. {<<h.frames_len, Len(h.target)>> : h \in V!ToSet(vhandlers)} = Guarded(vframes, vmode)
  <2>1. V!ToSet(vhandlers) = {vhandlers[i] : i \in 1 .. Len(vhandlers)}
      BY <1>1, HandlerTypes DEF V!ToSet
  <2>2. {Place(vhandlers[i]) : i \in 1 .. Len(vhandlers)} = Guarded(vframes, vmode)
      BY <1>1 DEF Match
  <2> QED BY <2>1, <2>2 DEF Place
<1>3. V!OpenTries = Tries(vframes)
    BY SameOperators DEF V!OpenTries, Tries
<1>4. ASSUME NEW t \in Tries(vframes)
      PROVE  V!AtClauses(t[1], t[2]) <=> vmode = "clauses" /\ t = <<Len(vframes), Len(Last(vframes))>>
  <2>1. t = <<t[1], t[2]>>
      BY <1>1, TryIsOpen
  <2> QED BY <2>1, SameOperators DEF V!AtClauses, V!Path
<1>5. {t \in V!OpenTries : ~V!AtClauses(t[1], t[2])} = Guarded(vframes, vmode)
    BY <1>3, <1>4 DEF Guarded
<1> QED BY <1>2, <1>5 DEF V!HandlersAreOpenTries

LEMMA VmInit == V!Init => VInv
<1> SUFFICES ASSUME V!Init PROVE VInv
    OBVIOUS
<1>1. << >> \in Seq(I!Items)
    BY EmptySeq
<1>2. vframes \in Stacks /\ vframes # << >> /\ Len(vframes) = 1 /\ vframes[1] = << >>
    BY <1>1, StacksAreSequences DEF V!Init
<1>3. Tries(vframes) = {}
  <2> SUFFICES ASSUME NEW t \in Tries(vframes) PROVE FALSE
      OBVIOUS
  <2>1. Len(vframes[1]) = 0
      BY <1>2, EmptySeq
  <2> QED BY <1>2, <2>1, TryIsOpen
<1>4. vhandlers \in Handlers /\ Len(vhandlers) = 0
    BY EmptySeq DEF V!Init, Handlers
<1>5. Match(vframes, vhandlers, Guarded(vframes, vmode))
    BY <1>3, <1>4 DEF Match, Guarded, V!Init
<1>6. Executes(vframes, vdepths)
    BY <1>2 DEF Executes, V!Init
<1> QED BY <1>2, <1>4, <1>5, <1>6 DEF VInv, VTypes, ClausesAreATrys, V!Init

LEMMA VmMoves == ASSUME NEW path, V!Goto(path) PROVE vframes' = Goes(vframes, path)
BY DEF V!Goto, Goes

\* Handlers popped until those of the tries that are left remain.
LEMMA HandlersPopped ==
    ASSUME NEW fs \in Stacks, NEW gs \in Stacks, fs # << >>, NEW hs \in Handlers, NEW ks, NEW k \in Nat, NEW many,
           Match(fs, hs, Tries(fs)), Agree(gs, fs), Tries(gs) = Below(fs, <<Len(fs), k>>),
           Cardinality(Tries(fs) \ Tries(gs)) = many, ks = SubSeq(hs, 1, Len(hs) - many)
    PROVE  ks \in Handlers /\ Match(gs, ks, Tries(gs))
<1>1. Tries(gs) \subseteq Tries(fs)
    BY DEF Below
<1>2. \A i, j \in 1 .. Len(hs) : i < j /\ Place(hs[j]) \in Tries(gs) => Place(hs[i]) \in Tries(gs)
    BY AboveGoesFirst
<1>3. /\ Len(hs) - many \in 0 .. Len(hs)
      /\ \A i \in 1 .. Len(hs) : i <= Len(hs) - many <=> Place(hs[i]) \in Tries(gs)
    BY <1>1, <1>2, LastHandlersGo
<1> QED BY <1>1, <1>3, HandlersKept

\* As many tries are left by a jump as the path has above its target.
LEMMA OwedAreLeft ==
    ASSUME NEW fs \in Stacks, fs # << >>, NEW k \in Nat
    PROVE  Cardinality(Tries(fs) \ Below(fs, <<Len(fs), k>>)) = V!Owed(Last(fs), k)
<1> DEFINE over == {i \in TriesIn(Last(fs)) : i > k}
           place == [i \in over |-> <<Len(fs), i>>]
           left == Tries(fs) \ Below(fs, <<Len(fs), k>>)
<1>1. /\ Len(fs) \in Nat /\ Len(fs) > 0 /\ Last(fs) = fs[Len(fs)] /\ Last(fs) \in Paths
      /\ Len(Last(fs)) \in Nat /\ DOMAIN Last(fs) = 1 .. Len(Last(fs))
    BY LastPath, LenProperties DEF Paths
<1>2. ASSUME NEW t
      PROVE  t \in left <=> \E i \in over : t = <<Len(fs), i>>
  <2>1. t \in Tries(fs) <=> \E f \in 1 .. Len(fs) : \E i \in 1 .. Len(fs[f]) : t = <<f, i>> /\ fs[f][i].kind = "try"
      BY TryIsOpen
  <2>2. t \in left <=> t \in Tries(fs) /\ t[1] = Len(fs) /\ t[2] > k
      BY DEF Below
  <2>3. (\E i \in over : t = <<Len(fs), i>>)
            <=> \E i \in 1 .. Len(Last(fs)) : t = <<Len(fs), i>> /\ Last(fs)[i].kind = "try" /\ i > k
      BY <1>1 DEF TriesIn
  <2> QED BY <1>1, <2>1, <2>2, <2>3
<1>3. IsFiniteSet(over)
  <2>1. IsFiniteSet(1 .. Len(Last(fs))) /\ over \in SUBSET (1 .. Len(Last(fs)))
      BY <1>1, UpTo DEF TriesIn
  <2> QED BY <2>1, FS_Subset
<1>4. place \in [over -> left] /\ \A t \in left : \E i \in over : place[i] = t
    BY <1>2
<1>5. \A i, j \in over : place[i] = place[j] => i = j
    OBVIOUS
<1> HIDE DEF place, over, left
<1>6. place \in Bijection(over, left)
  <2>1. place \in Injection(over, left)
      BY <1>4, <1>5 DEF Injection, IsInjective
  <2>2. place \in Surjection(over, left)
      BY <1>4 DEF Surjection
  <2> QED BY <2>1, <2>2 DEF Bijection
<1>7. Cardinality(left) = Cardinality(over)
    BY <1>3, <1>6, FS_Bijection DEF ExistsBijection
<1>8. V!TriesIn(Last(fs)) = TriesIn(Last(fs))
    BY SameOperators
<1>9. V!Owed(Last(fs), k) = Cardinality(over)
    BY <1>8, SameOperators DEF V!Owed, over
<1> QED BY <1>7, <1>9 DEF left

LEMMA FrontOfHandlers ==
    ASSUME NEW hs \in Handlers, Len(hs) >= 1
    PROVE  Front(hs) \in Handlers
<1>1. Len(hs) \in Nat /\ \A i \in 1 .. Len(hs) : hs[i] \in [frames_len : Nat \ {0}, target : Paths]
    BY HandlerTypes, ElementOfSeq DEF Handlers
<1>2. \A i \in 1 .. Len(hs) - 1 : hs[i] \in [frames_len : Nat \ {0}, target : Paths]
    BY <1>1
<1> QED BY <1>1, <1>2, SubSeqProperties DEF Front, Handlers

\* The last handler is at the innermost try there is.
LEMMA LastHandler ==
    ASSUME NEW fs \in Stacks, NEW hs \in Handlers, hs # << >>, Match(fs, hs, Tries(fs))
    PROVE  /\ Len(hs) >= 1 /\ Last(hs) = hs[Len(hs)] /\ Front(hs) \in Handlers
           /\ Last(hs).frames_len \in 1 .. Len(fs)
           /\ Last(hs).target \in Paths /\ Last(hs).target # << >>
           /\ Len(Last(hs).target) \in 1 .. Len(fs[Last(hs).frames_len])
           /\ Last(Last(hs).target).kind = "try"
           /\ \A k \in 1 .. Len(Last(hs).target) : Last(hs).target[k] = fs[Last(hs).frames_len][k]
           /\ \A t \in Tries(fs) : \/ t[1] < Last(hs).frames_len
                                   \/ t[1] = Last(hs).frames_len /\ t[2] <= Len(Last(hs).target)
           /\ Front(hs) = SubSeq(hs, 1, Len(hs) - 1)
           /\ \A i \in 1 .. Len(hs) : i <= Len(hs) - 1 <=> Place(hs[i]) \in Tries(fs) \ {Place(Last(hs))}
<1>1. Len(hs) \in Nat /\ Len(hs) >= 1
    BY HandlerTypes, EmptySeq DEF Handlers
<1>2. Last(hs) = hs[Len(hs)] /\ Front(hs) = SubSeq(hs, 1, Len(hs) - 1)
    BY DEF Last, Front
<1>3. Front(hs) \in Handlers
    BY <1>1, FrontOfHandlers
<1> DEFINE h == hs[Len(hs)]
<1>4. h.frames_len \in Nat /\ h.target \in Paths /\ Len(h.target) \in Nat
    BY <1>1, HandlerTypes
<1>5. Place(h) \in Tries(fs)
    BY <1>1 DEF Match
<1>6. PICK f \in 1 .. Len(fs) : \E k \in 1 .. Len(fs[f]) : Place(h) = <<f, k>> /\ fs[f][k].kind = "try"
    BY <1>5, TryIsOpen
<1>7. h.frames_len = f /\ Len(h.target) \in 1 .. Len(fs[f]) /\ fs[f][Len(h.target)].kind = "try"
    BY <1>6 DEF Place
<1>8. \A k \in 1 .. Len(h.target) : h.target[k] = fs[h.frames_len][k]
    BY <1>1 DEF Match
<1>9. h.target # << >> /\ Last(h.target).kind = "try"
    BY <1>4, <1>7, <1>8, EmptySeq DEF Last
<1>10. ASSUME NEW i \in 1 .. Len(hs), i # Len(hs)
       PROVE  Earlier(hs[i], h)
    BY <1>1, <1>10 DEF Match
<1>11. ASSUME NEW t \in Tries(fs)
       PROVE  t[1] < h.frames_len \/ (t[1] = h.frames_len /\ t[2] <= Len(h.target))
  <2>1. PICK i \in 1 .. Len(hs) : t = Place(hs[i])
      BY DEF Match
  <2>2. t[1] = hs[i].frames_len /\ t[2] = Len(hs[i].target)
      BY <2>1 DEF Place
  <2>3. hs[i].frames_len \in Nat /\ Len(hs[i].target) \in Nat
      BY HandlerTypes
  <2>4. CASE i = Len(hs)
      BY <1>4, <2>2, <2>4
  <2>5. CASE i # Len(hs)
    <3>1. Earlier(hs[i], h)
        BY <1>10, <2>5
    <3> QED BY <1>4, <2>2, <2>3, <3>1 DEF Earlier
  <2> QED BY <2>4, <2>5
<1>12. ASSUME NEW i \in 1 .. Len(hs)
       PROVE  i <= Len(hs) - 1 <=> Place(hs[i]) \in Tries(fs) \ {Place(h)}
  <2>1. Place(hs[i]) \in Tries(fs)
      BY DEF Match
  <2>2. CASE i = Len(hs)
      BY <1>1, <2>2
  <2>3. CASE i # Len(hs)
    <3>1. hs[i].frames_len \in Nat /\ Len(hs[i].target) \in Nat
        BY HandlerTypes
    <3>2. Place(hs[i]) # Place(h)
        BY <1>4, <1>10, <2>3, <3>1 DEF Earlier, Place
    <3> QED BY <1>1, <2>1, <2>3, <3>2
  <2> QED BY <2>2, <2>3
<1> QED BY <1>1, <1>2, <1>3, <1>4, <1>7, <1>8, <1>9, <1>11, <1>12

\* `execute` cuts the frames to a handler's and goes to its target.
LEMMA UnwoundTo ==
    ASSUME NEW fs \in Stacks, fs # << >>, NEW f \in 1 .. Len(fs), NEW target \in Paths, Len(target) <= Len(fs[f]),
           \A k \in 1 .. Len(target) : target[k] = fs[f][k]
    PROVE  LET gs == Append(SubSeq(fs, 1, f - 1), target)
           IN  /\ gs \in Stacks /\ gs # << >> /\ Len(gs) = f /\ Last(gs) = target
               /\ Tries(gs) = {t \in Tries(fs) : t[1] < f \/ (t[1] = f /\ t[2] <= Len(target))}
               /\ Agree(gs, fs)
<1> DEFINE low == SubSeq(fs, 1, f)
           cut == SubSeq(fs, 1, f - 1)
           gs == Append(cut, target)
           hs == Goes(low, target)
<1>1. Len(fs) \in Nat /\ f \in Nat /\ Len(target) \in Nat /\ \A i \in 1 .. Len(fs) : fs[i] \in Paths
    BY LenProperties, ElementOfSeq DEF Stacks, Paths
<1>2. /\ low \in Stacks /\ low # << >> /\ Len(low) = f /\ Agree(low, fs)
      /\ Tries(low) = {t \in Tries(fs) : t[1] <= f}
      /\ \A i \in 1 .. f : low[i] = fs[i]
    BY FramesLeft
<1>3. /\ cut \in Stacks /\ Len(cut) = f - 1 /\ \A i \in 1 .. f - 1 : cut[i] = fs[i]
  <2>1. \A i \in 1 .. f - 1 : fs[i] \in Paths
      BY <1>1
  <2>2. /\ cut \in Stacks /\ Len(cut) = (IF 1 <= f - 1 THEN f - 1 - 1 + 1 ELSE 0)
        /\ \A i \in 1 .. f - 1 - 1 + 1 : cut[i] = fs[1 + i - 1]
      BY <1>1, <2>1, SubSeqProperties DEF Stacks
  <2> QED BY <1>1, <2>2
<1> HIDE DEF low, cut
<1>4. /\ gs \in Stacks /\ Len(gs) = f
      /\ \A i \in 1 .. f - 1 : gs[i] = fs[i]
      /\ gs[f] = target
  <2>1. /\ gs \in Stacks /\ Len(gs) = Len(cut) + 1
        /\ \A i \in 1 .. Len(cut) : gs[i] = cut[i]
        /\ gs[Len(cut) + 1] = target
      BY <1>3, AppendProperties DEF Stacks
  <2> HIDE DEF gs
  <2> QED BY <1>1, <1>3, <2>1
<1>5. Last(low) = fs[f]
    BY <1>1, <1>2 DEF Last
<1>6. /\ hs \in Stacks /\ hs # << >> /\ Len(hs) = f /\ Last(hs) = target
      /\ Tries(hs) = Below(low, <<f, Len(target)>>) /\ Agree(hs, low)
  <2>1. /\ Len(target) \in 0 .. Len(target) /\ Len(target) <= Len(Last(low))
        /\ \A k \in 1 .. Len(target) : target[k] = Last(low)[k]
        /\ \A k \in Len(target) + 1 .. Len(target) : target[k].kind # "try"
      BY <1>1, <1>5
  <2> QED BY <1>2, <2>1, BlocksClosed
<1>7. \A i \in 1 .. f : hs[i] = gs[i]
  <2>1. hs[f] = target /\ \A i \in 1 .. f : i # f => hs[i] = low[i]
      BY <1>2, PathReplaced DEF Goes
  <2> HIDE DEF gs, hs
  <2> QED BY <1>1, <1>2, <1>4, <2>1
<1> HIDE DEF gs, hs
<1>8. gs = hs
    BY <1>4, <1>6, <1>7, SeqEqual DEF Stacks
<1>9. ASSUME NEW t \in Tries(fs)
      PROVE  /\ t[1] \in Nat /\ t[2] \in Nat
  <2>1. PICK i \in 1 .. Len(fs) : \E k \in 1 .. Len(fs[i]) : t = <<i, k>>
      BY TryIsOpen
  <2> QED BY <2>1
<1>10. Tries(gs) = {t \in Tries(fs) : t[1] < f \/ (t[1] = f /\ t[2] <= Len(target))}
    BY <1>1, <1>2, <1>6, <1>8, <1>9 DEF Below
<1>11. Agree(gs, fs)
  <2>1. Tries(hs) \subseteq Tries(low) /\ Tries(low) \subseteq Tries(fs)
      BY <1>2, <1>6 DEF Below
  <2> QED BY <1>2, <1>6, <1>8, <2>1, SMTT(30) DEF Agree
<1> QED BY <1>6, <1>8, <1>10, <1>11 DEF gs, cut

LEMMA VmStep ==
    ASSUME VInv, [V!Next]_(V!vars)
    PROVE  VInv'
<1> DEFINE path == Last(vframes)
           top == Len(vframes)
<1>1. /\ vframes \in Stacks /\ vframes # << >> /\ vhandlers \in Handlers
      /\ vmode \in {"run", "flying", "clauses", "over"}
      /\ vthrown \in Type \cup {NoType} /\ vout \in {"none", "done", "uncaught"}
      /\ Executes(vframes, vdepths)
      /\ Match(vframes, vhandlers, Guarded(vframes, vmode))
    BY DEF VInv, VTypes
<1>2. vmode = "clauses" => path # << >> /\ Last(path).kind = "try"
    BY DEF VInv, ClausesAreATrys
<1>3. top \in Nat /\ top > 0 /\ path = vframes[top] /\ path \in Paths /\ Len(path) \in Nat
    BY <1>1, LastPath
<1>4. V!Path = path
    BY SameOperators DEF V!Path
<1>5. vmode # "clauses" => Match(vframes, vhandlers, Tries(vframes))
    BY <1>1 DEF Guarded
<1>6. /\ Len(vdepths) \in Nat /\ Len(vdepths) >= 1 /\ Last(vdepths) \in Nat
      /\ Last(vdepths) = vdepths[Len(vdepths)] /\ (Len(vdepths) > 1 => Last(vdepths) > 0)
      /\ Last(vdepths) < top
    BY <1>1, DepthTypes DEF Executes
\* What there is to show of a step.
<1>7. ASSUME vframes' \in Stacks, vframes' # << >>, vhandlers' \in Handlers,
             vmode' \in {"run", "flying", "clauses", "over"},
             vthrown' \in Type \cup {NoType}, vout' \in {"none", "done", "uncaught"},
             vmode' = "clauses" => Last(vframes') # << >> /\ Last(Last(vframes')).kind = "try",
             Executes(vframes', vdepths'),
             Match(vframes', vhandlers', Guarded(vframes', vmode'))
      PROVE  VInv'
    BY <1>7 DEF VInv, VTypes, ClausesAreATrys
<1> HIDE DEF path, top
\* A step after which the program runs on or flies on.
<1>8. ASSUME vframes' \in Stacks, vframes' # << >>, Len(vframes') > Last(vdepths), vhandlers' \in Handlers,
             vmode' \in {"run", "flying", "over"}, vthrown' \in Type \cup {NoType}, vout' \in {"none", "done", "uncaught"},
             vdepths' = vdepths, Match(vframes', vhandlers', Tries(vframes'))
      PROVE  VInv'
  <2>1. Executes(vframes', vdepths')
      BY <1>1, <1>8, ExecutesStay
  <2>2. vmode' # "clauses" /\ Match(vframes', vhandlers', Guarded(vframes', vmode'))
      BY <1>8 DEF Guarded
  <2> QED BY <1>7, <1>8, <2>1, <2>2
\* Nothing but the path changes, and no try in it.
<1>9. ASSUME vmode = "run", UNCHANGED <<vhandlers, vdepths, vmode, vthrown, vout>>,
             vframes' \in Stacks, vframes' # << >>, Len(vframes') >= top,
             Tries(vframes') = Tries(vframes), Agree(vframes', vframes)
      PROVE  VInv'
  <2>1. Match(vframes', vhandlers', Tries(vframes'))
      BY <1>1, <1>5, <1>9, HandlersStay
  <2>2. Len(vframes') \in Nat /\ Len(vframes') > Last(vdepths)
      BY <1>3, <1>6, <1>9, LenProperties DEF Stacks
  <2> QED BY <1>1, <1>8, <1>9, <2>1, <2>2
<1>10. ASSUME NEW cs \in VmClauses, V!EnterTry(cs)
       PROVE  VInv'
  <2> DEFINE grown == Append(path, I!Try(cs))
  <2>1. I!Try(cs) \in I!Items /\ I!Try(cs).kind = "try"
      BY BlocksAreItems, ListsAssumption
  <2>2. grown \in Paths /\ Len(grown) = Len(path) + 1
      BY <1>3, <2>1, PathGrows
  <2>3. /\ vmode = "run" /\ vframes' = Goes(vframes, grown)
        /\ vhandlers' = Append(vhandlers, [frames_len |-> top, target |-> grown])
        /\ UNCHANGED <<vdepths, vmode, vthrown, vout>>
      BY <1>4, <1>10, SameOperators, VmMoves DEF V!EnterTry, top
  <2>4. /\ vframes' \in Stacks /\ vframes' # << >> /\ Len(vframes') = top /\ Last(vframes') = grown
        /\ Tries(vframes') = Tries(vframes) \cup {<<top, Len(path) + 1>>}
        /\ Agree(vframes', vframes)
      BY <1>1, <2>1, <2>3, BlockOpened DEF path, top
  <2> HIDE DEF grown
  <2>5. vhandlers' \in Handlers /\ Match(vframes', vhandlers', Tries(vframes'))
      BY <1>1, <1>5, <2>2, <2>3, <2>4, HandlerPushed, SMTT(30) DEF path, top
  <2> QED BY <1>1, <1>6, <1>8, <2>3, <2>4, <2>5
<1>11. CASE V!EnterLoop
  <2>1. vframes' = Goes(vframes, Append(path, I!Loop))
      BY <1>4, <1>11, SameOperators, VmMoves DEF V!EnterLoop
  <2>2. /\ vframes' \in Stacks /\ vframes' # << >> /\ Len(vframes') = top
        /\ Tries(vframes') = Tries(vframes) /\ Agree(vframes', vframes)
      BY <1>1, <2>1, BlockOpened, BlocksAreItems DEF path, top
  <2> QED BY <1>3, <1>9, <1>11, <2>2 DEF V!EnterLoop
<1>12. CASE V!CallFunction
  <2>1. /\ vframes' \in Stacks /\ vframes' # << >> /\ Len(vframes') = top + 1
        /\ Tries(vframes') = Tries(vframes) /\ Agree(vframes', vframes)
      BY <1>1, <1>12, FrameEntered DEF V!CallFunction, top
  <2> QED BY <1>3, <1>9, <1>12, <2>1 DEF V!CallFunction
<1>13. CASE V!CallBack
  <2>1. /\ vframes' \in Stacks /\ vframes' # << >> /\ Len(vframes') = top + 1
        /\ Tries(vframes') = Tries(vframes) /\ Agree(vframes', vframes)
      BY <1>1, <1>13, FrameEntered DEF V!CallBack, top
  <2>2. vmode = "run" /\ vdepths' = Append(vdepths, top) /\ UNCHANGED <<vhandlers, vmode, vthrown, vout>>
      BY <1>13 DEF V!CallBack, top
  <2>3. Executes(vframes', vdepths')
      BY <1>1, <2>1, <2>2, ExecuteEntered DEF top
  <2>4. Match(vframes', vhandlers', Guarded(vframes', vmode'))
      BY <1>1, <1>5, <2>1, <2>2, HandlersStay DEF Guarded
  <2> QED BY <1>1, <1>7, <2>1, <2>2, <2>3, <2>4
\* The path cut to its first m blocks, or those and a clause.
<1>14. ASSUME NEW m \in 0 .. Len(path), NEW cut \in Paths, vframes' = Goes(vframes, cut), m <= Len(cut),
              \A k \in 1 .. m : cut[k] = path[k], \A k \in m + 1 .. Len(cut) : cut[k].kind # "try"
       PROVE  /\ vframes' \in Stacks /\ vframes' # << >> /\ Len(vframes') = top /\ Last(vframes') = cut
              /\ Tries(vframes') = Below(vframes, <<top, m>>) /\ Agree(vframes', vframes)
  <2>1. m \in 0 .. Len(cut) /\ m <= Len(path)
      BY <1>3, <1>14, LenProperties DEF Paths
  <2> QED BY <1>1, <1>14, <2>1, BlocksClosed DEF path, top
<1>15. ASSUME NEW m \in 0 .. Len(path), vframes' = Goes(vframes, I!Upto(path, m))
       PROVE  /\ vframes' \in Stacks /\ vframes' # << >> /\ Len(vframes') = top
              /\ Tries(vframes') = Below(vframes, <<top, m>>) /\ Agree(vframes', vframes)
  <2>1. /\ I!Upto(path, m) \in Paths /\ Len(I!Upto(path, m)) = m
        /\ \A k \in 1 .. m : I!Upto(path, m)[k] = path[k]
      BY <1>3, PathCut
  <2>2. m <= Len(I!Upto(path, m)) /\ \A k \in m + 1 .. Len(I!Upto(path, m)) : I!Upto(path, m)[k].kind # "try"
      BY <1>3, <2>1
  <2> QED BY <1>14, <1>15, <2>1, <2>2
<1>16. ASSUME path # << >>
       PROVE  /\ Front(path) = I!Upto(path, Len(path) - 1) /\ Len(path) - 1 \in 0 .. Len(path) /\ Len(path) >= 1
              /\ Below(vframes, <<top, Len(path) - 1>>) = Tries(vframes) \ {<<top, Len(path)>>}
              /\ <<top, Len(path)>> \in Tries(vframes) <=> Last(path).kind = "try"
  <2>1. Front(path) = I!Upto(path, Len(path) - 1) /\ Len(path) - 1 \in 0 .. Len(path) /\ Len(path) >= 1
      BY <1>3, <1>16, FrontIsCut
  <2> QED BY <1>1, <1>16, <2>1, InnermostClosed DEF path, top
\* Handlers popped for the tries above the first m blocks.
<1>17. ASSUME NEW m \in 0 .. Len(path), NEW many, vmode = "run", UNCHANGED <<vdepths, vmode, vthrown, vout>>,
              vframes' = Goes(vframes, I!Upto(path, m)), V!PopHandlers(many),
              Cardinality(Tries(vframes) \ Below(vframes, <<top, m>>)) = many
       PROVE  VInv'
  <2>1. /\ vframes' \in Stacks /\ vframes' # << >> /\ Len(vframes') = top
        /\ Tries(vframes') = Below(vframes, <<top, m>>) /\ Agree(vframes', vframes)
      BY <1>15, <1>17
  <2>2. m \in Nat /\ vhandlers' = SubSeq(vhandlers, 1, Len(vhandlers) - many)
      BY <1>3, <1>17 DEF V!PopHandlers
  <2>3. /\ Match(vframes, vhandlers, Tries(vframes))
        /\ Tries(vframes') = Below(vframes, <<Len(vframes), m>>)
      BY <1>5, <1>17, <2>1 DEF top
  <2>4. Cardinality(Tries(vframes) \ Tries(vframes')) = many
      BY <1>17, <2>1
  <2>5. vhandlers' \in Handlers /\ Match(vframes', vhandlers', Tries(vframes'))
      BY <1>1, <2>1, <2>2, <2>3, <2>4, HandlersPopped
  <2> QED BY <1>1, <1>6, <1>8, <1>17, <2>1, <2>5
<1>18. CASE V!EndTry
  <2>1. /\ vmode = "run" /\ path # << >> /\ Last(path).kind = "try" /\ vframes' = Goes(vframes, Front(path))
        /\ V!PopHandlers(1) /\ UNCHANGED <<vdepths, vmode, vthrown, vout>>
      BY <1>4, <1>18, SameOperators, VmMoves DEF V!EndTry
  <2>2. Tries(vframes) \ Below(vframes, <<top, Len(path) - 1>>) = {<<top, Len(path)>>}
      BY <1>16, <2>1
  <2>3. Cardinality(Tries(vframes) \ Below(vframes, <<top, Len(path) - 1>>)) = 1
      BY <2>2, FS_Singleton
  <2> QED BY <1>16, <1>17, <2>1, <2>3
<1>19. CASE V!EndBlock
  <2>1. /\ vmode = "run" /\ path # << >> /\ Last(path).kind # "try" /\ vframes' = Goes(vframes, Front(path))
        /\ UNCHANGED <<vhandlers, vdepths, vmode, vthrown, vout>>
      BY <1>4, <1>19, SameOperators, VmMoves DEF V!EndBlock
  <2>2. /\ vframes' \in Stacks /\ vframes' # << >> /\ Len(vframes') = top
        /\ Tries(vframes') = Tries(vframes) /\ Agree(vframes', vframes)
      BY <1>15, <1>16, <2>1
  <2> QED BY <1>3, <1>9, <2>1, <2>2
<1>20. V!LoopAt \in 0 .. Len(path)
    BY <1>3, <1>4, SameOperators, InnermostIsThere DEF V!LoopAt
<1>21. CASE V!Continue
  <2>1. /\ vmode = "run" /\ vframes' = Goes(vframes, I!Upto(path, V!LoopAt)) /\ V!PopHandlers(V!Owed(path, V!LoopAt))
        /\ UNCHANGED <<vdepths, vmode, vthrown, vout>>
      BY <1>4, <1>21, SameOperators, VmMoves DEF V!Continue
  <2>2. V!LoopAt \in Nat
      BY <1>3, <1>20
  <2>3. Cardinality(Tries(vframes) \ Below(vframes, <<top, V!LoopAt>>)) = V!Owed(path, V!LoopAt)
      BY <1>1, <2>2, OwedAreLeft DEF path, top
  <2> QED BY <1>17, <1>20, <2>1, <2>3
<1>22. CASE V!Break
  <2>1. /\ vmode = "run" /\ vframes' = Goes(vframes, I!Upto(path, V!LoopAt - 1)) /\ V!PopHandlers(V!Owed(path, V!LoopAt))
        /\ UNCHANGED <<vdepths, vmode, vthrown, vout>> /\ V!LoopAt > 0
      BY <1>4, <1>22, SameOperators, VmMoves DEF V!Break
  <2>2. V!LoopAt \in Nat /\ V!LoopAt - 1 \in 0 .. Len(path)
      BY <1>3, <1>20, <2>1
  <2>3. Cardinality(Tries(vframes) \ Below(vframes, <<top, V!LoopAt>>)) = V!Owed(path, V!LoopAt)
      BY <1>1, <2>2, OwedAreLeft DEF path, top
  \* The loop it leaves is no try.
  <2>4. path[V!LoopAt].kind = "loop"
      BY <1>3, <1>4, <2>1, SameOperators, InnermostIsThere DEF V!LoopAt
  <2>5. ASSUME NEW t \in Tries(vframes) PROVE ~(t[1] = top /\ t[2] = V!LoopAt)
    <3>1. PICK f \in 1 .. Len(vframes) : \E k \in 1 .. Len(vframes[f]) : t = <<f, k>> /\ vframes[f][k].kind = "try"
        BY <1>1, TryIsOpen
    <3> QED BY <1>3, <2>4, <3>1
  <2>6. \A t \in Tries(vframes) : t[2] \in Nat
    <3> TAKE t \in Tries(vframes)
    <3>1. PICK f \in 1 .. Len(vframes) : \E k \in 1 .. Len(vframes[f]) : t = <<f, k>>
        BY <1>1, TryIsOpen
    <3> QED BY <3>1
  <2>7. Below(vframes, <<top, V!LoopAt - 1>>) = Below(vframes, <<top, V!LoopAt>>)
      BY <2>2, <2>5, <2>6 DEF Below
  <2> QED BY <1>17, <2>1, <2>2, <2>3, <2>7
<1>23. CASE V!Return
  <2> DEFINE S == V!Outlive(top - 1)
             m == I!Max({0} \cup S)
  <2>1. /\ vmode = "run" /\ top > 1 /\ vframes' = Front(vframes) /\ vhandlers' = SubSeq(vhandlers, 1, m)
        /\ vdepths' = IF top - 1 = Last(vdepths) THEN Front(vdepths) ELSE vdepths
        /\ UNCHANGED <<vmode, vthrown, vout>>
      BY <1>23, SameOperators DEF V!Return, V!FrameHandlersDie, V!ExecuteReturns, top
  <2>2. /\ vframes' \in Stacks /\ vframes' # << >> /\ Len(vframes') = top - 1
        /\ Tries(vframes') = {t \in Tries(vframes) : t[1] <= top - 1} /\ Agree(vframes', vframes)
    <3>1. Front(vframes) = SubSeq(vframes, 1, top - 1) /\ top - 1 \in 1 .. Len(vframes)
        BY <1>3, <2>1 DEF Front, top
    <3> QED BY <1>1, <2>1, <3>1, FramesLeft
  <2>3. /\ Len(vhandlers) \in Nat
        /\ \A i \in 1 .. Len(vhandlers) : i \in S <=> vhandlers[i].frames_len <= top - 1
        /\ S \subseteq 1 .. Len(vhandlers)
      BY <1>1, HandlerTypes DEF V!Outlive
  <2>4. \A i, j \in 1 .. Len(vhandlers) : i < j /\ j \in S => i \in S
    <3> TAKE i, j \in 1 .. Len(vhandlers)
    <3> HAVE i < j /\ j \in S
    <3>1. Earlier(vhandlers[i], vhandlers[j])
        BY <1>5, <2>1 DEF Match
    <3>2. vhandlers[i].frames_len \in Nat /\ vhandlers[j].frames_len \in Nat
        BY <1>1, HandlerTypes
    <3>3. vhandlers[i].frames_len <= vhandlers[j].frames_len
        BY <3>1, <3>2 DEF Earlier
    <3> QED BY <1>3, <2>3, <3>2, <3>3
  <2> HIDE DEF S
  <2>5. m \in 0 .. Len(vhandlers) /\ \A i \in 1 .. Len(vhandlers) : i <= m <=> i \in S
      BY <2>3, <2>4, SmallestOnes
  <2> HIDE DEF m
  <2>6. ASSUME NEW i \in 1 .. Len(vhandlers)
        PROVE  i <= m <=> Place(vhandlers[i]) \in Tries(vframes')
    <3>1. Place(vhandlers[i]) \in Tries(vframes)
        BY <1>5, <2>1 DEF Match
    <3>2. Place(vhandlers[i])[1] = vhandlers[i].frames_len
        BY DEF Place
    <3> QED BY <2>2, <2>3, <2>5, <3>1, <3>2
  <2>7. vhandlers' \in Handlers /\ Match(vframes', vhandlers', Tries(vframes'))
      BY <1>1, <1>5, <2>1, <2>2, <2>5, <2>6, HandlersKept
  <2>8. CASE top - 1 = Last(vdepths)
    <3>1. Len(vdepths) > 1
        BY <1>1, <1>3, <1>6, <2>1, <2>8 DEF Executes
    <3>2. Executes(vframes', vdepths')
        BY <1>1, <1>3, <2>1, <2>2, <2>8, <3>1, ExecuteLeft
    <3>3. Match(vframes', vhandlers', Guarded(vframes', vmode'))
        BY <2>1, <2>7 DEF Guarded
    <3> QED BY <1>1, <1>7, <2>1, <2>2, <2>7, <3>2, <3>3
  <2>9. CASE top - 1 # Last(vdepths)
    <3>1. Len(vframes') > Last(vdepths)
        BY <1>3, <1>6, <2>2, <2>9
    <3> QED BY <1>1, <1>8, <2>1, <2>2, <2>7, <2>9, <3>1
  <2> QED BY <2>8, <2>9
<1>24. ASSUME NEW v \in Type, V!Throw(v)
       PROVE  VInv'
    BY <1>1, <1>3, <1>5, <1>6, <1>8, <1>24 DEF V!Throw, top
<1>25. CASE V!Unwind
  <2> DEFINE h == Last(vhandlers)
             f == h.frames_len
  <2>1. /\ vmode = "flying" /\ vhandlers # << >> /\ f > Last(vdepths)
        /\ vframes' = Append(SubSeq(vframes, 1, f - 1), h.target)
        /\ vhandlers' = Front(vhandlers) /\ vmode' = "clauses" /\ UNCHANGED <<vdepths, vthrown, vout>>
      BY <1>25, SameOperators DEF V!Unwind, V!OwnHandler
  <2>2. /\ Len(vhandlers) >= 1 /\ Front(vhandlers) \in Handlers
        /\ f \in 1 .. Len(vframes)
        /\ h.target \in Paths /\ h.target # << >> /\ Len(h.target) \in 1 .. Len(vframes[f])
        /\ Last(h.target).kind = "try"
        /\ \A k \in 1 .. Len(h.target) : h.target[k] = vframes[f][k]
      BY <1>1, <1>5, <2>1, LastHandler
  <2>3. \A t \in Tries(vframes) : t[1] < f \/ (t[1] = f /\ t[2] <= Len(h.target))
      BY <1>1, <1>5, <2>1, LastHandler
  <2>4. /\ Front(vhandlers) = SubSeq(vhandlers, 1, Len(vhandlers) - 1)
        /\ \A i \in 1 .. Len(vhandlers) : i <= Len(vhandlers) - 1 <=> Place(vhandlers[i]) \in Tries(vframes) \ {Place(h)}
      BY <1>1, <1>5, <2>1, LastHandler
  <2> HIDE DEF h
  <2>5. Len(h.target) <= Len(vframes[f])
    <3>1. Len(vframes[f]) \in Nat
        BY <1>1, <2>2, ElementOfSeq, LenProperties DEF Stacks, Paths
    <3> QED BY <2>2, <3>1
  <2>6. /\ vframes' \in Stacks /\ vframes' # << >> /\ Len(vframes') = f /\ Last(vframes') = h.target
        /\ Tries(vframes') = Tries(vframes) /\ Agree(vframes', vframes)
    <3> DEFINE target == h.target
               kept == {t \in Tries(vframes) : t[1] < f \/ (t[1] = f /\ t[2] <= Len(target))}
               gs == Append(SubSeq(vframes, 1, f - 1), target)
    <3>1. kept = Tries(vframes)
        BY <2>3
    <3>2. \A k \in 1 .. Len(h.target) : h.target[k] = vframes[f][k]
        BY <2>2
    <3>3. /\ vframes \in Stacks /\ vframes # << >> /\ f \in 1 .. Len(vframes) /\ target \in Paths
          /\ Len(target) <= Len(vframes[f]) /\ \A k \in 1 .. Len(target) : target[k] = vframes[f][k]
        BY <1>1, <2>2, <2>5, <3>2
    <3>4. vframes' = gs
        BY <2>1
    <3> HIDE DEF f, target
    <3>5. /\ gs \in Stacks /\ gs # << >> /\ Len(gs) = f /\ Last(gs) = target
          /\ Tries(gs) = kept /\ Agree(gs, vframes)
        BY <3>3, UnwoundTo
    <3> QED BY <3>1, <3>4, <3>5 DEF target
  <2>7. Guarded(vframes', vmode') = Tries(vframes) \ {Place(h)}
      BY <2>1, <2>6 DEF Guarded, Place
  <2>8. Len(vhandlers) - 1 \in 0 .. Len(vhandlers)
      BY <1>1, <2>2, HandlerTypes
  <2>9. Match(vframes', vhandlers', Guarded(vframes', vmode'))
      BY <1>1, <1>5, <2>1, <2>4, <2>6, <2>7, <2>8, HandlersKept
  <2>10. Executes(vframes', vdepths')
      BY <1>1, <2>1, <2>6, ExecutesStay
  <2> QED BY <1>1, <1>7, <2>1, <2>2, <2>6, <2>9, <2>10
<1>26. CASE V!LeaveExecute
  <2>1. /\ vmode = "flying" /\ ~V!OwnHandler /\ Len(vdepths) > 1
        /\ vframes' = SubSeq(vframes, 1, Last(vdepths)) /\ vdepths' = Front(vdepths)
        /\ UNCHANGED <<vhandlers, vmode, vthrown, vout>>
      BY <1>26, SameOperators DEF V!LeaveExecute
  <2>2. Last(vdepths) \in 1 .. Len(vframes)
      BY <1>3, <1>6, <2>1 DEF top
  <2>3. /\ vframes' \in Stacks /\ vframes' # << >> /\ Len(vframes') = Last(vdepths)
        /\ Tries(vframes') = {t \in Tries(vframes) : t[1] <= Last(vdepths)} /\ Agree(vframes', vframes)
      BY <1>1, <2>1, <2>2, FramesLeft
  <2>4. ASSUME NEW t \in Tries(vframes) PROVE t[1] <= Last(vdepths)
    <3>1. PICK i \in 1 .. Len(vhandlers) : t = Place(vhandlers[i])
        BY <1>5, <2>1 DEF Match
    <3>2. vhandlers # << >>
        BY <1>1, <3>1, EmptySeq
    <3>3. Last(vhandlers).frames_len <= Last(vdepths) /\ Last(vhandlers).frames_len \in Nat
      <4>1. Last(vhandlers).frames_len \in 1 .. Len(vframes)
          BY <1>1, <1>5, <2>1, <3>2, LastHandler
      <4>2. ~(Last(vhandlers).frames_len > Last(vdepths))
          BY <2>1, <3>2, SameOperators DEF V!OwnHandler
      <4> QED BY <1>6, <4>1, <4>2
    <3>4. t[1] < Last(vhandlers).frames_len \/ t[1] = Last(vhandlers).frames_len
        BY <1>1, <1>5, <2>1, <3>2, LastHandler
    <3>5. t[1] \in Nat
      <4>1. t[1] = vhandlers[i].frames_len
          BY <3>1 DEF Place
      <4> QED BY <1>1, <4>1, HandlerTypes
    <3> QED BY <1>6, <3>3, <3>4, <3>5
  <2>5. Tries(vframes') = Tries(vframes)
      BY <2>3, <2>4
  <2>6. Match(vframes', vhandlers', Guarded(vframes', vmode'))
      BY <1>1, <1>5, <2>1, <2>3, <2>5, HandlersStay DEF Guarded
  <2>7. Executes(vframes', vdepths')
    <3>1. Len(vframes') >= Last(vdepths)
        BY <1>6, <2>3
    <3> QED BY <1>1, <2>1, <2>3, <3>1, ExecuteLeft
  <2> QED BY <1>1, <1>7, <2>1, <2>3, <2>6, <2>7
<1>27. CASE V!Uncaught
    BY <1>1, <1>3, <1>5, <1>6, <1>8, <1>27 DEF V!Uncaught, top
\* The clauses are left: the try at them goes, its handler went before.
<1>28. ASSUME vmode = "clauses", NEW cut \in Paths, vframes' = Goes(vframes, cut), Len(path) - 1 <= Len(cut),
              \A k \in 1 .. Len(path) - 1 : cut[k] = path[k], \A k \in Len(path) .. Len(cut) : cut[k].kind # "try",
              vmode' \in {"run", "flying"}, vthrown' \in Type \cup {NoType}, UNCHANGED <<vhandlers, vdepths, vout>>
       PROVE  VInv'
  <2>1. Len(path) - 1 \in 0 .. Len(path) /\ Len(path) - 1 + 1 = Len(path)
      BY <1>2, <1>3, <1>16, <1>28
  <2>2. /\ vframes' \in Stacks /\ vframes' # << >> /\ Len(vframes') = top
        /\ Tries(vframes') = Below(vframes, <<top, Len(path) - 1>>) /\ Agree(vframes', vframes)
      BY <1>14, <1>28, <2>1
  <2>3. Tries(vframes') = Guarded(vframes, vmode)
      BY <1>2, <1>16, <1>28, <2>2 DEF Guarded, path, top
  <2>4. Match(vframes', vhandlers', Tries(vframes'))
      BY <1>1, <1>28, <2>2, <2>3, HandlersStay DEF Guarded
  <2> QED BY <1>1, <1>6, <1>8, <1>28, <2>2, <2>4
<1>29. CASE V!Catch
  <2> DEFINE item == I!Clause(Last(path).clauses[I!Min(V!Taken)])
             shut == Append(Front(path), item)
  <2>1. /\ vmode = "clauses" /\ V!Taken # {} /\ vframes' = Goes(vframes, shut)
        /\ vmode' = "run" /\ vthrown' = NoType /\ UNCHANGED <<vhandlers, vdepths, vout>>
      BY <1>4, <1>29, SameOperators, VmMoves DEF V!Catch
  <2>2. Last(path) \in I!Items
      BY <1>2, <1>3, <2>1, EmptySeq, LenProperties, ElementOfSeq DEF Paths, Last
  <2>3. V!Taken = I!Taken(Last(path).clauses, vthrown)
      BY <1>4, SameOperators DEF V!Taken
  <2>4. item \in I!Items /\ item.kind = "clause"
      BY <2>1, <2>2, <2>3, ClauseIsTaken, BlocksAreItems
  <2>5. Front(path) = I!Upto(path, Len(path) - 1) /\ Len(path) - 1 \in 0 .. Len(path) /\ Len(path) >= 1
      BY <1>2, <1>16, <2>1
  <2>6. /\ Front(path) \in Paths /\ Len(Front(path)) = Len(path) - 1
        /\ \A k \in 1 .. Len(path) - 1 : Front(path)[k] = path[k]
      BY <1>3, <2>5, PathCut
  <2> HIDE DEF item
  <2>7. /\ shut \in Paths /\ Len(shut) = Len(path)
        /\ \A k \in 1 .. Len(path) - 1 : shut[k] = path[k]
        /\ shut[Len(path)] = item
    <3>1. Len(Front(path)) \in Nat /\ Len(Front(path)) + 1 = Len(path)
        BY <1>3, <2>5, <2>6
    <3>2. /\ shut \in Paths /\ Len(shut) = Len(Front(path)) + 1
          /\ \A k \in 1 .. Len(Front(path)) : shut[k] = Front(path)[k]
          /\ shut[Len(Front(path)) + 1] = item
        BY <2>4, <2>6, PathGrows
    <3> HIDE DEF shut
    <3> QED BY <2>6, <3>1, <3>2
  <2> HIDE DEF shut
  <2>8. Len(path) - 1 <= Len(shut) /\ \A k \in Len(path) .. Len(shut) : shut[k].kind # "try"
      BY <1>3, <2>4, <2>7
  <2> QED BY <1>28, <2>1, <2>7, <2>8
<1>30. CASE V!PassOn
  <2>1. /\ vmode = "clauses" /\ vframes' = Goes(vframes, Front(path))
        /\ vmode' = "flying" /\ UNCHANGED <<vhandlers, vdepths, vthrown, vout>>
      BY <1>4, <1>30, SameOperators, VmMoves DEF V!PassOn
  <2>2. Front(path) = I!Upto(path, Len(path) - 1) /\ Len(path) - 1 \in 0 .. Len(path) /\ Len(path) >= 1
      BY <1>2, <1>16, <2>1
  <2>3. /\ Front(path) \in Paths /\ Len(Front(path)) = Len(path) - 1
        /\ \A k \in 1 .. Len(path) - 1 : Front(path)[k] = path[k]
      BY <1>3, <2>2, PathCut
  <2>4. Len(path) - 1 <= Len(Front(path)) /\ \A k \in Len(path) .. Len(Front(path)) : Front(path)[k].kind # "try"
      BY <1>3, <2>3
  <2> QED BY <1>1, <1>28, <2>1, <2>3, <2>4
<1>31. CASE V!Finish
    BY <1>1, <1>3, <1>5, <1>6, <1>8, <1>31 DEF V!Finish, top
<1>32. CASE UNCHANGED V!vars
  <2>1. UNCHANGED <<vframes, vhandlers, vdepths, vmode, vthrown, vout>>
      BY <1>32 DEF V!vars
  <2> QED BY <1>1, <1>2, <1>7, <2>1 DEF path
<1> QED BY <1>10, <1>11, <1>12, <1>13, <1>18, <1>19, <1>21, <1>22, <1>23, <1>24, <1>25, <1>26,
           <1>27, <1>29, <1>30, <1>31, <1>32
        DEF V!Next

-------------------------------------------------------------------------------
(* The theorems.                                                           *)

\* The VM's handler stack holds handlers, its stack of executes frame counts
\* below the running frame: in every state.
THEOREM VmTypesAlways == V!Spec => []V!TypeOK
<1>1. V!Init => VInv
    BY VmInit
<1>2. VInv /\ [V!Next]_(V!vars) => VInv'
    BY VmStep
<1>3. VInv => V!TypeOK
    BY VmTypes
<1> QED BY <1>1, <1>2, <1>3, PTL DEF V!Spec

\* The handlers the VM holds are the try bodies the program is in, each with
\* its frame, whatever returns out of a try, breaks out of a loop in it, fails
\* in a call or in a nested execute of it.
THEOREM HandlersAlwaysOpenTries == V!Spec => []V!HandlersAreOpenTries
<1>1. V!Init => VInv
    BY VmInit
<1>2. VInv /\ [V!Next]_(V!vars) => VInv'
    BY VmStep
<1>3. VInv => V!HandlersAreOpenTries
    BY VmHandlers
<1> QED BY <1>1, <1>2, <1>3, PTL DEF V!Spec

\* A compiled program's state has its types, the depth never below zero.
THEOREM NativeTypesAlways == ASSUME ~JumpsLeaveTries PROVE Spec => []TypeOK
<1>1. NInv => TypeOK
    BY DEF NInv
<1> QED BY <1>1, NativeAlways, PTL

\* The depth a compiled program counts is the number of tries it is in, so a
\* failure unwinds exactly when a try is there to stop it.  It holds of programs
\* in which no `return`, `break` or `continue` leaves a try's body: generated
\* code does not count the try out on those (src/src/cbackend.rs:2780).
THEOREM DepthAlwaysCounts == ASSUME ~JumpsLeaveTries PROVE Spec => []DepthCountsOpenTries
<1>1. NInv => DepthCountsOpenTries
    BY DEF NInv
<1> QED BY <1>1, NativeAlways, PTL

\* Both at once, as run `engines` checks it.
THEOREM TriesAlwaysCounted == ASSUME ~JumpsLeaveTries PROVE EnginesSpec => []TriesAreCounted
<1> DEFINE step == NativeNext \/ VmNext \/ SumNext \/ NameNext \/ PoolNext
<1>1. EnginesInit => NInv /\ VInv
    BY NativeInit, VmInit DEF EnginesInit
<1>2. ASSUME NInv, VInv, [step]_all
      PROVE  NInv' /\ VInv'
  <2>1. [Next]_vars /\ [V!Next]_(V!vars)
      BY <1>2 DEF NativeNext, VmNext, SumNext, NameNext, PoolNext, all, vmVars, V!vars
  <2> QED BY <1>2, <2>1, NativeStep, VmStep
<1>3. NInv /\ VInv => TriesAreCounted
    BY VmHandlers DEF NInv, TriesAreCounted
<1> QED BY <1>1, <1>2, <1>3, PTL DEF EnginesSpec

--------------------------------------------------------------------------------
(* Int arithmetic, for any width: what the engines answer is the number, or  *)
(* an error.  Division and remainder first.                                  *)

LEMMA DivMod ==
    ASSUME NEW x \in Int, NEW m \in Nat, m > 0
    PROVE  x \div m \in Int /\ x % m \in 0 .. m - 1 /\ x = m * (x \div m) + (x % m)
BY SMT

LEMMA Multiples ==
    ASSUME NEW m \in Nat, m > 0, NEW q \in Int, NEW p \in Int, q >= p + 1
    PROVE  m * q >= m * p + m
BY SMT

LEMMA DivModIs ==
    ASSUME NEW x \in Int, NEW m \in Nat, m > 0, NEW q \in Int, NEW r \in 0 .. m - 1, x = m * q + r
    PROVE  x \div m = q /\ x % m = r
<1>1. x \div m \in Int /\ x % m \in 0 .. m - 1 /\ x = m * (x \div m) + (x % m)
    BY DivMod
<1> DEFINE p == x \div m
           s == x % m
<1> HIDE DEF p, s
<1>2. p \in Int /\ s \in 0 .. m - 1 /\ x = m * p + s
    BY <1>1 DEF p, s
<1>3. ~(q >= p + 1)
    <2>1. m * q \in Int /\ m * p \in Int
        BY <1>2
    <2> QED BY <1>2, <2>1, Multiples
<1>4. ~(p >= q + 1)
    <2>1. m * q \in Int /\ m * p \in Int
        BY <1>2
    <2> QED BY <1>2, <2>1, Multiples
<1>5. p = q
    BY <1>2, <1>3, <1>4
<1> QED BY <1>2, <1>5 DEF p, s

\* What holds of 0, and of i + 1 when of i, holds of every number: S is the set
\* of those it holds of.
LEMMA Induction ==
    ASSUME NEW S, 0 \in S, \A i \in Nat : i \in S => i + 1 \in S
    PROVE  Nat \subseteq S
<1> SUFFICES ASSUME Nat \ S # {} PROVE FALSE
    OBVIOUS
<1>1. PICK k \in Nat \ S : \A j \in Nat \ S : ~(<<j, k>> \in OpToRel(<, Nat))
    BY WFMin, NatLessThanWellFounded
<1>2. \A j \in Nat \ S : ~(j < k)
    BY <1>1 DEF OpToRel
<1>3. k - 1 \in Nat /\ k - 1 < k /\ (k - 1) + 1 = k
    <2>1. k \in Nat /\ k \notin S
        BY <1>1
    <2>2. k # 0
        BY <2>1
    <2> HIDE <1>1
    <2> QED BY <2>1, <2>2
<1>4. k - 1 \in S
    BY <1>2, <1>3
<1>5. (k - 1) + 1 \in S
    BY <1>3, <1>4
<1> QED BY <1>1, <1>3, <1>5

--------------------------------------------------------------------------------
(* Powers.                                                                 *)

\* The first powers of x, one after the other.
FirstPowers(x, k) == {g \in [0 .. k -> Int] : g[0] = 1 /\ \A i \in 1 .. k : g[i] = g[i - 1] * x}

LEMMA PowersExist ==
    ASSUME NEW x \in Int, NEW k \in Nat
    PROVE  FirstPowers(x, k) # {}
<1> DEFINE S == {i \in Nat : FirstPowers(x, i) # {}}
<1>1. 0 \in S
    <2> DEFINE g == [i \in 0 .. 0 |-> 1]
    <2>1. g \in FirstPowers(x, 0)
        BY DEF FirstPowers
    <2> QED BY <2>1
<1>2. ASSUME NEW i \in Nat, i \in S PROVE i + 1 \in S
    <2>1. PICK g : g \in FirstPowers(x, i)
        BY <1>2
    <2> DEFINE h == [j \in 0 .. i + 1 |-> IF j = i + 1 THEN g[i] * x ELSE g[j]]
    <2>2. g \in [0 .. i -> Int] /\ g[0] = 1 /\ \A j \in 1 .. i : g[j] = g[j - 1] * x
        BY <2>1 DEF FirstPowers
    <2>3. h \in [0 .. i + 1 -> Int]
        <3>1. \A j \in 0 .. i + 1 : j # i + 1 => j \in 0 .. i
            OBVIOUS
        <3>2. g[i] * x \in Int
            BY <2>2
        <3> QED BY <2>2, <3>1, <3>2
    <2>4. h[0] = 1
        BY <2>2
    <2>5. ASSUME NEW j \in 1 .. i + 1 PROVE h[j] = h[j - 1] * x
        <3>1. j \in 0 .. i + 1 /\ j - 1 \in 0 .. i + 1 /\ j - 1 # i + 1
            OBVIOUS
        <3>2. CASE j = i + 1
            BY <3>1, <3>2
        <3>3. CASE j # i + 1
            <4>1. j \in 1 .. i
                BY <3>3
            <4> QED BY <2>2, <3>1, <3>3, <4>1
        <3> QED BY <3>2, <3>3
    <2> HIDE DEF h
    <2>6. h \in FirstPowers(x, i + 1)
        BY <2>3, <2>4, <2>5 DEF FirstPowers
    <2> QED BY <2>6
<1> HIDE DEF S
<1>3. Nat \subseteq S
    BY <1>1, <1>2, Induction
<1> QED BY <1>3 DEF S

LEMMA PowersAgree ==
    ASSUME NEW x \in Int, NEW k \in Nat, NEW m \in Nat, NEW g \in FirstPowers(x, k), NEW h \in FirstPowers(x, m),
           NEW i \in Nat, i <= k, i <= m
    PROVE  g[i] = h[i]
<1> DEFINE S == {j \in Nat : j <= k /\ j <= m => g[j] = h[j]}
<1>1. 0 \in S
    BY DEF FirstPowers
<1>2. ASSUME NEW j \in Nat, j \in S PROVE j + 1 \in S
    <2> SUFFICES ASSUME j + 1 <= k, j + 1 <= m PROVE g[j + 1] = h[j + 1]
        OBVIOUS
    <2>1. j + 1 \in 1 .. k /\ j + 1 \in 1 .. m /\ (j + 1) - 1 = j
        OBVIOUS
    <2>2. g[j] = h[j]
        BY <1>2, <2>1
    <2> HIDE DEF S
    <2>3. g[j + 1] = g[(j + 1) - 1] * x /\ h[j + 1] = h[(j + 1) - 1] * x
        BY <2>1 DEF FirstPowers
    <2> QED BY <2>1, <2>2, <2>3
<1> HIDE DEF S
<1>3. Nat \subseteq S
    BY <1>1, <1>2, Induction
<1>4. i \in S
    BY <1>3
<1> QED BY <1>4 DEF S

LEMMA Powers ==
    ASSUME NEW x \in Int
    PROVE  /\ A!Power(x, 0) = 1
           /\ \A i \in Nat : A!Power(x, i) \in Int /\ A!Power(x, i + 1) = A!Power(x, i) * x
<1> DEFINE Solves(f) == f = [i \in Nat |-> IF i = 0 THEN 1 ELSE f[i - 1] * x]
           h == CHOOSE f : Solves(f)
           up == [i \in Nat |-> CHOOSE g : g \in FirstPowers(x, i)]
           f0 == [i \in Nat |-> up[i][i]]
<1>1. \A i \in Nat : up[i] \in FirstPowers(x, i)
    BY PowersExist
<1> HIDE DEF up
<1>2. f0[0] = 1
    BY <1>1 DEF FirstPowers
<1>3. \A i \in Nat : f0[i] \in Int
    BY <1>1 DEF FirstPowers
<1>4. ASSUME NEW i \in Nat, i # 0 PROVE f0[i] = f0[i - 1] * x
    <2>1. i - 1 \in Nat /\ i \in 1 .. i /\ i - 1 <= i /\ i - 1 <= i - 1
        BY <1>4
    <2>2. up[i] \in FirstPowers(x, i) /\ up[i - 1] \in FirstPowers(x, i - 1)
        BY <1>1, <2>1
    <2>3. up[i][i - 1] = up[i - 1][i - 1]
        BY <2>1, <2>2, PowersAgree
    <2>4. up[i][i] = up[i][i - 1] * x
        BY <2>1, <2>2 DEF FirstPowers
    <2> QED BY <2>1, <2>3, <2>4
<1>5. Solves(f0)
    <2>1. f0 = [i \in Nat |-> f0[i]]
        OBVIOUS
    <2> HIDE DEF f0
    <2>2. \A i \in Nat : f0[i] = IF i = 0 THEN 1 ELSE f0[i - 1] * x
        BY <1>2, <1>4
    <2> QED BY <2>1, <2>2
<1> HIDE DEF f0
<1>6. \A y : A!Power(x, y) = h[y]
    BY DEF A!Power
<1> HIDE DEF Solves
<1>7. Solves(h)
    BY <1>5, Zenon
<1> HIDE DEF h
<1>8. h = [i \in Nat |-> IF i = 0 THEN 1 ELSE h[i - 1] * x]
    BY <1>7 DEF Solves
<1>9. h[0] = 1 /\ \A i \in Nat : h[i + 1] = h[i] * x
    <2>1. \A i \in Nat : h[i] = IF i = 0 THEN 1 ELSE h[i - 1] * x
        BY <1>8
    <2>2. \A i \in Nat : i + 1 \in Nat /\ i + 1 # 0 /\ (i + 1) - 1 = i
        OBVIOUS
    <2> QED BY <2>1, <2>2
<1>10. \A i \in Nat : h[i] \in Int
    <2> DEFINE S == {i \in Nat : h[i] \in Int}
    <2>1. 0 \in S
        BY <1>9
    <2>2. ASSUME NEW i \in Nat, i \in S PROVE i + 1 \in S
        BY <1>9, <2>2
    <2> HIDE DEF S
    <2>3. Nat \subseteq S
        BY <2>1, <2>2, Induction
    <2> QED BY <2>3 DEF S
<1> QED BY <1>6, <1>9, <1>10

LEMMA MoreIsMore ==
    ASSUME NEW x \in Nat, NEW y \in Nat, NEW v \in Nat, NEW w \in Nat, x <= y, v <= w
    PROVE  x * v <= y * w
BY SMT

LEMMA PowersGrow ==
    ASSUME NEW x \in Nat, NEW y \in Nat, x <= y
    PROVE  \A i \in Nat : A!Power(x, i) \in Nat /\ A!Power(y, i) \in Nat /\ A!Power(x, i) <= A!Power(y, i)
<1> DEFINE S == {i \in Nat : A!Power(x, i) \in Nat /\ A!Power(y, i) \in Nat /\ A!Power(x, i) <= A!Power(y, i)}
<1>1. 0 \in S
    <2>1. A!Power(x, 0) = 1 /\ A!Power(y, 0) = 1
        BY Powers
    <2> QED BY <2>1
<1>2. ASSUME NEW i \in Nat, i \in S PROVE i + 1 \in S
    <2> DEFINE v == A!Power(x, i)
               w == A!Power(y, i)
    <2>1. v \in Nat /\ w \in Nat /\ v <= w
        BY <1>2
    <2>2. A!Power(x, i + 1) = v * x /\ A!Power(y, i + 1) = w * y
        BY Powers
    <2> HIDE DEF v, w
    <2>3. v * x \in Nat /\ w * y \in Nat /\ v * x <= w * y
        BY <2>1, MoreIsMore
    <2> QED BY <2>2, <2>3
<1>3. Nat \subseteq S
    BY <1>1, <1>2, Induction
<1> QED BY <1>3

LEMMA PowersOfNone ==
    ASSUME NEW i \in Nat
    PROVE  /\ i > 0 => A!Power(0, i) = 0
           /\ A!Power(1, i) = 1
<1> DEFINE S == {j \in Nat : A!Power(1, j) = 1}
<1>1. 0 \in S
    BY Powers
<1>2. ASSUME NEW j \in Nat, j \in S PROVE j + 1 \in S
    BY <1>2, Powers
<1>3. Nat \subseteq S
    BY <1>1, <1>2, Induction
<1>4. i > 0 => A!Power(0, i) = 0
    <2> SUFFICES ASSUME i > 0 PROVE A!Power(0, i) = 0
        OBVIOUS
    <2>1. i - 1 \in Nat /\ (i - 1) + 1 = i
        OBVIOUS
    <2>2. A!Power(0, i - 1) \in Int /\ A!Power(0, (i - 1) + 1) = A!Power(0, i - 1) * 0
        BY <2>1, Powers
    <2> QED BY <2>1, <2>2
<1> QED BY <1>3, <1>4

\* A power of two is positive, and a number's own is past it.
LEMMA Twos ==
    ASSUME NEW i \in Nat
    PROVE  A!Power(2, i) \in Nat /\ A!Power(2, i) >= 1 /\ A!Power(2, i + 1) = 2 * A!Power(2, i)
<1> DEFINE S == {j \in Nat : A!Power(2, j) >= 1}
<1>0. \A j \in Nat : A!Power(2, j) \in Int /\ A!Power(2, j + 1) = A!Power(2, j) * 2
    BY Powers
<1>1. 0 \in S
    BY Powers
<1>2. ASSUME NEW j \in Nat, j \in S PROVE j + 1 \in S
    BY <1>0, <1>2
<1>3. Nat \subseteq S
    BY <1>1, <1>2, Induction
<1> QED BY <1>0, <1>3

\* The numbers an Int may be: at least -2 .. 1.
LEMMA HalfIs ==
    /\ A!Half \in Nat /\ A!Half >= 2 /\ A!Power(2, Width) = 2 * A!Half
<1>1. Width - 2 \in Nat /\ (Width - 2) + 1 = Width - 1 /\ Width - 1 \in Nat /\ (Width - 1) + 1 = Width
    BY WidthAssumption
<1>2. A!Power(2, Width - 2) \in Nat /\ A!Power(2, Width - 2) >= 1 /\ A!Power(2, (Width - 2) + 1) = 2 * A!Power(2, Width - 2)
    BY <1>1, Twos
<1>3. A!Power(2, Width - 1) \in Nat /\ A!Power(2, (Width - 1) + 1) = 2 * A!Power(2, Width - 1)
    BY <1>1, Twos
<1> QED BY <1>1, <1>2, <1>3 DEF A!Half
--------------------------------------------------------------------------------
(* Words: Width bits, and the Ints they are.                               *)

\* A word that differs from a number by a multiple of 2 ^ Width is its word.
LEMMA BitsAre ==
    ASSUME NEW x \in Int, NEW u \in 0 .. 2 * A!Half - 1, NEW q \in Int, x = 2 * A!Half * q + u
    PROVE  A!Bits(x) = u
<1> DEFINE m == 2 * A!Half
<1>1. m \in Nat /\ m > 0 /\ A!Power(2, Width) = m
    BY HalfIs
<1> HIDE DEF m
<1>2. u \in 0 .. m - 1 /\ x = m * q + u
    BY DEF m
<1>3. x % m = u
    BY <1>1, <1>2, DivModIs
<1> QED BY <1>1, <1>3 DEF A!Bits

LEMMA WordIs ==
    ASSUME NEW x \in Int
    PROVE  A!Bits(x) \in 0 .. 2 * A!Half - 1 /\ \E q \in Int : x = 2 * A!Half * q + A!Bits(x)
<1> DEFINE m == 2 * A!Half
<1>1. m \in Nat /\ m > 0 /\ A!Power(2, Width) = m
    BY HalfIs
<1> HIDE DEF m
<1>2. x \div m \in Int /\ x % m \in 0 .. m - 1 /\ x = m * (x \div m) + (x % m)
    BY <1>1, DivMod
<1>3. A!Bits(x) = x % m
    BY <1>1 DEF A!Bits
<1> QED BY <1>2, <1>3 DEF m

\* What the bits of an Int, and of a word, are, and what Int they are.
LEMMA BitsOfInt ==
    ASSUME NEW x \in A!Ints
    PROVE  A!Bits(x) = (IF x < 0 THEN x + 2 * A!Half ELSE x) /\ x \in Int /\ A!Wrapped(x) = x
<1> DEFINE H == A!Half
<1>1. H \in Nat /\ H >= 2 /\ A!Power(2, Width) = 2 * H /\ x \in -H .. H - 1
    BY HalfIs DEF A!Ints
<1>2. CASE x < 0
    <2>1. x + 2 * H \in 0 .. 2 * H - 1 /\ x \in Int /\ x = 2 * H * (-1) + (x + 2 * H)
        BY <1>1, <1>2, SMT
    <2>2. A!Bits(x) = x + 2 * H
        BY <2>1, BitsAre
    <2> QED BY <1>1, <1>2, <2>1, <2>2 DEF A!Wrapped, A!Signed
<1>3. CASE ~(x < 0)
    <2>1. x \in 0 .. 2 * H - 1 /\ x \in Int /\ x = 2 * H * 0 + x
        BY <1>1, <1>3, SMT
    <2>2. A!Bits(x) = x
        BY <2>1, BitsAre
    <2> QED BY <1>1, <1>3, <2>1, <2>2 DEF A!Wrapped, A!Signed
<1> QED BY <1>2, <1>3

LEMMA BitsOfWord ==
    ASSUME NEW u \in 0 .. 2 * A!Half - 1
    PROVE  A!Bits(u) = u /\ A!Signed(u) \in A!Ints /\ A!Wrapped(u) = A!Signed(u)
<1> DEFINE H == A!Half
<1>1. H \in Nat /\ H >= 2 /\ A!Power(2, Width) = 2 * H
    BY HalfIs
<1>2. u \in Int /\ u = 2 * H * 0 + u
    BY <1>1
<1>3. A!Bits(u) = u
    BY <1>2, BitsAre
<1>4. A!Signed(u) \in A!Ints
    BY <1>1 DEF A!Signed, A!Ints
<1> QED BY <1>3, <1>4 DEF A!Wrapped

LEMMA WrappedIsInt ==
    ASSUME NEW x \in Int
    PROVE  A!Wrapped(x) \in A!Ints
BY WordIs, BitsOfWord DEF A!Wrapped
--------------------------------------------------------------------------------
(* The arms, of each engine.                                               *)

LEMMA IntsAre ==
    ASSUME NEW x
    PROVE  x \in A!Ints <=> x \in Int /\ -A!Half <= x /\ x <= A!Half - 1
BY HalfIs DEF A!Ints

LEMMA NegIs ==
    ASSUME NEW x \in A!Ints, x # -A!Half
    PROVE  /\ -x \in A!Ints
           /\ A!Neg(x) = A!Value(-x) /\ A!FoldNeg(x) = A!Value(-x) /\ A!NativeNeg(x) = A!Value(-x)
<1>1. -x \in A!Ints
    BY HalfIs, IntsAre
<1>2. A!Wrapped(-x) = -x
    BY <1>1, BitsOfInt
<1> QED BY <1>1, <1>2 DEF A!Neg, A!FoldNeg, A!NativeNeg, A!Checked

LEMMA AbsIs ==
    ASSUME NEW x \in A!Ints
    PROVE  /\ A!Abs(x) \in Int /\ A!AbsOf(x) = A!Value(A!Wrapped(A!Abs(x)))
           /\ A!NativeAbs(x) = A!AbsOf(x)
<1> DEFINE H == A!Half
<1>1. H \in Nat /\ H >= 2 /\ A!Power(2, Width) = 2 * H /\ x \in Int /\ -H <= x /\ x <= H - 1
    BY HalfIs, IntsAre
<1>2. CASE x < 0
    <2>1. A!Abs(x) = -x /\ A!Bits(x) = x + 2 * H
        BY <1>2, BitsOfInt DEF A!Abs
    <2>2. A!Power(2, Width) - A!Bits(x) = -x
        BY <1>1, <2>1
    <2>3. A!NativeAbs(x) = A!Value(A!Signed(A!Bits(A!Power(2, Width) - A!Bits(x))))
        BY <1>2 DEF A!NativeAbs
    <2> QED BY <1>1, <2>1, <2>2, <2>3 DEF A!AbsOf, A!Wrapped
<1>3. CASE ~(x < 0)
    <2>1. A!Abs(x) = x /\ A!Wrapped(x) = x
        BY <1>3, BitsOfInt DEF A!Abs
    <2> QED BY <1>1, <1>3, <2>1 DEF A!AbsOf, A!NativeAbs
<1> QED BY <1>2, <1>3

LEMMA BNotIs ==
    ASSUME NEW x \in A!Ints
    PROVE  -x - 1 \in A!Ints /\ A!BNot(x) = A!Value(-x - 1)
<1> DEFINE H == A!Half
<1>1. H \in Nat /\ H >= 2 /\ A!Power(2, Width) = 2 * H /\ x \in Int /\ -H <= x /\ x <= H - 1
    BY HalfIs, IntsAre
<1>2. -x - 1 \in A!Ints
    BY <1>1, IntsAre
<1>3. A!Bits(x) = IF x < 0 THEN x + 2 * H ELSE x
    BY BitsOfInt
<1> HIDE DEF H
<1>4. A!Inverse(A!Bits(x)) = IF x < 0 THEN -x - 1 ELSE 2 * H - x - 1
    BY <1>1, <1>3 DEF A!Inverse
<1>5. A!Signed(A!Inverse(A!Bits(x))) = -x - 1
    BY <1>1, <1>4 DEF A!Signed, H
<1> QED BY <1>2, <1>5 DEF A!BNot

\* Division towards zero fits, but for the least Int by -1.
LEMMA QuotientIs ==
    ASSUME NEW x \in A!Ints, NEW y \in A!Ints, y # 0
    PROVE  /\ A!Quotient(x, y) \in Int
           /\ A!Quotient(x, y) \in A!Ints <=> ~(x = -A!Half /\ y = -1)
           /\ ~(x = -A!Half /\ y = -1) => A!Remainder(x, y) \in A!Ints
<1> DEFINE H == A!Half
           m == A!Abs(y)
           d == A!Abs(x)
           q == d \div m
           r == d % m
<1>1. H \in Nat /\ H >= 2 /\ x \in Int /\ -H <= x /\ x <= H - 1 /\ y \in Int /\ -H <= y /\ y <= H - 1
    BY HalfIs, IntsAre
<1>2. /\ d \in Nat /\ d <= H /\ (x = d \/ x = -d) /\ (x < 0 <=> x # d)
      /\ m \in Nat /\ m > 0 /\ m <= H /\ (y = m \/ y = -m) /\ (y < 0 <=> y # m)
    BY <1>1 DEF A!Abs
<1> HIDE DEF m, d
<1>3. q \in Int /\ r \in 0 .. m - 1 /\ d = m * q + r
    BY <1>2, DivMod
<1>4. A!Quotient(x, y) = IF (x < 0) = (y < 0) THEN q ELSE -q
    BY DEF A!Quotient, m, d
<1> HIDE DEF q, r
<1>5. q >= 0
    <2>1. ~(0 >= q + 1)
        <3>1. 0 >= q + 1 => m * 0 >= m * q + m
            BY <1>2, <1>3, Multiples
        <3>2. m * q \in Int /\ m * 0 = 0
            BY <1>2, <1>3
        <3> QED BY <1>2, <1>3, <3>1, <3>2
    <2> QED BY <1>3, <2>1
<1>6. m = 1 => q = d
    BY <1>2, <1>3
<1>7. m >= 2 => q <= H - 1
    <2> SUFFICES ASSUME m >= 2 PROVE q <= H - 1
        OBVIOUS
    <2>1. 2 * q <= m * q
        BY <1>2, <1>3, <1>5, MoreIsMore
    <2>2. m * q \in Int
        BY <1>2, <1>3
    <2> QED BY <1>1, <1>2, <1>3, <1>5, <2>1, <2>2
<1> HIDE DEF H
<1>8. /\ A!Quotient(x, y) \in Int
      /\ -H <= A!Quotient(x, y) /\ A!Quotient(x, y) <= H - 1 <=> ~(x = -H /\ y = -1)
    BY <1>1, <1>2, <1>3, <1>4, <1>5, <1>6, <1>7
<1>9. y * A!Quotient(x, y) = IF x = d THEN m * q ELSE -(m * q)
    <2>1. m * q \in Int /\ (-m) * q = -(m * q) /\ m * (-q) = -(m * q) /\ (-m) * (-q) = m * q
        BY <1>2, <1>3, SMT
    <2> QED BY <1>2, <1>4, <2>1
<1>10. A!Remainder(x, y) = IF x = d THEN r ELSE -r
    <2>1. m * q \in Int
        BY <1>2, <1>3
    <2> QED BY <1>1, <1>2, <1>3, <1>9, <2>1 DEF A!Remainder
<1>11. A!Remainder(x, y) \in Int /\ -H <= A!Remainder(x, y) /\ A!Remainder(x, y) <= H - 1
    BY <1>1, <1>2, <1>3, <1>10
<1> QED BY <1>8, <1>11, IntsAre DEF H

LEMMA DivIs ==
    ASSUME NEW x \in A!Ints, NEW y \in A!Ints, y # 0
    PROVE  A!Div(x, y) = A!Checked(A!Quotient(x, y)) /\ A!NativeDiv(x, y) = A!Checked(A!Quotient(x, y))
BY QuotientIs DEF A!Div, A!NativeDiv, A!Checked

LEMMA RemIs ==
    ASSUME NEW x \in A!Ints, NEW y \in A!Ints, y # 0, ~(x = -A!Half /\ y = -1)
    PROVE  /\ A!Remainder(x, y) \in A!Ints
           /\ A!Rem(x, y) = A!Value(A!Remainder(x, y)) /\ A!NativeRem(x, y) = A!Value(A!Remainder(x, y))
           /\ A!FoldRem(x, y) = A!Value(A!Remainder(x, y))
BY QuotientIs DEF A!Rem, A!NativeRem, A!FoldRem

\* The count of a shift, and what shifts do to the word.
LEMMA CountIs ==
    ASSUME NEW y \in A!Ints
    PROVE  /\ y \in 0 .. Width - 1 => A!Count(y) = A!Value(y) /\ y \in Nat
           /\ y \notin 0 .. Width - 1 => A!Count(y) = A!Fails("shift count")
<1>1. y \in Int
    BY IntsAre
<1>2. (y < 0 \/ y > Width - 1) <=> y \notin 0 .. Width - 1
    BY <1>1, WidthAssumption
<1>3. y \in 0 .. Width - 1 => A!Count(y) = A!Value(y)
    BY <1>2, Zenon DEF A!Count
<1>4. y \notin 0 .. Width - 1 => A!Count(y) = A!Fails("shift count")
    BY <1>2, Zenon DEF A!Count
<1>5. y \in 0 .. Width - 1 => y \in Nat
    BY <1>1, WidthAssumption
<1> QED BY <1>3, <1>4, <1>5

LEMMA ShlIs ==
    ASSUME NEW x \in A!Ints, NEW y \in A!Ints, y \in 0 .. Width - 1
    PROVE  /\ A!Wrapped(x * A!Power(2, y)) \in A!Ints
           /\ A!Shl(x, y) = A!Value(A!Wrapped(x * A!Power(2, y)))
<1> DEFINE m == 2 * A!Half
           k == A!Power(2, y)
           u == A!Bits(x)
           w == A!Bits(x * k)
<1>1. A!Count(y) = A!Value(y) /\ y \in Nat /\ x \in Int /\ m \in Nat
    <2>1. A!Count(y) = A!Value(y) /\ y \in Nat
        BY CountIs
    <2>2. x \in Int /\ m \in Nat
        BY IntsAre, HalfIs
    <2> QED BY <2>1, <2>2
<1>2. k \in Nat
    BY <1>1, Twos
<1>3. PICK q \in Int : x = m * q + u
    BY <1>1, WordIs
<1>4. x * k \in Int /\ u \in Int
    BY <1>1, <1>2, WordIs
<1>5. PICK p \in Int : x * k = m * p + w
    BY <1>4, WordIs
<1>6. w \in 0 .. m - 1
    BY <1>4, WordIs
<1> HIDE DEF m, k, u, w
<1>7. u * k = m * (p - q * k) + w
    <2>1. (m * q) * k = m * (q * k) /\ q * k \in Int /\ u * k \in Int /\ m * p \in Int /\ m * q \in Int
        BY <1>1, <1>2, <1>3, <1>4, <1>5, SMT
    <2>2. x * k = (m * q) * k + u * k
        BY <1>1, <1>2, <1>3, <1>4, <2>1, SMT
    <2>3. m * (p - q * k) = m * p - m * (q * k)
        BY <1>1, <1>5, <2>1, SMT
    <2> DEFINE xk == x * k
               uk == u * k
               mp == m * p
               mqk == m * (q * k)
    <2>4. /\ xk \in Int /\ uk \in Int /\ mp \in Int /\ mqk \in Int /\ w \in Int
          /\ xk = mp + w /\ xk = mqk + uk /\ m * (p - q * k) = mp - mqk
        <3>1. mqk \in Int
            BY <1>1, <2>1, SMT
        <3> QED BY <1>1, <1>4, <1>5, <1>6, <2>1, <2>2, <2>3, <3>1
    <2>5. uk = m * (p - q * k) + w
        <3> HIDE DEF xk, uk, mp, mqk
        <3> QED BY <2>4
    <2> QED BY <2>5
<1>8. A!Bits(u * k) = w
    <2>1. u * k \in Int /\ p - q * k \in Int
        BY <1>2, <1>3, <1>4, <1>5
    <2> QED BY <1>6, <1>7, <2>1, BitsAre DEF m
<1>9. A!Shl(x, y) = A!Value(A!Signed(A!Bits(u * k)))
    BY <1>1 DEF A!Shl, A!Value, u, k
<1> QED BY <1>4, <1>8, <1>9, WrappedIsInt DEF A!Wrapped, w, k

LEMMA ShrIs ==
    ASSUME NEW x \in A!Ints, NEW y \in A!Ints, y \in 0 .. Width - 1
    PROVE  /\ x \div A!Power(2, y) \in A!Ints
           /\ A!Shr(x, y) = A!Value(x \div A!Power(2, y))
<1> DEFINE H == A!Half
           k == A!Power(2, y)
           d == x \div k
           r == x % k
           nx == -x - 1
           e == nx \div k
<1>1. A!Count(y) = A!Value(y) /\ y \in Nat
    BY CountIs
<1>2. H \in Nat /\ H >= 2 /\ A!Power(2, Width) = 2 * H /\ x \in Int /\ -H <= x /\ x <= H - 1 /\ nx \in Int
    BY HalfIs, IntsAre
<1>3. k \in Nat /\ k >= 1
    BY <1>1, Twos
<1>4. d \in Int /\ r \in 0 .. k - 1 /\ x = k * d + r
    BY <1>2, <1>3, DivMod
<1>5. A!Bits(x) = IF x < 0 THEN x + 2 * H ELSE x
    BY BitsOfInt
<1>6. e = -d - 1
    <2> HIDE DEF k, d, r
    <2>1. -d - 1 \in Int /\ k - 1 - r \in 0 .. k - 1
        BY <1>3, <1>4
    <2>2. nx = k * (-d - 1) + (k - 1 - r)
        <3>1. k * (-d - 1) = -(k * d) - k /\ k * d \in Int
            BY <1>3, <1>4, SMT
        <3> QED BY <1>3, <1>4, <3>1
    <2> DEFINE s == -d - 1
               v == k - 1 - r
    <2>3. nx \in Int /\ k \in Nat /\ k > 0 /\ s \in Int /\ v \in 0 .. k - 1 /\ nx = k * s + v
        BY <1>2, <1>3, <2>1, <2>2
    <2> HIDE DEF nx, s, v
    <2>4. nx \div k = s
        BY <2>3, DivModIs
    <2> QED BY <2>4 DEF s
<1>7. A!SignedShr(x, y) = IF x < 0 THEN 2 * H - 1 - e ELSE d
    <2>1. CASE x < 0
        <3>1. A!Inverse(A!Bits(x)) = nx
            BY <1>2, <1>5, <2>1 DEF A!Inverse
        <3>2. A!SignedShr(x, y) = A!Inverse(A!Inverse(A!Bits(x)) \div k)
            BY <2>1 DEF A!SignedShr
        <3> QED BY <1>2, <2>1, <3>1, <3>2 DEF A!Inverse
    <2>2. CASE ~(x < 0)
        BY <1>5, <2>2 DEF A!SignedShr
    <2> QED BY <2>1, <2>2
<1>8. A!Shr(x, y) = A!Value(A!Signed(A!SignedShr(x, y)))
    BY <1>1 DEF A!Shr, A!Value
<1> HIDE DEF H, k, d, r, nx, e
<1>9. IF x < 0 THEN -H <= d /\ d <= -1 ELSE 0 <= d /\ d <= H - 1
    <2>0. k * d \in Int
        BY <1>3, <1>4
    <2>1. CASE x < 0
        <3>1. ~(d >= 0)
            <4>1. d >= 0 => k * d >= 0
                BY <1>3, <1>4, MoreIsMore
            <4> QED BY <1>4, <2>0, <2>1, <4>1
        <3>2. (-d) * 1 <= (-d) * k /\ (-d) * k = -(k * d)
            <4>1. -d \in Nat
                BY <1>4, <3>1
            <4>2. (-d) * 1 <= (-d) * k
                BY <1>3, <4>1, MoreIsMore
            <4>3. (-d) * k = -(k * d)
                BY <1>3, <1>4, SMT
            <4> QED BY <4>2, <4>3
        <3>3. d >= k * d
            BY <1>4, <2>0, <3>2
        <3>4. d >= -H
            <4>1. ~(d <= -H - 1)
                <5>1. d <= -H - 1 => k * d + r < -H
                    <6> SUFFICES ASSUME d <= -H - 1 PROVE k * d + r < -H
                        OBVIOUS
                    <6>1. k * (-d) >= k * H + k
                        BY <1>2, <1>3, <1>4, Multiples
                    <6>2. k * (-d) = -(k * d) /\ k * H \in Int
                        BY <1>2, <1>3, <1>4, SMT
                    <6>3. 1 * H <= k * H
                        BY <1>2, <1>3, MoreIsMore
                    <6> QED BY <1>2, <1>3, <1>4, <2>0, <6>1, <6>2, <6>3
                <5> QED BY <1>2, <1>4, <5>1
            <4> QED BY <1>2, <1>4, <4>1
        <3> QED BY <1>4, <2>1, <3>1, <3>4
    <2>2. CASE ~(x < 0)
        <3>1. ~(d <= -1)
            <4>1. d <= -1 => k * (-d) >= k * 0 + k
                BY <1>3, <1>4, Multiples
            <4>2. k * (-d) = -(k * d) /\ k * 0 = 0
                BY <1>3, <1>4, SMT
            <4> QED BY <1>2, <1>3, <1>4, <2>0, <2>2, <4>1, <4>2
        <3>2. 1 * d <= k * d
            <4>1. d \in Nat
                BY <1>4, <3>1
            <4> QED BY <1>3, <4>1, MoreIsMore
        <3> QED BY <1>2, <1>4, <2>0, <2>2, <3>1, <3>2
    <2> QED BY <2>1, <2>2
<1>10. A!Signed(A!SignedShr(x, y)) = d
    <2>1. A!Signed(A!SignedShr(x, y)) = IF A!SignedShr(x, y) >= H THEN A!SignedShr(x, y) - 2 * H ELSE A!SignedShr(x, y)
        BY <1>2 DEF A!Signed, H
    <2> QED BY <1>2, <1>4, <1>6, <1>7, <1>9, <2>1
<1>11. d \in A!Ints
    BY <1>2, <1>4, <1>9, IntsAre DEF H
<1> QED BY <1>8, <1>10, <1>11 DEF d, k

LEMMA UshrIs ==
    ASSUME NEW x \in A!Ints, NEW y \in A!Ints, y \in 0 .. Width - 1
    PROVE  /\ A!Wrapped(A!Bits(x) \div A!Power(2, y)) \in A!Ints
           /\ A!Ushr(x, y) = A!Value(A!Wrapped(A!Bits(x) \div A!Power(2, y)))
<1> DEFINE m == 2 * A!Half
           k == A!Power(2, y)
           u == A!Bits(x)
           d == u \div k
           r == u % k
<1>1. A!Count(y) = A!Value(y) /\ y \in Nat /\ x \in Int /\ m \in Nat
    <2>1. A!Count(y) = A!Value(y) /\ y \in Nat
        BY CountIs
    <2>2. x \in Int /\ m \in Nat
        BY IntsAre, HalfIs
    <2> QED BY <2>1, <2>2
<1>2. k \in Nat /\ k >= 1
    BY <1>1, Twos
<1>3. u \in 0 .. m - 1
    BY <1>1, WordIs
<1>4. d \in Int /\ r \in 0 .. k - 1 /\ u = k * d + r
    <2>1. u \in Int /\ k > 0
        BY <1>1, <1>2, <1>3
    <2> HIDE DEF u, k
    <2> QED BY <1>2, <2>1, DivMod
<1>5. A!Ushr(x, y) = A!Value(A!Signed(d))
    BY <1>1 DEF A!Ushr, A!Value
<1> HIDE DEF m, k, u, d, r
<1>6. d \in 0 .. m - 1
    <2>0. k * d \in Int
        BY <1>2, <1>4
    <2>1. ~(d <= -1)
        <3>1. d <= -1 => k * (-d) >= k * 0 + k
            BY <1>2, <1>4, Multiples
        <3>2. k * (-d) = -(k * d) /\ k * 0 = 0
            BY <1>2, <1>4, SMT
        <3> QED BY <1>2, <1>3, <1>4, <2>0, <3>1, <3>2
    <2>2. 1 * d <= k * d
        <3>1. d \in Nat
            BY <1>4, <2>1
        <3> QED BY <1>2, <3>1, MoreIsMore
    <2> QED BY <1>1, <1>3, <1>4, <2>0, <2>1, <2>2
<1>7. A!Signed(d) \in A!Ints /\ A!Wrapped(d) = A!Signed(d)
    BY <1>6, BitsOfWord DEF m
<1> QED BY <1>5, <1>7 DEF d, u, k

--------------------------------------------------------------------------------
(* The loop of keal_int_pow stops at the first power that does not fit: then *)
(* no later one does.                                                       *)

LEMMA SizeGrows ==
    ASSUME NEW x \in Int, NEW i \in Nat, A!Power(x, i) \notin A!Ints
    PROVE  A!Power(x, i + 1) \notin A!Ints
<1> DEFINE H == A!Half
           p == A!Power(x, i)
<1>1. H \in Nat /\ H >= 2 /\ p \in Int /\ A!Power(x, i + 1) = p * x
    BY HalfIs, Powers
<1>2. p >= H \/ p <= -H - 1
    BY <1>1, IntsAre
<1>3. x # 0 /\ x # 1
    <2>1. x = 1 => p = 1
        BY PowersOfNone
    <2>2. x = 0 => p = 0 \/ p = 1
        <3>1. CASE i = 0
            BY <3>1, Powers
        <3>2. CASE i # 0
            BY <3>2, PowersOfNone
        <3> QED BY <3>1, <3>2
    <2> QED BY <1>1, <1>2, <2>1, <2>2
<1>4. x # -1
    <2> SUFFICES ASSUME x = -1 PROVE FALSE
        OBVIOUS
    <2> DEFINE S == {j \in Nat : A!Power(x, j) = 1 \/ A!Power(x, j) = -1}
    <2>1. 0 \in S
        BY Powers
    <2>2. ASSUME NEW j \in Nat, j \in S PROVE j + 1 \in S
        <3>1. A!Power(x, j + 1) = A!Power(x, j) * x
            BY Powers
        <3>2. A!Power(x, j) = 1 \/ A!Power(x, j) = -1
            BY <2>2
        <3>3. A!Power(x, j + 1) = 1 \/ A!Power(x, j + 1) = -1
            BY <3>1, <3>2
        <3> QED BY <3>3
    <2>3. Nat \subseteq S
        BY <2>1, <2>2, Induction
    <2>4. p = 1 \/ p = -1
        BY <2>3
    <2> QED BY <1>1, <1>2, <2>4
<1> HIDE DEF p, H
<1>5. p * x >= H \/ p * x <= -H - 1
    <2>0. p * x \in Int /\ (-p) * x = -(p * x) /\ p * (-x) = -(p * x) /\ (-p) * (-x) = p * x
        BY <1>1, SMT
    <2>1. CASE p >= H /\ x >= 2
        <3>1. p * 2 <= p * x
            BY <1>1, <2>1, MoreIsMore
        <3> QED BY <1>1, <2>0, <2>1, <3>1
    <2>2. CASE p >= H /\ x <= -2
        <3>1. p * 2 <= p * (-x)
            BY <1>1, <2>2, MoreIsMore
        <3> QED BY <1>1, <2>0, <2>2, <3>1
    <2>3. CASE p <= -H - 1 /\ x >= 2
        <3>1. (-p) * 2 <= (-p) * x
            BY <1>1, <2>3, MoreIsMore
        <3> QED BY <1>1, <2>0, <2>3, <3>1
    <2>4. CASE p <= -H - 1 /\ x <= -2
        <3>1. (-p) * 2 <= (-p) * (-x)
            BY <1>1, <2>4, MoreIsMore
        <3> QED BY <1>1, <2>0, <2>4, <3>1
    <2> QED BY <1>2, <1>3, <1>4, <2>1, <2>2, <2>3, <2>4
<1> QED BY <1>1, <1>5, IntsAre DEF p, H

LEMMA StaysOut ==
    ASSUME NEW x \in Int, NEW i \in Nat, A!Power(x, i) \notin A!Ints, NEW k \in Nat, i <= k
    PROVE  A!Power(x, k) \notin A!Ints
<1> DEFINE S == {j \in Nat : A!Power(x, i + j) \notin A!Ints}
<1>1. 0 \in S
    OBVIOUS
<1>2. ASSUME NEW j \in Nat, j \in S PROVE j + 1 \in S
    <2>1. i + j \in Nat /\ (i + j) + 1 = i + (j + 1)
        OBVIOUS
    <2>2. A!Power(x, i + j) \notin A!Ints
        BY <1>2
    <2>3. A!Power(x, (i + j) + 1) \notin A!Ints
        BY <2>1, <2>2, SizeGrows
    <2> QED BY <2>1, <2>3
<1> HIDE DEF S
<1>3. Nat \subseteq S
    BY <1>1, <1>2, Induction
<1>4. k - i \in Nat /\ i + (k - i) = k
    OBVIOUS
<1>5. k - i \in S
    BY <1>3, <1>4
<1> QED BY <1>4, <1>5 DEF S

LEMMA IntPowIs ==
    ASSUME NEW x \in A!Ints, NEW y \in A!Ints, y >= 0, ~(y > PowCap)
    PROVE  y \in Nat /\ A!IntPow(x, y) = A!Checked(A!Power(x, y))
BY IntsAre DEF A!IntPow

LEMMA NativePowIs ==
    ASSUME NEW x \in A!Ints, NEW y \in A!Ints, y >= 0
    PROVE  A!NativePow(x, y) = A!Checked(A!Power(x, y))
<1> DEFINE Step(f, i) == IF i = 0 THEN A!Value(1)
                         ELSE IF f[i - 1].fails # "no" THEN f[i - 1]
                         ELSE A!Checked(f[i - 1].value * x)
           Solves(f) == f = [i \in 0 .. y |-> Step(f, i)]
           h == CHOOSE f : Solves(f)
           c == [i \in 0 .. y |-> A!Checked(A!Power(x, i))]
<1>1. x \in Int /\ y \in Nat
    BY IntsAre
<1>2. \A i \in Nat : A!Checked(A!Power(x, i)) =
                         IF A!Power(x, i) \in A!Ints THEN A!Value(A!Power(x, i)) ELSE A!Overflow
    BY DEF A!Checked
<1>3. A!Checked(A!Power(x, 0)) = A!Value(1)
    <2>1. A!Power(x, 0) = 1
        BY <1>1, Powers
    <2>2. 1 \in A!Ints
        BY HalfIs, IntsAre
    <2> QED BY <2>1, <2>2 DEF A!Checked
<1>4. ASSUME NEW i \in Nat
      PROVE  A!Checked(A!Power(x, i + 1)) = IF A!Checked(A!Power(x, i)).fails # "no" THEN A!Checked(A!Power(x, i))
                                            ELSE A!Checked(A!Checked(A!Power(x, i)).value * x)
    <2>1. A!Power(x, i + 1) = A!Power(x, i) * x
        BY <1>1, Powers
    <2>2. CASE A!Power(x, i) \in A!Ints
        <3>1. A!Checked(A!Power(x, i)).fails = "no" /\ A!Checked(A!Power(x, i)).value = A!Power(x, i)
            BY <2>2 DEF A!Checked, A!Value
        <3> QED BY <2>1, <3>1
    <2>3. CASE A!Power(x, i) \notin A!Ints
        <3>1. A!Power(x, i + 1) \notin A!Ints
            BY <1>1, <2>3, SizeGrows
        <3>2. A!Checked(A!Power(x, i)) = A!Overflow /\ A!Checked(A!Power(x, i + 1)) = A!Overflow
            BY <2>3, <3>1 DEF A!Checked
        <3>3. A!Overflow.fails # "no"
            BY DEF A!Overflow, A!Fails
        <3> QED BY <3>2, <3>3
    <2> QED BY <2>2, <2>3
<1>5. Solves(c)
    <2> SUFFICES ASSUME NEW i \in 0 .. y PROVE c[i] = Step(c, i)
        OBVIOUS
    <2>1. CASE i = 0
        BY <1>1, <1>3, <2>1
    <2>2. CASE i # 0
        <3>1. i - 1 \in Nat /\ i - 1 \in 0 .. y /\ (i - 1) + 1 = i
            BY <1>1, <2>2
        <3>2. c[i - 1] = A!Checked(A!Power(x, i - 1)) /\ c[i] = A!Checked(A!Power(x, (i - 1) + 1))
            BY <3>1
        <3> HIDE DEF c
        <3> QED BY <1>4, <2>2, <3>1, <3>2
    <2> QED BY <2>1, <2>2
<1>6. A!NativePow(x, y) = h[y]
    <2>1. ~(y < 0)
        BY <1>1
    <2>2. A!NativePow(x, y) = IF y < 0 THEN A!NegativePower ELSE h[y]
        BY DEF A!NativePow
    <2> QED BY <2>1, <2>2
<1> HIDE DEF Solves
<1>7. Solves(h)
    BY <1>5, Zenon
<1> HIDE DEF h
<1>8. \A i \in 0 .. y : h[i] = Step(h, i)
    BY <1>7 DEF Solves
<1>9. \A i \in Nat : i <= y => h[i] = A!Checked(A!Power(x, i))
    <2> DEFINE S == {i \in Nat : i <= y => h[i] = A!Checked(A!Power(x, i))}
    <2>1. 0 \in S
        <3>1. 0 \in 0 .. y
            BY <1>1
        <3>2. h[0] = A!Value(1)
            BY <1>8, <3>1
        <3> QED BY <1>3, <3>2
    <2>2. ASSUME NEW i \in Nat, i \in S PROVE i + 1 \in S
        <3> SUFFICES ASSUME i + 1 <= y PROVE h[i + 1] = A!Checked(A!Power(x, i + 1))
            OBVIOUS
        <3>1. i + 1 \in 0 .. y /\ i + 1 # 0 /\ (i + 1) - 1 = i /\ i <= y
            BY <1>1
        <3>2. h[i] = A!Checked(A!Power(x, i))
            BY <2>2, <3>1
        <3>3. h[i + 1] = IF h[i].fails # "no" THEN h[i] ELSE A!Checked(h[i].value * x)
            <4>1. h[i + 1] = Step(h, i + 1)
                BY <1>8, <3>1
            <4> QED BY <3>1, <4>1
        <3> QED BY <1>4, <3>2, <3>3
    <2> HIDE DEF S
    <2>3. Nat \subseteq S
        BY <2>1, <2>2, Induction
    <2> QED BY <2>3 DEF S
<1> QED BY <1>1, <1>6, <1>9

--------------------------------------------------------------------------------
(* The root: however far off the float's estimate is, it ends at the number. *)

IsRootOf(r, x, d) == A!Fits(r, x, d) /\ ~A!Fits(r + 1, x, d)

LEMMA FitsFalls ==
    ASSUME NEW x \in Int, NEW d \in Nat, NEW r \in Nat, NEW s \in Nat, r <= s, A!Fits(s, x, d)
    PROVE  A!Fits(r, x, d)
<1>1. A!Power(r, d) \in Nat /\ A!Power(s, d) \in Nat /\ A!Power(r, d) <= A!Power(s, d)
    BY PowersGrow
<1> QED BY <1>1 DEF A!Fits

LEMMA PowerIsLarger ==
    ASSUME NEW r \in Nat, NEW d \in Nat, d > 0
    PROVE  A!Power(r, d) \in Nat /\ r <= A!Power(r, d)
<1>1. d - 1 \in Nat /\ (d - 1) + 1 = d
    OBVIOUS
<1>2. A!Power(r, d - 1) \in Int /\ A!Power(r, (d - 1) + 1) = A!Power(r, d - 1) * r
    BY <1>1, Powers
<1>3. CASE r = 0
    BY <1>3, PowersOfNone
<1>4. CASE r >= 1
    <2>1. A!Power(1, d - 1) = 1 /\ A!Power(1, d - 1) <= A!Power(r, d - 1)
        BY <1>1, <1>4, PowersGrow, PowersOfNone
    <2> DEFINE p == A!Power(r, d - 1)
    <2>2. p \in Nat /\ 1 <= p
        BY <1>2, <2>1
    <2> HIDE DEF p
    <2>3. 1 * r <= p * r /\ p * r \in Nat
        BY <2>2, MoreIsMore
    <2>4. A!Power(r, d) = p * r
        BY <1>1, <1>2 DEF p
    <2> QED BY <2>3, <2>4
<1> QED BY <1>3, <1>4

LEMMA TooLarge ==
    ASSUME NEW x \in Nat, NEW d \in Nat, d > 0, NEW r \in Nat, r > x
    PROVE  ~A!Fits(r, x, d)
BY PowerIsLarger DEF A!Fits

LEMMA RootExists ==
    ASSUME NEW x \in Nat, NEW d \in Nat, d > 0
    PROVE  \E r \in 0 .. x : IsRootOf(r, x, d)
<1> DEFINE S == {r \in Nat : r <= x /\ A!Fits(r, x, d)}
<1> SUFFICES ASSUME \A r \in 0 .. x : ~IsRootOf(r, x, d) PROVE FALSE
    OBVIOUS
<1>1. 0 \in S
    <2>1. A!Power(0, d) = 0
        BY PowersOfNone
    <2> QED BY <2>1 DEF A!Fits
<1>2. ASSUME NEW r \in Nat, r \in S PROVE r + 1 \in S
    <2>1. r \in 0 .. x /\ A!Fits(r, x, d)
        BY <1>2
    <2>2. A!Fits(r + 1, x, d)
        BY <2>1 DEF IsRootOf
    <2>3. r + 1 <= x
        BY <2>2, TooLarge
    <2> QED BY <2>2, <2>3
<1>3. Nat \subseteq S
    BY <1>1, <1>2, Induction
<1>4. x + 1 \in S
    BY <1>3
<1> QED BY <1>4

LEMMA RootIs ==
    ASSUME NEW x \in Nat, NEW d \in Nat, d > 0
    PROVE  LET r == A!Root(x, d) IN
           /\ r \in 0 .. x
           /\ \A s \in Nat : A!Fits(s, x, d) <=> s <= r
           /\ r = CHOOSE s \in 0 .. x : A!Fits(s, x, d) /\ ~A!Fits(s + 1, x, d)
<1> DEFINE r == A!Root(x, d)
<1>1. r = CHOOSE s \in 0 .. x : A!Fits(s, x, d) /\ ~A!Fits(s + 1, x, d)
    BY DEF A!Root
<1>2. \E s \in 0 .. x : A!Fits(s, x, d) /\ ~A!Fits(s + 1, x, d)
    BY RootExists DEF IsRootOf
<1> HIDE DEF r
<1>3. r \in 0 .. x /\ A!Fits(r, x, d) /\ ~A!Fits(r + 1, x, d)
    BY <1>1, <1>2
<1>4. ASSUME NEW s \in Nat PROVE A!Fits(s, x, d) <=> s <= r
    <2>1. r \in Nat /\ r + 1 \in Nat
        BY <1>3
    <2>2. s <= r => A!Fits(s, x, d)
        BY <1>3, <2>1, FitsFalls
    <2>3. s >= r + 1 => ~A!Fits(s, x, d)
        BY <1>3, <2>1, FitsFalls
    <2> QED BY <2>1, <2>2, <2>3
<1> QED BY <1>1, <1>3, <1>4 DEF r

\* Up from an estimate to the root, or nowhere if it is past it.
LEMMA ClimbIs ==
    ASSUME NEW x \in Nat, NEW d \in Nat, d > 0, NEW e \in Nat, e <= x + FloatGap + 1
    PROVE  A!ClimbTo(x, d, e) = IF e <= A!Root(x, d) THEN A!Root(x, d) ELSE e
<1> DEFINE root == A!Root(x, d)
           Step(f, i) == IF A!Fits(i + 1, x, d) THEN f[i + 1] ELSE i
           Solves(f) == f = [i \in e .. x + FloatGap + 1 |-> Step(f, i)]
           h == CHOOSE f : Solves(f)
           c == [i \in e .. x + FloatGap + 1 |-> IF i <= root THEN root ELSE i]
<1>1. root \in Nat /\ root <= x /\ FloatGap \in Nat /\ \A s \in Nat : A!Fits(s, x, d) <=> s <= root
    BY RootIs, WidthAssumption
<1>2. A!ClimbTo(x, d, e) = h[e]
    BY DEF A!ClimbTo
<1> HIDE DEF root
<1>3. Solves(c)
    <2> SUFFICES ASSUME NEW i \in e .. x + FloatGap + 1 PROVE c[i] = Step(c, i)
        OBVIOUS
    <2>1. i \in Nat /\ i + 1 \in Nat /\ (A!Fits(i + 1, x, d) <=> i + 1 <= root)
        BY <1>1
    <2>2. CASE i + 1 <= root
        <3>1. i + 1 \in e .. x + FloatGap + 1 /\ i <= root
            BY <1>1, <2>1, <2>2
        <3>2. c[i + 1] = root /\ c[i] = root
            BY <2>2, <3>1
        <3> QED BY <2>1, <2>2, <3>2
    <2>3. CASE ~(i + 1 <= root)
        <3>1. i <= root => i = root
            BY <1>1, <2>1, <2>3
        <3>2. c[i] = i
            BY <3>1
        <3> QED BY <2>1, <2>3, <3>2
    <2> QED BY <2>2, <2>3
<1> HIDE DEF Solves, c
<1>4. Solves(h)
    BY <1>3, Zenon
<1> HIDE DEF h
<1>5. \A i \in e .. x + FloatGap + 1 : h[i] = Step(h, i)
    BY <1>4 DEF Solves
<1>6. CASE e > root
    <2>1. e \in e .. x + FloatGap + 1 /\ ~A!Fits(e + 1, x, d)
        BY <1>1, <1>6
    <2>2. h[e] = e
        BY <1>5, <2>1
    <2> QED BY <1>1, <1>2, <1>6, <2>2 DEF root
<1>7. CASE e <= root
    <2> DEFINE S == {k \in Nat : k <= root - e => h[root - k] = root}
    <2>1. 0 \in S
        <3>1. root \in e .. x + FloatGap + 1 /\ ~A!Fits(root + 1, x, d) /\ root - 0 = root
            BY <1>1, <1>7
        <3>2. h[root] = root
            BY <1>5, <3>1
        <3> QED BY <3>1, <3>2
    <2>2. ASSUME NEW k \in Nat, k \in S PROVE k + 1 \in S
        <3> SUFFICES ASSUME k + 1 <= root - e PROVE h[root - (k + 1)] = root
            OBVIOUS
        <3> DEFINE i == root - (k + 1)
        <3>1. i \in e .. x + FloatGap + 1 /\ i + 1 = root - k /\ i + 1 \in Nat /\ i + 1 <= root /\ k <= root - e
            BY <1>1, <1>7
        <3>2. h[i + 1] = root
            BY <2>2, <3>1
        <3>3. A!Fits(i + 1, x, d)
            BY <1>1, <3>1
        <3> HIDE DEF i
        <3>4. h[i] = root
            BY <1>5, <3>1, <3>2, <3>3
        <3> QED BY <3>4 DEF i
    <2> HIDE DEF S
    <2>3. Nat \subseteq S
        BY <2>1, <2>2, Induction
    <2>4. root - e \in Nat /\ root - (root - e) = e
        BY <1>1, <1>7
    <2>5. root - e \in S
        BY <2>3, <2>4
    <2>6. h[e] = root
        BY <2>4, <2>5 DEF S
    <2> QED BY <1>2, <1>7, <2>6 DEF root
<1> QED BY <1>1, <1>6, <1>7

\* Down from anything past the root to it.
LEMMA DownIs ==
    ASSUME NEW x \in Nat, NEW d \in Nat, d > 0, NEW e \in Nat, e >= A!Root(x, d)
    PROVE  A!DownFrom(x, d, e) = A!Root(x, d)
<1> DEFINE root == A!Root(x, d)
           Step(f, i) == IF i > 0 /\ ~A!Fits(i, x, d) THEN f[i - 1] ELSE i
           Solves(f) == f = [i \in 0 .. e |-> Step(f, i)]
           h == CHOOSE f : Solves(f)
           c == [i \in 0 .. e |-> IF i <= root THEN i ELSE root]
<1>1. root \in Nat /\ root <= e /\ \A s \in Nat : A!Fits(s, x, d) <=> s <= root
    BY RootIs
<1>2. A!DownFrom(x, d, e) = h[e]
    BY DEF A!DownFrom
<1> HIDE DEF root
<1>3. Solves(c)
    <2> SUFFICES ASSUME NEW i \in 0 .. e PROVE c[i] = Step(c, i)
        OBVIOUS
    <2>1. i \in Nat /\ (A!Fits(i, x, d) <=> i <= root)
        BY <1>1
    <2>2. CASE i <= root
        <3>1. c[i] = i
            BY <2>2
        <3> QED BY <2>1, <2>2, <3>1
    <2>3. CASE ~(i <= root)
        <3>1. i > 0 /\ i - 1 \in 0 .. e /\ (i - 1 <= root => i - 1 = root)
            BY <1>1, <2>1, <2>3
        <3>2. c[i - 1] = root /\ c[i] = root
            BY <2>3, <3>1
        <3> QED BY <2>1, <2>3, <3>1, <3>2
    <2> QED BY <2>2, <2>3
<1> HIDE DEF Solves, c
<1>4. Solves(h)
    BY <1>3, Zenon
<1> HIDE DEF h
<1>5. \A i \in 0 .. e : h[i] = Step(h, i)
    BY <1>4 DEF Solves
<1> DEFINE S == {k \in Nat : root + k <= e => h[root + k] = root}
<1>6. 0 \in S
    <2>1. root \in 0 .. e /\ ~(root > 0 /\ ~A!Fits(root, x, d)) /\ root + 0 = root
        BY <1>1
    <2>2. h[root] = root
        BY <1>5, <2>1
    <2> QED BY <2>1, <2>2
<1>7. ASSUME NEW k \in Nat, k \in S PROVE k + 1 \in S
    <2> SUFFICES ASSUME root + (k + 1) <= e PROVE h[root + (k + 1)] = root
        OBVIOUS
    <2> DEFINE i == root + (k + 1)
    <2>1. i \in 0 .. e /\ i - 1 = root + k /\ i > 0 /\ i \in Nat /\ ~(i <= root) /\ root + k <= e
        BY <1>1
    <2>2. h[i - 1] = root
        BY <1>7, <2>1
    <2>3. ~A!Fits(i, x, d)
        BY <1>1, <2>1
    <2> HIDE DEF i
    <2>4. h[i] = root
        BY <1>5, <2>1, <2>2, <2>3
    <2> QED BY <2>4 DEF i
<1> HIDE DEF S
<1>8. Nat \subseteq S
    BY <1>6, <1>7, Induction
<1>9. e - root \in Nat /\ root + (e - root) = e
    BY <1>1
<1>10. e - root \in S
    BY <1>8, <1>9
<1>11. h[e] = root
    BY <1>9, <1>10 DEF S
<1> QED BY <1>2, <1>11 DEF root

LEMMA IntRootIs ==
    ASSUME NEW x \in A!Ints, NEW d \in A!Ints, x >= 0, d > 0,
           NEW e \in IF x > 0 THEN A!Estimates(x, d) ELSE {1}
    PROVE  /\ A!Root(x, d) \in A!Ints
           /\ A!IntRoot(x, d, e) = A!Value(A!Root(x, d))
           /\ A!Root(x, d) = CHOOSE s \in 0 .. x : A!Fits(s, x, d) /\ ~A!Fits(s + 1, x, d)
<1> DEFINE root == A!Root(x, d)
<1>1. x \in Nat /\ d \in Nat /\ x <= A!Half - 1 /\ A!Half \in Nat
    BY IntsAre, HalfIs
<1>2. /\ root \in 0 .. x
      /\ root = CHOOSE s \in 0 .. x : A!Fits(s, x, d) /\ ~A!Fits(s + 1, x, d)
    BY <1>1, RootIs
<1>3. ~(d <= 0) /\ ~(x < 0)
    BY <1>1
<1>4. A!Root(x, d) \in A!Ints
    BY <1>1, <1>2, IntsAre
<1>5. CASE x = 0
    <2>1. A!IntRoot(x, d, e) = A!Value(0)
        BY <1>3, <1>5 DEF A!IntRoot
    <2>2. root = 0
        BY <1>2, <1>5
    <2> QED BY <1>2, <1>4, <2>1, <2>2
<1>6. CASE x # 0
    <2>1. e \in A!Estimates(x, d)
        BY <1>1, <1>6
    <2>2. e \in Nat /\ e <= x + FloatGap + 1
        BY <1>1, <1>2, <2>1, WidthAssumption DEF A!Estimates
    <2> DEFINE up == A!ClimbTo(x, d, e)
    <2>3. up = IF e <= root THEN root ELSE e
        BY <1>1, <1>3, <2>2, ClimbIs
    <2> HIDE DEF up
    <2>4. up \in Nat /\ up >= root
        BY <1>1, <1>2, <2>2, <2>3
    <2>5. A!DownFrom(x, d, up) = root
        BY <1>1, <1>3, <2>4, DownIs
    <2>6. A!IntRoot(x, d, e) = A!Value(A!DownFrom(x, d, up))
        BY <1>3, <1>6 DEF A!IntRoot, up
    <2> QED BY <1>2, <1>4, <2>5, <2>6
<1> QED BY <1>5, <1>6
--------------------------------------------------------------------------------
(* Every engine's answer is the right one.                                 *)

Right(v) ==
    IF op = "abs" THEN v = A!Value(A!Wrapped(A!Abs(a)))
    ELSE IF A!Defined /\ A!Exact \in A!Ints THEN v = A!Value(A!Exact)
    ELSE v.fails # "no" /\ v.value = 0

SumInv ==
    /\ op \in A!Binary \union A!Unary /\ a \in A!Ints /\ b \in A!Ints /\ ~A!Edge
    /\ answer = [e \in A!Engine |-> answer[e]]
    /\ \A e \in A!Answered : e \in A!Runs /\ Right(answer[e])

LEMMA ExactIsRight ==
    ASSUME op # "abs", A!Defined, A!Exact \in A!Ints
    PROVE  Right(A!Value(A!Exact))
BY Zenon DEF Right

LEMMA Failures ==
    /\ A!Fails("division by zero").fails # "no" /\ A!Fails("division by zero").value = 0
    /\ A!Fails("remainder by zero").fails # "no" /\ A!Fails("remainder by zero").value = 0
    /\ A!Fails("shift count").fails # "no" /\ A!Fails("shift count").value = 0
BY DEF A!Fails

LEMMA FailingIsRight ==
    ASSUME op # "abs", ~(A!Defined /\ A!Exact \in A!Ints), NEW v, v.fails # "no", v.value = 0
    PROVE  Right(v)
BY Zenon DEF Right

\* What is checked is right if what is checked is exact.
LEMMA CheckedIsRight ==
    ASSUME op # "abs", A!Defined
    PROVE  Right(A!Checked(A!Exact))
<1>1. CASE A!Exact \in A!Ints
    BY <1>1, ExactIsRight, Zenon DEF A!Checked
<1>2. CASE A!Exact \notin A!Ints
    <2>1. A!Checked(A!Exact) = A!Overflow
        BY <1>2, Zenon DEF A!Checked
    <2>2. A!Overflow.fails # "no" /\ A!Overflow.value = 0
        BY DEF A!Overflow, A!Fails
    <2> QED BY <1>2, <2>1, <2>2, FailingIsRight
<1> QED BY <1>1, <1>2

LEMMA SumsAreRight ==
    ASSUME op \in {"add", "sub", "mul"}, NEW e, NEW r
    PROVE  Right(A!Apply(e, r))
<1>1. op # "abs" /\ A!Defined
    BY DEF A!Defined
<1>2. A!Apply(e, r) = A!Checked(A!Exact)
    BY DEF A!Apply, A!Exact
<1> QED BY <1>1, <1>2, CheckedIsRight

LEMMA QuotientsAreRight ==
    ASSUME SumInv, op = "div", NEW e, NEW r
    PROVE  Right(A!Apply(e, r))
<1>1. /\ a \in A!Ints /\ b \in A!Ints /\ (A!Defined <=> b # 0) /\ op # "abs"
      /\ A!Apply(e, r) = (IF e = "native" THEN A!NativeDiv(a, b) ELSE A!Div(a, b))
    BY DEF SumInv, A!Defined, A!Apply
<1>2. CASE b = 0
    <2>1. A!Div(a, b) = A!Fails("division by zero") /\ A!NativeDiv(a, b) = A!Fails("division by zero")
        BY <1>2, Zenon DEF A!Div, A!NativeDiv
    <2>2. A!Div(a, b).fails # "no" /\ A!Div(a, b).value = 0 /\ A!NativeDiv(a, b) = A!Div(a, b)
        BY <2>1, Failures, Zenon
    <2>3. A!Apply(e, r) = A!Div(a, b)
        BY <1>1, <2>2
    <2> QED BY <1>1, <1>2, <2>2, <2>3, FailingIsRight
<1>3. CASE b # 0
    <2>1. A!Apply(e, r) = A!Checked(A!Quotient(a, b))
        BY <1>1, <1>3, DivIs
    <2>2. A!Exact = A!Quotient(a, b)
        BY DEF A!Exact
    <2> QED BY <1>1, <1>3, <2>1, <2>2, CheckedIsRight
<1> QED BY <1>2, <1>3

LEMMA RemaindersAreRight ==
    ASSUME SumInv, op = "rem", NEW e, NEW r
    PROVE  Right(A!Apply(e, r))
<1>1. /\ a \in A!Ints /\ b \in A!Ints /\ (A!Defined <=> b # 0) /\ op # "abs" /\ ~(a = -A!Half /\ b = -1)
    BY DEF SumInv, A!Defined, A!Edge
<1>2. A!Apply(e, r) \in {A!Rem(a, b), A!NativeRem(a, b), A!FoldRem(a, b)}
    BY DEF A!Apply
<1>3. CASE b = 0
    <2>1. /\ A!Rem(a, b) = A!Fails("remainder by zero") /\ A!NativeRem(a, b) = A!Fails("remainder by zero")
          /\ A!FoldRem(a, b) = A!Fails("division by zero")
        BY <1>3, Zenon DEF A!Rem, A!NativeRem, A!FoldRem
    <2>2. /\ A!Rem(a, b).fails # "no" /\ A!Rem(a, b).value = 0
          /\ A!NativeRem(a, b).fails # "no" /\ A!NativeRem(a, b).value = 0
          /\ A!FoldRem(a, b).fails # "no" /\ A!FoldRem(a, b).value = 0
        BY <2>1, Failures, Zenon
    <2>3. A!Apply(e, r).fails # "no" /\ A!Apply(e, r).value = 0
        BY <1>2, <2>2
    <2> QED BY <1>1, <1>3, <2>3, FailingIsRight
<1>4. CASE b # 0
    <2>1. A!Remainder(a, b) \in A!Ints /\ A!Apply(e, r) = A!Value(A!Remainder(a, b))
        BY <1>1, <1>2, <1>4, RemIs
    <2>2. A!Exact = A!Remainder(a, b)
        BY DEF A!Exact
    <2> QED BY <1>1, <1>4, <2>1, <2>2, ExactIsRight
<1> QED BY <1>3, <1>4

LEMMA PowersAreRight ==
    ASSUME SumInv, op = "pow", NEW e, NEW r
    PROVE  Right(A!Apply(e, r))
<1>1. /\ a \in A!Ints /\ b \in A!Ints /\ (A!Defined <=> b >= 0) /\ op # "abs" /\ ~(b > PowCap)
      /\ A!Apply(e, r) = (IF e = "native" THEN A!NativePow(a, b) ELSE A!IntPow(a, b))
    BY DEF SumInv, A!Defined, A!Edge, A!Apply
<1>2. CASE b >= 0
    <2>1. A!Apply(e, r) = A!Checked(A!Power(a, b))
        BY <1>1, <1>2, IntPowIs, NativePowIs
    <2>2. A!Exact = A!Power(a, b)
        BY DEF A!Exact
    <2> QED BY <1>1, <1>2, <2>1, <2>2, CheckedIsRight
<1>3. CASE ~(b >= 0)
    <2>0. b < 0
        BY <1>1, <1>3, IntsAre
    <2>1. A!NativePow(a, b) = A!NegativePower /\ A!IntPow(a, b) = A!NegativePower
        BY <2>0, Zenon DEF A!NativePow, A!IntPow
    <2>2. A!NegativePower.fails # "no" /\ A!NegativePower.value = 0
        BY DEF A!NegativePower, A!Fails
    <2> QED BY <1>1, <1>3, <2>1, <2>2, FailingIsRight
<1> QED BY <1>2, <1>3

LEMMA RootsAreRight ==
    ASSUME SumInv, op = "root", NEW e, NEW r \in (IF a > 0 /\ b > 0 THEN A!Estimates(a, b) ELSE {1})
    PROVE  Right(A!Apply(e, r))
<1>1. /\ a \in A!Ints /\ b \in A!Ints /\ (A!Defined <=> a >= 0 /\ b > 0) /\ op # "abs"
      /\ A!Apply(e, r) = A!IntRoot(a, b, r)
    BY DEF SumInv, A!Defined, A!Apply
<1>2. CASE a >= 0 /\ b > 0
    <2>1. r \in IF a > 0 THEN A!Estimates(a, b) ELSE {1}
        BY <1>2
    <2>2. /\ A!Root(a, b) \in A!Ints /\ A!Apply(e, r) = A!Value(A!Root(a, b))
          /\ A!Root(a, b) = CHOOSE s \in 0 .. a : A!Fits(s, a, b) /\ ~A!Fits(s + 1, a, b)
        BY <1>1, <1>2, <2>1, IntRootIs
    <2>3. A!Exact = A!Root(a, b)
        BY <2>2 DEF A!Exact, A!IsRoot
    <2> QED BY <1>1, <1>2, <2>2, <2>3, ExactIsRight
<1>3. CASE ~(a >= 0 /\ b > 0)
    <2>0. b <= 0 \/ a < 0
        BY <1>1, <1>3, IntsAre
    <2>1. A!IntRoot(a, b, r).fails # "no" /\ A!IntRoot(a, b, r).value = 0
        BY <2>0 DEF A!IntRoot, A!Fails
    <2> QED BY <1>1, <1>3, <2>1, FailingIsRight
<1> QED BY <1>2, <1>3

LEMMA ShiftsAreRight ==
    ASSUME SumInv, op \in {"shl", "shr", "ushr"}, NEW e, NEW r
    PROVE  Right(A!Apply(e, r))
<1>1. /\ a \in A!Ints /\ b \in A!Ints /\ (A!Defined <=> b \in 0 .. Width - 1) /\ op # "abs"
    BY DEF SumInv, A!Defined
<1>2. A!Apply(e, r) = CASE op = "shl" -> A!Shl(a, b) [] op = "shr" -> A!Shr(a, b) [] op = "ushr" -> A!Ushr(a, b)
    BY DEF A!Apply
<1>3. CASE b \in 0 .. Width - 1
    <2>1. CASE op = "shl"
        <3>1. A!Exact = A!Wrapped(a * A!Power(2, b))
            BY <2>1 DEF A!Exact
        <3>2. A!Exact \in A!Ints /\ A!Apply(e, r) = A!Value(A!Exact)
            BY <1>1, <1>2, <1>3, <2>1, <3>1, ShlIs
        <3> QED BY <1>1, <1>3, <3>2, ExactIsRight
    <2>2. CASE op = "shr"
        <3>1. A!Exact = a \div A!Power(2, b)
            BY <2>2 DEF A!Exact
        <3>2. A!Exact \in A!Ints /\ A!Apply(e, r) = A!Value(A!Exact)
            BY <1>1, <1>2, <1>3, <2>2, <3>1, ShrIs
        <3> QED BY <1>1, <1>3, <3>2, ExactIsRight
    <2>3. CASE op = "ushr"
        <3>1. A!Exact = A!Wrapped(A!Bits(a) \div A!Power(2, b))
            BY <2>3 DEF A!Exact
        <3>2. A!Exact \in A!Ints /\ A!Apply(e, r) = A!Value(A!Exact)
            BY <1>1, <1>2, <1>3, <2>3, <3>1, UshrIs
        <3> QED BY <1>1, <1>3, <3>2, ExactIsRight
    <2> QED BY <2>1, <2>2, <2>3
<1>4. CASE b \notin 0 .. Width - 1
    <2>1. A!Count(b) = A!Fails("shift count")
        BY <1>1, <1>4, CountIs
    <2>2. A!Count(b).fails # "no" /\ A!Count(b).value = 0
        BY <2>1, Failures, Zenon
    <2>3. A!Apply(e, r) = A!Count(b)
        BY <1>2, <2>2 DEF A!Shl, A!Shr, A!Ushr
    <2> QED BY <1>1, <1>4, <2>2, <2>3, FailingIsRight
<1> QED BY <1>3, <1>4

LEMMA SignsAreRight ==
    ASSUME SumInv, op \in {"neg", "bnot"}, NEW e, NEW r
    PROVE  Right(A!Apply(e, r))
<1>1. a \in A!Ints /\ A!Defined /\ op # "abs" /\ (op = "neg" => a # -A!Half)
    BY DEF SumInv, A!Defined, A!Edge
<1>2. CASE op = "neg"
    <2>1. A!Apply(e, r) \in {A!Neg(a), A!FoldNeg(a), A!NativeNeg(a)} /\ A!Exact = -a
        BY <1>2 DEF A!Apply, A!Exact
    <2>2. A!Exact \in A!Ints /\ A!Apply(e, r) = A!Value(A!Exact)
        BY <1>1, <1>2, <2>1, NegIs
    <2> QED BY <1>1, <2>2, ExactIsRight
<1>3. CASE op = "bnot"
    <2>1. A!Apply(e, r) = A!BNot(a) /\ A!Exact = -a - 1
        BY <1>3 DEF A!Apply, A!Exact
    <2>2. A!Exact \in A!Ints /\ A!Apply(e, r) = A!Value(A!Exact)
        BY <1>1, <2>1, BNotIs
    <2> QED BY <1>1, <2>2, ExactIsRight
<1> QED BY <1>2, <1>3

LEMMA SizesAreRight ==
    ASSUME SumInv, op = "abs", NEW e, NEW r
    PROVE  Right(A!Apply(e, r))
<1>1. a \in A!Ints
    BY DEF SumInv
<1>2. A!Apply(e, r) = (IF e = "native" THEN A!NativeAbs(a) ELSE A!AbsOf(a))
    BY DEF A!Apply
<1>3. A!Abs(a) \in Int /\ A!Apply(e, r) = A!Value(A!Wrapped(A!Abs(a)))
    BY <1>1, <1>2, AbsIs
<1>4. A!Wrapped(A!Abs(a)) \in A!Ints
    BY <1>3, WrappedIsInt
<1> QED BY <1>3, <1>4 DEF Right

LEMMA AnswersAreRight ==
    ASSUME SumInv, NEW e, NEW r \in (IF op = "root" /\ a > 0 /\ b > 0 THEN A!Estimates(a, b) ELSE {1})
    PROVE  Right(A!Apply(e, r))
<1>1. \/ op \in {"add", "sub", "mul"} \/ op = "div" \/ op = "rem" \/ op = "pow" \/ op = "root"
      \/ op \in {"shl", "shr", "ushr"} \/ op \in {"neg", "bnot"} \/ op = "abs"
    BY DEF SumInv, A!Binary, A!Unary
<1>2. CASE op = "root"
    BY <1>2, RootsAreRight
<1> QED BY <1>1, <1>2, SumsAreRight, QuotientsAreRight, RemaindersAreRight, PowersAreRight,
           ShiftsAreRight, SignsAreRight, SizesAreRight

LEMMA SumInit == ~AtEdges /\ A!Init => SumInv
<1> SUFFICES ASSUME ~AtEdges, A!Init PROVE SumInv
    OBVIOUS
<1>1. A!Answered = {} /\ answer = [e \in A!Engine |-> answer[e]]
    BY DEF A!Init, A!Answered
<1> QED BY <1>1 DEF A!Init, SumInv

LEMMA SumStep == SumInv /\ [A!Next]_<<op, a, b, answer>> => SumInv'
<1> SUFFICES ASSUME SumInv, [A!Next]_<<op, a, b, answer>> PROVE SumInv'
    OBVIOUS
<1>1. CASE UNCHANGED <<op, a, b, answer>>
    <2>1. op' = op /\ a' = a /\ b' = b /\ answer' = answer
        BY <1>1
    <2>2. A!Answered' = A!Answered /\ A!Runs' = A!Runs /\ A!Edge' = A!Edge
        BY <2>1 DEF A!Answered, A!Runs, A!Edge
    <2>3. A!Exact' = A!Exact /\ (A!Defined' <=> A!Defined)
        BY <2>1 DEF A!Exact, A!Defined, A!IsRoot
    <2>4. \A f \in A!Answered : Right(answer[f])'
        BY <2>1, <2>3 DEF SumInv, Right
    <2> QED BY <2>1, <2>2, <2>4 DEF SumInv
<1>2. ASSUME NEW e \in A!Engine, A!Evaluate(e) PROVE SumInv'
    <2>1. PICK r \in (IF op = "root" /\ a > 0 /\ b > 0 THEN A!Estimates(a, b) ELSE {1}) :
              answer' = [answer EXCEPT ![e] = A!Apply(e, r)]
        BY <1>2 DEF A!Evaluate
    <2>2. e \in A!Runs /\ op' = op /\ a' = a /\ b' = b
        BY <1>2 DEF A!Evaluate
    <2>3. Right(A!Apply(e, r))
        BY AnswersAreRight
    <2>4. A!Runs' = A!Runs /\ A!Edge' = A!Edge
        BY <2>2 DEF A!Runs, A!Edge
    <2>5. A!Exact' = A!Exact /\ (A!Defined' <=> A!Defined)
        BY <2>2 DEF A!Exact, A!Defined, A!IsRoot
    <2>6. answer = [f \in A!Engine |-> answer[f]]
        BY DEF SumInv
    <2>7. answer' = [f \in A!Engine |-> answer'[f]]
        BY <2>1, <2>6
    <2>8. ASSUME NEW f \in A!Answered' PROVE f \in A!Runs' /\ Right(answer[f])'
        <3>1. f \in A!Engine /\ answer'[f] # A!Pending
            BY <2>8 DEF A!Answered
        <3>2. CASE f = e
            <4>1. answer'[f] = A!Apply(e, r)
                BY <2>1, <2>6, <3>1, <3>2
            <4>2. Right(answer'[f])
                BY <2>3, <4>1
            <4> QED BY <2>2, <2>4, <2>5, <3>2, <4>2 DEF Right
        <3>3. CASE f # e
            <4>1. answer'[f] = answer[f]
                BY <2>1, <2>6, <3>1, <3>3
            <4>2. f \in A!Answered
                BY <3>1, <4>1 DEF A!Answered
            <4>3. f \in A!Runs /\ Right(answer'[f])
                BY <4>1, <4>2 DEF SumInv
            <4> QED BY <2>2, <2>4, <2>5, <4>3 DEF Right
        <3> QED BY <3>2, <3>3
    <2> QED BY <2>2, <2>4, <2>7, <2>8 DEF SumInv
<1> QED BY <1>1, <1>2 DEF A!Next, A!Over, A!vars

LEMMA RightIsExact == SumInv => A!EnginesAgree /\ A!AnswersAreExact
<1> SUFFICES ASSUME SumInv PROVE A!EnginesAgree /\ A!AnswersAreExact
    OBVIOUS
<1>1. \A e \in A!Answered : Right(answer[e])
    BY DEF SumInv
<1>2. \A k : A!Value(k).fails = "no" /\ A!Value(k).value = k
    BY DEF A!Value
<1>3. A!EnginesAgree
    <2> SUFFICES ASSUME NEW e \in A!Answered, NEW f \in A!Answered
                 PROVE  /\ answer[e].value = answer[f].value
                        /\ answer[e].fails = "no" <=> answer[f].fails = "no"
        BY DEF A!EnginesAgree
    <2>1. Right(answer[e]) /\ Right(answer[f])
        BY <1>1
    <2> QED BY <1>2, <2>1 DEF Right
<1>4. A!AnswersAreExact
    <2> SUFFICES ASSUME op # "abs", NEW e \in A!Answered
                 PROVE  IF A!Defined /\ A!Exact \in A!Ints THEN answer[e] = A!Value(A!Exact) ELSE answer[e].fails # "no"
        BY DEF A!AnswersAreExact
    <2>1. Right(answer[e])
        BY <1>1
    <2> QED BY <2>1 DEF Right
<1> QED BY <1>3, <1>4

\* One expression, one answer, on every engine and for Ints of any width: what
\* is exact if that is an Int, and otherwise an error ("Overflow is an error,
\* not a wrap").  The float a root begins with has no part in it, nor has where
\* compiled programs stop multiplying.  Programs keep off the inputs on which
\* the engines differ (AtEdges).
THEOREM EnginesAlwaysExact ==
    ASSUME ~AtEdges
    PROVE  EnginesSpec => []EnginesAreExact
<1>1. EnginesInit => SumInv
    BY SumInit DEF EnginesInit
<1>2. SumInv /\ [NativeNext \/ VmNext \/ SumNext \/ NameNext \/ PoolNext]_all => SumInv'
    <2> SUFFICES ASSUME SumInv, [NativeNext \/ VmNext \/ SumNext \/ NameNext \/ PoolNext]_all
                 PROVE  SumInv'
        OBVIOUS
    <2>1. A!Next \/ UNCHANGED sumVars
        BY DEF NativeNext, VmNext, SumNext, NameNext, PoolNext, all
    <2> QED BY <2>1, SumStep DEF sumVars
<1>3. SumInv => EnginesAreExact
    BY RightIsExact DEF EnginesAreExact
<1> QED BY <1>1, <1>2, <1>3, PTL DEF EnginesSpec

--------------------------------------------------------------------------------
(* Control.                                                                *)
Joined(c, path) == c \o <<I!Call>> \o path
\* it folds seq from the left over every set of its places.
Folds(it, base, seq, D) ==
    it = [s \in SUBSET D |-> IF s = {} THEN base ELSE Joined(it[s \ {I!Max(s)}], seq[I!Max(s)])]

LEMMA ControlFolds ==
    ASSUME NEW fs
    PROVE  Control(fs) = (CHOOSE it : Folds(it, fs[1], Tail(fs), DOMAIN Tail(fs)))[DOMAIN Tail(fs)]
BY DEF Control, FoldLeft, MapThenFoldSet, Folds, Joined, I!Max, Max

LEMMA LargestOf ==
    ASSUME NEW size \in Nat, NEW s \in SUBSET (1 .. size), s # {}
    PROVE  I!Max(s) \in s /\ \A x \in s : x <= I!Max(s)
<1>1. s \subseteq 0 .. size
    BY SMT
<1> QED BY <1>1, LargestIsThere

LEMMA FoldsExist ==
    ASSUME NEW base, NEW seq, NEW size \in Nat
    PROVE  \E it : Folds(it, base, seq, 1 .. size)
<1> DEFINE S == {i \in Nat : \E it : Folds(it, base, seq, 1 .. i)}
<1>1. 0 \in S
  <2> DEFINE it == [s \in SUBSET (1 .. 0) |-> base]
  <2>1. \A s \in SUBSET (1 .. 0) : s = {}
      OBVIOUS
  <2>2. Folds(it, base, seq, 1 .. 0)
      BY <2>1 DEF Folds
  <2> HIDE DEF it
  <2> QED BY <2>2
<1>2. ASSUME NEW i \in Nat, i \in S PROVE i + 1 \in S
  <2>1. PICK g : Folds(g, base, seq, 1 .. i)
      BY <1>2
  <2> DEFINE All == SUBSET (1 .. i + 1)
             h == [s \in All |-> IF i + 1 \in s THEN Joined(g[s \ {i + 1}], seq[i + 1]) ELSE g[s]]
  <2>2. \A s \in SUBSET (1 .. i) : g[s] = IF s = {} THEN base ELSE Joined(g[s \ {I!Max(s)}], seq[I!Max(s)])
      BY <2>1 DEF Folds
  <2>3. ASSUME NEW s \in All
        PROVE  h[s] = IF s = {} THEN base ELSE Joined(h[s \ {I!Max(s)}], seq[I!Max(s)])
    <3> DEFINE m == I!Max(s)
    <3>1. i + 1 \in Nat
        OBVIOUS
    <3>2. CASE s = {}
      <4>1. {} \in SUBSET (1 .. i)
          OBVIOUS
      <4> QED BY <2>2, <3>2, <4>1
    <3>3. CASE s # {} /\ i + 1 \in s
      <4>1. m \in s /\ \A x \in s : x <= m
          BY <3>1, <3>3, LargestOf
      <4> HIDE DEF m
      <4>2. m = i + 1
        <5>1. m \in 1 .. i + 1 /\ i + 1 <= m
            BY <3>3, <4>1
        <5> QED BY <5>1
      <4>3. s \ {i + 1} \in All /\ i + 1 \notin s \ {i + 1}
          OBVIOUS
      <4>4. h[s] = Joined(g[s \ {i + 1}], seq[i + 1]) /\ h[s \ {i + 1}] = g[s \ {i + 1}]
          BY <3>3, <4>3
      <4> HIDE DEF h
      <4> QED BY <3>3, <4>2, <4>4 DEF m
    <3>4. CASE s # {} /\ i + 1 \notin s
      <4>1. s \in SUBSET (1 .. i) /\ s \ {m} \in All /\ i + 1 \notin s \ {m}
        <5>1. \A x \in 1 .. i + 1 : x # i + 1 => x \in 1 .. i
            OBVIOUS
        <5>2. s \in SUBSET (1 .. i)
            BY <3>4, <5>1
        <5> QED BY <3>4, <5>2
      <4>2. h[s] = g[s] /\ h[s \ {m}] = g[s \ {m}]
          BY <3>4, <4>1
      <4> HIDE DEF h, m
      <4> QED BY <2>2, <3>4, <4>1, <4>2 DEF m
    <3> QED BY <3>2, <3>3, <3>4
  <2>4. h = [s \in All |-> h[s]]
      OBVIOUS
  <2> HIDE DEF h
  <2>5. Folds(h, base, seq, 1 .. i + 1)
      BY <2>3, <2>4 DEF Folds
  <2> QED BY <2>5
<1> HIDE DEF S
<1>3. Nat \subseteq S
    BY <1>1, <1>2, Induction
<1> QED BY <1>3 DEF S

\* A fold, step by step.
Climbs(it, first, items, size) ==
    /\ it[1 .. 0] = first
    /\ \A k \in 1 .. size : it[1 .. k] = Joined(it[1 .. k - 1], items[k])

LEMMA FoldSteps ==
    ASSUME NEW first, NEW items, NEW size \in Nat, NEW it, Folds(it, first, items, 1 .. size)
    PROVE  Climbs(it, first, items, size)
<1>1. \A t \in SUBSET (1 .. size) : it[t] = IF t = {} THEN first ELSE Joined(it[t \ {I!Max(t)}], items[I!Max(t)])
    BY DEF Folds
<1>2. 1 .. 0 = {} /\ {} \in SUBSET (1 .. size)
    OBVIOUS
<1>3. ASSUME NEW k \in 1 .. size PROVE it[1 .. k] = Joined(it[1 .. k - 1], items[k])
  <2>1. 1 .. k \in SUBSET (1 .. size) /\ k \in 1 .. k /\ (1 .. k) \ {k} = 1 .. k - 1
      OBVIOUS
  <2>2. I!Max(1 .. k) \in 1 .. k /\ \A x \in 1 .. k : x <= I!Max(1 .. k)
      BY <2>1, LargestOf
  <2>3. I!Max(1 .. k) = k
      BY <2>1, <2>2
  <2> QED BY <1>1, <2>1, <2>3
<1> QED BY <1>1, <1>2, <1>3 DEF Climbs

\* What a fold makes of the first k depends on them alone.
Alike(fold, other, start, list, longer, long, short) ==
    /\ Folds(fold, start, list, 1 .. long) /\ Folds(other, start, longer, 1 .. short)
    /\ \A i \in 1 .. long : i <= short => list[i] = longer[i]

LEMMA FoldsAgree ==
    ASSUME NEW start, NEW list, NEW longer, NEW long \in Nat, NEW short \in Nat, NEW fold, NEW other,
           Alike(fold, other, start, list, longer, long, short)
    PROVE  \A k \in Nat : k <= long /\ k <= short => fold[1 .. k] = other[1 .. k]
<1>1. Folds(fold, start, list, 1 .. long)
    BY DEF Alike
<1>8. Folds(other, start, longer, 1 .. short)
    BY DEF Alike
<1>7. \A i \in 1 .. long : i <= short => list[i] = longer[i]
    BY DEF Alike
<1>2. /\ fold[1 .. 0] = start /\ \A k \in 1 .. long : fold[1 .. k] = Joined(fold[1 .. k - 1], list[k])
  <2>1. Climbs(fold, start, list, long)
      BY <1>1, FoldSteps
  <2> QED BY <2>1 DEF Climbs
<1>3. /\ other[1 .. 0] = start /\ \A k \in 1 .. short : other[1 .. k] = Joined(other[1 .. k - 1], longer[k])
  <2>1. Climbs(other, start, longer, short)
      BY <1>8, FoldSteps
  <2> QED BY <2>1 DEF Climbs
<1> DEFINE S == {k \in Nat : k <= long /\ k <= short => fold[1 .. k] = other[1 .. k]}
<1>4. 0 \in S
    BY <1>2, <1>3
<1>5. ASSUME NEW k \in Nat, k \in S PROVE k + 1 \in S
  <2> SUFFICES ASSUME k + 1 <= long, k + 1 <= short PROVE fold[1 .. k + 1] = other[1 .. k + 1]
      OBVIOUS
  <2>1. k + 1 \in 1 .. long /\ k + 1 \in 1 .. short /\ (k + 1) - 1 = k /\ k <= long /\ k <= short
      OBVIOUS
  <2>2. fold[1 .. k] = other[1 .. k]
      BY <1>5, <2>1
  <2>3. list[k + 1] = longer[k + 1]
      BY <1>7, <2>1
  <2>4. fold[1 .. k + 1] = Joined(fold[1 .. (k + 1) - 1], list[k + 1])
      BY <1>2, <2>1
  <2>5. other[1 .. k + 1] = Joined(other[1 .. (k + 1) - 1], longer[k + 1])
      BY <1>3, <2>1
  <2> HIDE DEF S
  <2> QED BY <2>1, <2>2, <2>3, <2>4, <2>5
<1> HIDE DEF S
<1>6. Nat \subseteq S
    BY <1>4, <1>5, Induction
<1> QED BY <1>6 DEF S

LEMMA CallIsAnItem == I!Call \in I!Items /\ I!Call.kind = "call"
<1>1. << >> \in Seq(Type \cup {NoType})
    BY EmptySeq
<1> QED BY <1>1 DEF I!Call, I!Item, I!Items

LEMMA JoinedPaths ==
    ASSUME NEW c \in Paths, NEW path \in Paths
    PROVE  Joined(c, path) \in Paths
<1>1. <<I!Call>> \in Paths
    BY CallIsAnItem DEF Paths
<1>2. c \o <<I!Call>> \in Paths
    BY <1>1, ConcatProperties DEF Paths
<1> QED BY <1>2, ConcatProperties DEF Paths, Joined

LEMMA TailOf ==
    ASSUME NEW fs \in Stacks, fs # << >>
    PROVE  /\ Len(Tail(fs)) \in Nat /\ Len(Tail(fs)) = Len(fs) - 1 /\ DOMAIN Tail(fs) = 1 .. Len(Tail(fs))
           /\ \A k \in 1 .. Len(Tail(fs)) : Tail(fs)[k] = fs[k + 1] /\ Tail(fs)[k] \in Paths
<1>1. Len(fs) \in Nat /\ \A k \in 1 .. Len(fs) : fs[k] \in Paths
    BY LenProperties, ElementOfSeq DEF Stacks
<1>2. Tail(fs) \in Stacks /\ Len(Tail(fs)) = Len(fs) - 1 /\ \A k \in 1 .. Len(Tail(fs)) : Tail(fs)[k] = fs[k + 1]
    BY HeadTailProperties DEF Stacks
<1>3. Len(Tail(fs)) \in Nat /\ DOMAIN Tail(fs) = 1 .. Len(Tail(fs))
    BY <1>2, LenProperties DEF Stacks
<1>4. \A k \in 1 .. Len(Tail(fs)) : Tail(fs)[k] \in Paths
    BY <1>2, ElementOfSeq DEF Stacks
<1> QED BY <1>2, <1>3, <1>4

\* The fold Control is.
LEMMA ControlIs ==
    ASSUME NEW fs \in Stacks, fs # << >>
    PROVE  \E g : /\ Folds(g, fs[1], Tail(fs), 1 .. Len(Tail(fs)))
                  /\ Control(fs) = g[1 .. Len(Tail(fs))]
<1> DEFINE base == fs[1]
           seq == Tail(fs)
           D == 1 .. Len(seq)
           g == CHOOSE it : Folds(it, base, seq, D)
<1>1. Len(seq) \in Nat /\ DOMAIN seq = D
    BY TailOf
<1>2. Control(fs) = (CHOOSE it : Folds(it, base, seq, DOMAIN seq))[DOMAIN seq]
    BY ControlFolds
<1>3. Control(fs) = g[D]
    BY <1>1, <1>2
<1>4. \E it : Folds(it, base, seq, 1 .. Len(seq))
    BY <1>1, FoldsExist
<1> HIDE DEF base, seq
<1>5. Folds(g, base, seq, D)
    BY <1>4
<1> HIDE DEF g
<1> QED BY <1>3, <1>5 DEF base, seq

LEMMA FoldOfNone ==
    ASSUME NEW first, NEW items, NEW size \in Nat, size = 0, NEW it, Folds(it, first, items, 1 .. size)
    PROVE  it[1 .. size] = first
<1>1. it[1 .. 0] = first
  <2>1. Climbs(it, first, items, size)
      BY FoldSteps
  <2> QED BY <2>1 DEF Climbs
<1> QED BY <1>1

LEMMA ControlOfOne ==
    ASSUME NEW fs \in Stacks, Len(fs) = 1
    PROVE  Control(fs) = fs[1]
<1> DEFINE base == fs[1]
           seq == Tail(fs)
           n1 == Len(seq)
<1>1. fs # << >>
    BY EmptySeq DEF Stacks
<1>2. n1 \in Nat /\ n1 = 0
    BY <1>1, TailOf
<1>3. PICK g : Folds(g, base, seq, 1 .. n1) /\ Control(fs) = g[1 .. n1]
    BY <1>1, ControlIs
<1> HIDE DEF base, seq, n1
<1>4. g[1 .. n1] = base
    BY <1>2, <1>3, FoldOfNone
<1> QED BY <1>3, <1>4 DEF base

LEMMA ControlIsAPath ==
    ASSUME NEW fs \in Stacks, fs # << >>
    PROVE  Control(fs) \in Paths
<1> DEFINE base == fs[1]
           seq == Tail(fs)
           n1 == Len(seq)
<1>1. n1 \in Nat /\ \A k \in 1 .. n1 : seq[k] \in Paths
    BY TailOf
<1>2. base \in Paths
  <2>1. 1 \in 1 .. Len(fs)
      BY LastPath
  <2> QED BY <2>1, ElementOfSeq DEF Stacks
<1>3. PICK g : Folds(g, base, seq, 1 .. n1) /\ Control(fs) = g[1 .. n1]
    BY ControlIs
<1> HIDE DEF base, seq, n1
<1>4. g[1 .. 0] = base /\ \A k \in 1 .. n1 : g[1 .. k] = Joined(g[1 .. k - 1], seq[k])
  <2>1. Climbs(g, base, seq, n1)
      BY <1>1, <1>3, FoldSteps
  <2> QED BY <2>1 DEF Climbs
<1> DEFINE S == {k \in Nat : k <= n1 => g[1 .. k] \in Paths}
<1>5. 0 \in S
    BY <1>2, <1>4
<1>6. ASSUME NEW k \in Nat, k \in S PROVE k + 1 \in S
  <2> SUFFICES ASSUME k + 1 <= n1 PROVE g[1 .. k + 1] \in Paths
      OBVIOUS
  <2>1. k + 1 \in 1 .. n1 /\ (k + 1) - 1 = k /\ k <= n1
      BY <1>1
  <2>2. g[1 .. k] \in Paths
      BY <1>6, <2>1
  <2>3. g[1 .. k + 1] = Joined(g[1 .. (k + 1) - 1], seq[k + 1])
      BY <1>4, <2>1
  <2>4. g[1 .. k + 1] = Joined(g[1 .. k], seq[k + 1]) /\ seq[k + 1] \in Paths
      BY <1>1, <2>1, <2>3
  <2> HIDE DEF S
  <2> QED BY <2>2, <2>4, JoinedPaths
<1> HIDE DEF S
<1>7. Nat \subseteq S
    BY <1>5, <1>6, Induction
<1>8. g[1 .. n1] \in Paths
    BY <1>1, <1>7 DEF S
<1> QED BY <1>3, <1>8

\* A frame more is a call more, and its blocks.
LEMMA ControlOfMore ==
    ASSUME NEW fs \in Stacks, fs # << >>, NEW path \in Paths
    PROVE  Control(Append(fs, path)) = Joined(Control(fs), path)
<1> DEFINE gs == Append(fs, path)
           base == fs[1]
           seq == Tail(fs)
           more == Tail(gs)
           k == Len(seq)
<1>1. /\ Len(fs) \in Nat /\ Len(fs) >= 1
    BY LastPath
<1>2. /\ gs \in Stacks /\ Len(gs) = Len(fs) + 1 /\ gs[Len(fs) + 1] = path
      /\ \A i \in 1 .. Len(fs) : gs[i] = fs[i]
    BY AppendProperties DEF Stacks
<1>3. gs # << >>
    BY <1>1, <1>2, EmptySeq DEF Stacks
<1> HIDE DEF gs
<1>4. /\ k \in Nat /\ k = Len(fs) - 1 /\ \A i \in 1 .. k : seq[i] = fs[i + 1]
    BY TailOf
<1>5. /\ Len(more) \in Nat /\ Len(more) = Len(gs) - 1 /\ \A i \in 1 .. Len(more) : more[i] = gs[i + 1]
    BY <1>2, <1>3, TailOf
<1>6. Len(more) = k + 1 /\ gs[1] = base
    BY <1>1, <1>2, <1>4, <1>5
<1>7. \A i \in 1 .. k + 1 : i <= k => more[i] = seq[i]
  <2> TAKE i \in 1 .. k + 1
  <2> HAVE i <= k
  <2>1. i \in 1 .. k /\ i + 1 \in 1 .. Len(fs) /\ i \in 1 .. Len(more)
      BY <1>1, <1>4, <1>6
  <2> QED BY <1>2, <1>4, <1>5, <2>1
<1>8. more[k + 1] = path
  <2>1. k + 1 \in 1 .. Len(more) /\ k + 1 + 1 = Len(fs) + 1
      BY <1>1, <1>4, <1>6
  <2>2. more[k + 1] = gs[k + 1 + 1]
      BY <1>5, <2>1
  <2> QED BY <1>2, <2>1, <2>2
<1>9. PICK h : Folds(h, base, seq, 1 .. k) /\ Control(fs) = h[1 .. k]
    BY ControlIs
<1>10. PICK g : Folds(g, gs[1], more, 1 .. Len(more)) /\ Control(gs) = g[1 .. Len(more)]
    BY <1>2, <1>3, ControlIs
<1>11. Folds(g, base, more, 1 .. k + 1) /\ Control(gs) = g[1 .. k + 1]
    BY <1>6, <1>10
<1> HIDE DEF base, seq, more, k
<1>12. /\ \A j \in Nat : j <= k + 1 /\ j <= k => g[1 .. j] = h[1 .. j]
       /\ \A j \in 1 .. k + 1 : g[1 .. j] = Joined(g[1 .. j - 1], more[j])
  <2>1. k \in Nat /\ k + 1 \in Nat /\ Folds(h, base, seq, 1 .. k) /\ Folds(g, base, more, 1 .. k + 1)
      BY <1>4, <1>9, <1>11
  <2>2. \A j \in Nat : j <= k + 1 /\ j <= k => g[1 .. j] = h[1 .. j]
    <3> DEFINE after == k + 1
    <3>1. k \in Nat /\ after \in Nat /\ Alike(g, h, base, more, seq, after, k)
        BY <1>7, <2>1 DEF Alike
    <3> HIDE DEF after
    <3>2. \A j \in Nat : j <= after /\ j <= k => g[1 .. j] = h[1 .. j]
        BY <3>1, FoldsAgree
    <3> QED BY <3>2 DEF after
  <2>3. \A j \in 1 .. k + 1 : g[1 .. j] = Joined(g[1 .. j - 1], more[j])
    <3> DEFINE after == k + 1
    <3>1. after \in Nat /\ Folds(g, base, more, 1 .. after)
        BY <2>1
    <3> HIDE DEF after
    <3>2. Climbs(g, base, more, after)
        BY <3>1, FoldSteps
    <3>3. \A j \in 1 .. after : g[1 .. j] = Joined(g[1 .. j - 1], more[j])
        BY <3>2 DEF Climbs
    <3> QED BY <3>3 DEF after
  <2> QED BY <2>2, <2>3
<1>13. g[1 .. k] = h[1 .. k]
    BY <1>4, <1>12
<1>14. k + 1 \in 1 .. k + 1 /\ (k + 1) - 1 = k
    BY <1>4
<1>15. g[1 .. k + 1] = Joined(g[1 .. (k + 1) - 1], more[k + 1])
    BY <1>12, <1>14
<1> QED BY <1>8, <1>9, <1>11, <1>13, <1>14, <1>15 DEF gs

\* Around the innermost path is what Control makes of the frames before.
Base(fs) == IF Len(fs) = 1 THEN << >> ELSE Control(SubSeq(fs, 1, Len(fs) - 1)) \o <<I!Call>>

LEMMA FramesBefore ==
    ASSUME NEW fs \in Stacks, Len(fs) > 1
    PROVE  LET low == SubSeq(fs, 1, Len(fs) - 1)
           IN  low \in Stacks /\ low # << >> /\ Len(low) = Len(fs) - 1 /\ fs = Append(low, Last(fs))
               /\ \A i \in 1 .. Len(fs) - 1 : low[i] = fs[i]
<1> DEFINE low == SubSeq(fs, 1, Len(fs) - 1)
<1>1. Len(fs) \in Nat /\ fs # << >>
    BY LenProperties, EmptySeq DEF Stacks
<1>2. Len(fs) - 1 \in 1 .. Len(fs)
    BY <1>1
<1>3. low \in Stacks /\ low # << >> /\ Len(low) = Len(fs) - 1 /\ \A i \in 1 .. Len(fs) - 1 : low[i] = fs[i]
    BY <1>1, <1>2, FramesLeft
<1>4. Last(fs) = fs[Len(fs)] /\ Last(fs) \in Paths
    BY <1>1, LastPath
<1> HIDE DEF low
<1>5. /\ Append(low, Last(fs)) \in Stacks /\ Len(Append(low, Last(fs))) = Len(fs)
      /\ \A i \in 1 .. Len(fs) - 1 : Append(low, Last(fs))[i] = fs[i]
      /\ Append(low, Last(fs))[Len(fs)] = Last(fs)
  <2>1. Len(low) + 1 = Len(fs)
      BY <1>1, <1>3
  <2>2. /\ Append(low, Last(fs)) \in Stacks /\ Len(Append(low, Last(fs))) = Len(low) + 1
        /\ \A i \in 1 .. Len(low) : Append(low, Last(fs))[i] = low[i]
        /\ Append(low, Last(fs))[Len(low) + 1] = Last(fs)
      BY <1>3, <1>4, AppendProperties DEF Stacks
  <2> QED BY <1>3, <2>1, <2>2
<1>6. \A i \in 1 .. Len(fs) : Append(low, Last(fs))[i] = fs[i]
    BY <1>1, <1>4, <1>5
<1>7. fs = Append(low, Last(fs))
    BY <1>5, <1>6, SeqEqual DEF Stacks
<1> QED BY <1>3, <1>7 DEF low

LEMMA ControlSplits ==
    ASSUME NEW fs \in Stacks, fs # << >>
    PROVE  Base(fs) \in Paths /\ Control(fs) = Base(fs) \o Last(fs)
<1>1. Len(fs) \in Nat /\ Len(fs) > 0 /\ Last(fs) = fs[Len(fs)] /\ Last(fs) \in Paths
    BY LastPath
<1>2. CASE Len(fs) = 1
  <2>1. Base(fs) = << >> /\ << >> \in Paths
      BY <1>2, EmptySeq DEF Base, Paths
  <2>2. << >> \o Last(fs) = Last(fs)
      BY <1>1, ConcatEmptySeq DEF Paths
  <2> QED BY <1>1, <1>2, <2>1, <2>2, ControlOfOne
<1>3. CASE Len(fs) > 1
  <2> DEFINE low == SubSeq(fs, 1, Len(fs) - 1)
  <2>1. low \in Stacks /\ low # << >> /\ fs = Append(low, Last(fs))
      BY <1>3, FramesBefore
  <2>2. Base(fs) = Control(low) \o <<I!Call>>
      BY <1>1, <1>3 DEF Base
  <2> HIDE DEF low
  <2>3. Control(low) \in Paths /\ <<I!Call>> \in Paths
      BY <2>1, ControlIsAPath, CallIsAnItem DEF Paths
  <2>4. Control(low) \o <<I!Call>> \in Paths
      BY <2>3, ConcatProperties DEF Paths
  <2>5. Control(fs) = Joined(Control(low), Last(fs))
      BY <1>1, <2>1, ControlOfMore
  <2> QED BY <2>2, <2>4, <2>5 DEF Joined
<1>4. Len(fs) = 1 \/ Len(fs) > 1
  <2> DEFINE size == Len(fs)
  <2>1. size \in Nat /\ size > 0
      BY <1>1
  <2> HIDE DEF size
  <2>2. size = 1 \/ size > 1
      BY <2>1
  <2> QED BY <2>2 DEF size
<1> QED BY <1>2, <1>3, <1>4

(* Where the innermost block of a kind is in what Control makes of frames. *)
LEMMA OnlyInnermost ==
    ASSUME NEW path \in Paths, NEW kinds, NEW k \in 0 .. Len(path), k > 0 => path[k].kind \in kinds,
           \A j \in 1 .. Len(path) : path[j].kind \in kinds => j <= k
    PROVE  I!Innermost(path, kinds) = k
<1> DEFINE i == I!Innermost(path, kinds)
<1>1. Len(path) \in Nat
    BY LenProperties DEF Paths
<1>2. /\ i \in 0 .. Len(path) /\ (i > 0 => path[i].kind \in kinds)
      /\ \A j \in 1 .. Len(path) : path[j].kind \in kinds => j <= i
    BY InnermostIsThere
<1> HIDE DEF i
<1>3. i > 0 => i <= k
    BY <1>1, <1>2
<1>4. k > 0 => k <= i
    BY <1>1, <1>2
<1>5. i = k
    BY <1>1, <1>2, <1>3, <1>4
<1> QED BY <1>5 DEF i

LEMMA InBoth ==
    ASSUME NEW c \in Paths, NEW path \in Paths
    PROVE  /\ c \o path \in Paths /\ Len(c) \in Nat /\ Len(path) \in Nat
           /\ Len(c \o path) = Len(c) + Len(path)
           /\ \A k \in 1 .. Len(c) : (c \o path)[k] = c[k]
           /\ \A k \in 1 .. Len(path) : (c \o path)[Len(c) + k] = path[k]
<1>1. Len(c) \in Nat /\ Len(path) \in Nat
    BY LenProperties DEF Paths
<1>2. c \o path \in Paths /\ Len(c \o path) = Len(c) + Len(path)
    BY ConcatProperties DEF Paths
<1>3. \A k \in 1 .. Len(c) + Len(path) : (c \o path)[k] = IF k <= Len(c) THEN c[k] ELSE path[k - Len(c)]
    BY ConcatProperties DEF Paths
<1>4. \A k \in 1 .. Len(c) : (c \o path)[k] = c[k]
    BY <1>1, <1>3
<1>5. ASSUME NEW k \in 1 .. Len(path)
      PROVE  (c \o path)[Len(c) + k] = path[k]
  <2>1. Len(c) + k \in 1 .. Len(c) + Len(path) /\ ~(Len(c) + k <= Len(c)) /\ (Len(c) + k) - Len(c) = k
      BY <1>1
  <2> QED BY <1>3, <2>1
<1> QED BY <1>1, <1>2, <1>4, <1>5

LEMMA InnermostOfBoth ==
    ASSUME NEW c \in Paths, NEW path \in Paths, NEW kinds
    PROVE  I!Innermost(c \o path, kinds) = IF I!Innermost(path, kinds) > 0
                                           THEN Len(c) + I!Innermost(path, kinds)
                                           ELSE I!Innermost(c, kinds)
<1> DEFINE both == c \o path
           i == I!Innermost(path, kinds)
           o == I!Innermost(c, kinds)
           lc == Len(c)
           lp == Len(path)
<1>1. /\ both \in Paths /\ lc \in Nat /\ lp \in Nat /\ Len(both) = lc + lp
      /\ \A k \in 1 .. lc : both[k] = c[k]
      /\ \A k \in 1 .. lp : both[lc + k] = path[k]
    BY InBoth
<1>2. /\ i \in 0 .. lp /\ (i > 0 => path[i].kind \in kinds)
      /\ \A j \in 1 .. lp : path[j].kind \in kinds => j <= i
    BY InnermostIsThere
<1>3. /\ o \in 0 .. lc /\ (o > 0 => c[o].kind \in kinds)
      /\ \A j \in 1 .. lc : c[j].kind \in kinds => j <= o
    BY InnermostIsThere
<1> HIDE DEF both, i, o, lc, lp
<1>4. ASSUME NEW j \in 1 .. Len(both), both[j].kind \in kinds
      PROVE  (j <= lc /\ j <= o) \/ (i > 0 /\ j <= lc + i /\ j > lc)
  <2>1. CASE j <= lc
    <3>1. j \in 1 .. lc
        BY <1>1, <2>1
    <3> QED BY <1>1, <1>3, <1>4, <3>1
  <2>2. CASE ~(j <= lc)
    <3>1. j - lc \in 1 .. lp /\ lc + (j - lc) = j /\ j > lc
        BY <1>1, <2>2
    <3>2. both[lc + (j - lc)] = path[j - lc]
        BY <1>1, <3>1
    <3>3. path[j - lc].kind \in kinds
        BY <1>4, <3>1, <3>2
    <3>4. j - lc <= i
        BY <1>2, <3>1, <3>3
    <3> QED BY <1>1, <1>2, <3>1, <3>4
  <2> QED BY <2>1, <2>2
<1>5. CASE i > 0
  <2>1. i \in 1 .. lp /\ lc + i \in 0 .. Len(both)
      BY <1>1, <1>2, <1>5
  <2>2. both[lc + i].kind \in kinds
      BY <1>1, <1>2, <1>5, <2>1
  <2>3. \A j \in 1 .. Len(both) : both[j].kind \in kinds => j <= lc + i
      BY <1>1, <1>2, <1>4
  <2>4. I!Innermost(both, kinds) = lc + i
      BY <1>1, <2>1, <2>2, <2>3, OnlyInnermost
  <2> QED BY <1>5, <2>4 DEF both, i, lc
<1>6. CASE ~(i > 0)
  <2>1. o \in 0 .. Len(both) /\ (o > 0 => o \in 1 .. lc)
      BY <1>1, <1>3
  <2>2. o > 0 => both[o].kind \in kinds
      BY <1>1, <1>3, <2>1
  <2>3. \A j \in 1 .. Len(both) : both[j].kind \in kinds => j <= o
      BY <1>4, <1>6
  <2>4. I!Innermost(both, kinds) = o
      BY <1>1, <2>1, <2>2, <2>3, OnlyInnermost
  <2> QED BY <1>6, <2>4 DEF both, i, o
<1> QED BY <1>5, <1>6

LEMMA SamePaths ==
    ASSUME NEW c \in Paths, NEW path \in Paths, Len(c) = Len(path), \A k \in 1 .. Len(c) : c[k] = path[k]
    PROVE  c = path
BY SeqEqual DEF Paths

LEMMA CutAgain ==
    ASSUME NEW path \in Paths, NEW l \in 0 .. Len(path), NEW k \in 0 .. l
    PROVE  I!Upto(I!Upto(path, l), k) = I!Upto(path, k)
<1> DEFINE less == I!Upto(path, l)
<1>1. Len(path) \in Nat
    BY LenProperties DEF Paths
<1>2. less \in Paths /\ Len(less) = l /\ \A j \in 1 .. l : less[j] = path[j]
    BY PathCut
<1> HIDE DEF less
<1>3. k \in 0 .. Len(less) /\ k \in 0 .. Len(path)
    BY <1>1, <1>2
<1>4. I!Upto(less, k) \in Paths /\ Len(I!Upto(less, k)) = k /\ \A j \in 1 .. k : I!Upto(less, k)[j] = less[j]
    BY <1>2, <1>3, PathCut
<1>5. I!Upto(path, k) \in Paths /\ Len(I!Upto(path, k)) = k /\ \A j \in 1 .. k : I!Upto(path, k)[j] = path[j]
    BY <1>3, PathCut
<1>6. \A j \in 1 .. k : I!Upto(less, k)[j] = I!Upto(path, k)[j]
    BY <1>2, <1>4, <1>5
<1>7. I!Upto(less, k) = I!Upto(path, k)
    BY <1>4, <1>5, <1>6, SamePaths
<1> QED BY <1>7 DEF less

LEMMA CutInside ==
    ASSUME NEW c \in Paths, NEW path \in Paths, NEW m \in 0 .. Len(path)
    PROVE  I!Upto(c \o path, Len(c) + m) = c \o I!Upto(path, m)
<1> DEFINE both == c \o path
           kept == I!Upto(path, m)
           lc == Len(c)
           lp == Len(path)
<1>1. /\ both \in Paths /\ lc \in Nat /\ lp \in Nat /\ Len(both) = lc + lp
      /\ \A k \in 1 .. lc : both[k] = c[k]
      /\ \A k \in 1 .. lp : both[lc + k] = path[k]
    BY InBoth
<1>2. kept \in Paths /\ Len(kept) = m /\ \A k \in 1 .. m : kept[k] = path[k]
    BY PathCut
<1> HIDE DEF both, kept
<1>3. /\ c \o kept \in Paths /\ Len(c \o kept) = lc + Len(kept)
      /\ \A k \in 1 .. lc : (c \o kept)[k] = c[k]
      /\ \A k \in 1 .. Len(kept) : (c \o kept)[lc + k] = kept[k]
    BY <1>2, InBoth
<1>4. m \in 0 .. lp
    OBVIOUS
<1> HIDE DEF lc, lp
<1>5. lc + m \in 0 .. Len(both)
    BY <1>1, <1>4
<1>6. /\ I!Upto(both, lc + m) \in Paths /\ Len(I!Upto(both, lc + m)) = lc + m
      /\ \A k \in 1 .. lc + m : I!Upto(both, lc + m)[k] = both[k]
    BY <1>1, <1>5, PathCut
<1>7. ASSUME NEW k \in 1 .. lc + m
      PROVE  both[k] = (c \o kept)[k]
  <2>1. CASE k <= lc
    <3>1. k \in 1 .. lc
        BY <1>1, <1>4, <2>1
    <3> QED BY <1>1, <1>3, <3>1
  <2>2. CASE ~(k <= lc)
    <3>1. k - lc \in 1 .. m /\ k - lc \in 1 .. lp /\ lc + (k - lc) = k
        BY <1>1, <1>4, <2>2
    <3>2. both[lc + (k - lc)] = path[k - lc] /\ (c \o kept)[lc + (k - lc)] = kept[k - lc] /\ kept[k - lc] = path[k - lc]
        BY <1>1, <1>2, <1>3, <3>1
    <3> QED BY <3>1, <3>2
  <2> QED BY <2>1, <2>2
<1>8. I!Upto(both, lc + m) = c \o kept
  <2>1. Len(c \o kept) = lc + m
      BY <1>2, <1>3
  <2>2. \A k \in 1 .. Len(I!Upto(both, lc + m)) : I!Upto(both, lc + m)[k] = (c \o kept)[k]
      BY <1>6, <1>7
  <2> QED BY <1>3, <1>6, <2>1, <2>2, SamePaths
<1> QED BY <1>8 DEF both, kept, lc

LEMMA CutBelow ==
    ASSUME NEW c \in Paths, NEW path \in Paths, NEW m \in 0 .. Len(c)
    PROVE  I!Upto(c \o path, m) = I!Upto(c, m)
<1> DEFINE both == c \o path
<1>1. /\ both \in Paths /\ Len(c) \in Nat /\ Len(path) \in Nat /\ Len(both) = Len(c) + Len(path)
      /\ \A k \in 1 .. Len(c) : both[k] = c[k]
    BY InBoth
<1>2. I!Upto(c, m) \in Paths /\ Len(I!Upto(c, m)) = m /\ \A k \in 1 .. m : I!Upto(c, m)[k] = c[k]
    BY PathCut
<1> HIDE DEF both
<1>3. m \in 0 .. Len(both)
    BY <1>1
<1>4. I!Upto(both, m) \in Paths /\ Len(I!Upto(both, m)) = m /\ \A k \in 1 .. m : I!Upto(both, m)[k] = both[k]
    BY <1>1, <1>3, PathCut
<1>5. \A k \in 1 .. m : I!Upto(both, m)[k] = I!Upto(c, m)[k]
    BY <1>1, <1>2, <1>4
<1>6. I!Upto(both, m) = I!Upto(c, m)
    BY <1>2, <1>4, <1>5, SamePaths
<1> QED BY <1>6 DEF both

LEMMA WholePath ==
    ASSUME NEW path \in Paths
    PROVE  I!Upto(path, Len(path)) = path
<1>1. Len(path) \in Nat /\ Len(path) \in 0 .. Len(path)
    BY LenProperties DEF Paths
<1>2. /\ I!Upto(path, Len(path)) \in Paths /\ Len(I!Upto(path, Len(path))) = Len(path)
      /\ \A k \in 1 .. Len(path) : I!Upto(path, Len(path))[k] = path[k]
    BY <1>1, PathCut
<1> QED BY <1>2, SamePaths

LEMMA GrownPath ==
    ASSUME NEW c \in Paths, NEW path \in Paths, NEW item \in I!Items
    PROVE  c \o Append(path, item) = Append(c \o path, item)
<1>1. Append(path, item) = path \o <<item>> /\ <<item>> \in Paths
    BY AppendIsConcat DEF Paths
<1>2. c \o path \in Paths
    BY InBoth
<1>3. Append(c \o path, item) = (c \o path) \o <<item>>
    BY <1>2, AppendIsConcat DEF Paths
<1> QED BY <1>1, <1>3, ConcatAssociative DEF Paths

\* A program's blocks, of which none is a call.
Flat(fs) == \A f \in 1 .. Len(fs) : \A k \in 1 .. Len(fs[f]) : fs[f][k].kind # "call"

\* The innermost path replaced: Control changes there alone.
LEMMA ControlReplaced ==
    ASSUME NEW fs \in Stacks, fs # << >>, NEW path \in Paths
    PROVE  /\ Goes(fs, path) \in Stacks /\ Goes(fs, path) # << >>
           /\ Control(Goes(fs, path)) = Base(fs) \o path
<1> DEFINE gs == Goes(fs, path)
           low == SubSeq(fs, 1, Len(fs) - 1)
           below == SubSeq(gs, 1, Len(fs) - 1)
<1>1. Len(fs) \in Nat /\ Len(fs) > 0
    BY LastPath
<1>2. /\ gs \in Stacks /\ Len(gs) = Len(fs) /\ gs # << >> /\ gs[Len(fs)] = path
      /\ \A f \in 1 .. Len(fs) : f # Len(fs) => gs[f] = fs[f]
    BY PathReplaced DEF Goes
<1>3. Last(gs) = path
    BY <1>2 DEF Last
<1> HIDE DEF gs
<1>4. Control(gs) = Base(gs) \o path
    BY <1>2, <1>3, ControlSplits
<1>5. Base(gs) = Base(fs)
  <2>1. CASE Len(fs) = 1
      BY <1>2, <2>1 DEF Base
  <2>2. CASE Len(fs) # 1
    <3>1. Len(fs) > 1 /\ Len(gs) > 1
        BY <1>1, <1>2, <2>2
    <3>2. low \in Stacks /\ Len(low) = Len(fs) - 1 /\ \A i \in 1 .. Len(fs) - 1 : low[i] = fs[i]
        BY <3>1, FramesBefore
    <3>3. below \in Stacks /\ Len(below) = Len(fs) - 1 /\ \A i \in 1 .. Len(fs) - 1 : below[i] = gs[i]
        BY <1>2, <3>1, FramesBefore
    <3>4. \A i \in 1 .. Len(fs) - 1 : gs[i] = fs[i]
        BY <1>1, <1>2
    <3>5. \A i \in 1 .. Len(below) : below[i] = low[i]
        BY <3>2, <3>3, <3>4
    <3> HIDE DEF low, below
    <3>6. below = low
        BY <3>2, <3>3, <3>5, SeqEqual DEF Stacks
    <3> QED BY <1>2, <2>2, <3>6 DEF Base, low, below
  <2> QED BY <2>1, <2>2
<1> QED BY <1>2, <1>4, <1>5 DEF gs

LEMMA FlatAfter ==
    ASSUME NEW fs \in Stacks, fs # << >>, Flat(fs), NEW path \in Paths,
           \A k \in 1 .. Len(path) : path[k].kind # "call"
    PROVE  Flat(Goes(fs, path))
<1> DEFINE gs == Goes(fs, path)
<1>1. /\ Len(gs) = Len(fs) /\ gs[Len(fs)] = path
      /\ \A f \in 1 .. Len(fs) : f # Len(fs) => gs[f] = fs[f]
    BY PathReplaced DEF Goes
<1> HIDE DEF gs
<1>2. ASSUME NEW f \in 1 .. Len(gs), NEW k \in 1 .. Len(gs[f]) PROVE gs[f][k].kind # "call"
  <2>1. CASE f = Len(fs)
      BY <1>1, <2>1
  <2>2. CASE f # Len(fs)
      BY <1>1, <2>2 DEF Flat
  <2> QED BY <2>1, <2>2
<1> QED BY <1>2 DEF Flat, gs

LEMMA FlatPath ==
    ASSUME NEW fs \in Stacks, fs # << >>, Flat(fs)
    PROVE  \A k \in 1 .. Len(Last(fs)) : Last(fs)[k].kind # "call"
<1>1. Last(fs) = fs[Len(fs)] /\ Len(fs) \in 1 .. Len(fs)
    BY LastPath
<1> QED BY <1>1 DEF Flat

\* A block is opened.
LEMMA OpensBlock ==
    ASSUME NEW fs \in Stacks, fs # << >>, Flat(fs), NEW item \in I!Items, item.kind # "call"
    PROVE  LET gs == Goes(fs, Append(Last(fs), item))
           IN  Flat(gs) /\ Control(gs) = Append(Control(fs), item)
<1> DEFINE path == Last(fs)
           more == Append(path, item)
<1>1. path \in Paths /\ Len(path) \in Nat
    BY LastPath
<1>2. /\ more \in Paths /\ Len(more) = Len(path) + 1
      /\ \A k \in 1 .. Len(path) : more[k] = path[k]
      /\ more[Len(path) + 1] = item
    BY <1>1, PathGrows
<1>3. \A k \in 1 .. Len(path) : path[k].kind # "call"
    BY FlatPath
<1>4. \A k \in 1 .. Len(more) : more[k].kind # "call"
    BY <1>1, <1>2, <1>3
<1>5. Flat(Goes(fs, more))
    BY <1>2, <1>4, FlatAfter
<1>6. Control(Goes(fs, more)) = Base(fs) \o more
    BY <1>2, ControlReplaced
<1>7. Base(fs) \in Paths /\ Control(fs) = Base(fs) \o path
    BY ControlSplits
<1>8. Base(fs) \o more = Append(Base(fs) \o path, item)
    BY <1>1, <1>7, GrownPath
<1> QED BY <1>5, <1>6, <1>7, <1>8

\* What is open in the innermost frame ends down to its block m.
LEMMA ClosesBlocks ==
    ASSUME NEW fs \in Stacks, fs # << >>, Flat(fs), NEW m \in 0 .. Len(Last(fs))
    PROVE  LET gs == Goes(fs, I!Upto(Last(fs), m))
           IN  /\ gs \in Stacks /\ gs # << >> /\ Flat(gs)
               /\ Len(Base(fs)) \in Nat /\ Len(Last(fs)) \in Nat
               /\ Len(Control(fs)) = Len(Base(fs)) + Len(Last(fs))
               /\ Control(gs) = I!Upto(Control(fs), Len(Base(fs)) + m)
<1> DEFINE path == Last(fs)
           less == I!Upto(path, m)
<1>1. path \in Paths /\ Len(path) \in Nat
    BY LastPath
<1>2. less \in Paths /\ Len(less) = m /\ \A k \in 1 .. m : less[k] = path[k]
    BY <1>1, PathCut
<1>3. \A k \in 1 .. Len(path) : path[k].kind # "call"
    BY FlatPath
<1>4. \A k \in 1 .. Len(less) : less[k].kind # "call"
    BY <1>1, <1>2, <1>3
<1>5. Flat(Goes(fs, less))
    BY <1>2, <1>4, FlatAfter
<1>6. /\ Goes(fs, less) \in Stacks /\ Goes(fs, less) # << >>
      /\ Control(Goes(fs, less)) = Base(fs) \o less
    BY <1>2, ControlReplaced
<1>7. Base(fs) \in Paths /\ Control(fs) = Base(fs) \o path
    BY ControlSplits
<1>8. I!Upto(Base(fs) \o path, Len(Base(fs)) + m) = Base(fs) \o less
    BY <1>1, <1>7, CutInside
<1>9. Len(Base(fs)) \in Nat /\ Len(Base(fs) \o path) = Len(Base(fs)) + Len(path)
    BY <1>1, <1>7, InBoth
<1> QED BY <1>1, <1>5, <1>6, <1>7, <1>8, <1>9

\* The innermost block ends; a clause may run instead.
LEMMA ClosesLast ==
    ASSUME NEW fs \in Stacks, fs # << >>, Flat(fs), Last(fs) # << >>
    PROVE  /\ Flat(Goes(fs, Front(Last(fs))))
           /\ Control(fs) # << >> /\ I!Top(Control(fs)) = Last(Last(fs))
           /\ Control(Goes(fs, Front(Last(fs)))) = I!Upto(Control(fs), Len(Control(fs)) - 1)
           /\ \A item \in I!Items : item.kind # "call" =>
                  LET gs == Goes(fs, Append(Front(Last(fs)), item))
                  IN  /\ Flat(gs)
                      /\ Control(gs) = Append(I!Upto(Control(fs), Len(Control(fs)) - 1), item)
<1> DEFINE path == Last(fs)
           less == Front(path)
           m == Len(path) - 1
           gs == Goes(fs, less)
<1>1. path \in Paths /\ Len(path) \in Nat
    BY LastPath
<1>2. less = I!Upto(path, m) /\ m \in 0 .. Len(path) /\ Len(path) >= 1
    BY <1>1, FrontIsCut
<1>3. /\ gs \in Stacks /\ gs # << >> /\ Flat(gs)
      /\ Len(Base(fs)) \in Nat
      /\ Len(Control(fs)) = Len(Base(fs)) + Len(path)
      /\ Control(gs) = I!Upto(Control(fs), Len(Base(fs)) + m)
    BY <1>2, ClosesBlocks
<1>4. Len(Base(fs)) + m = Len(Control(fs)) - 1
    BY <1>1, <1>3
<1>5. Control(fs) # << >>
    BY <1>1, <1>2, <1>3, ControlIsAPath, EmptySeq DEF Paths
<1>6. Base(fs) \in Paths /\ Control(fs) = Base(fs) \o path
    BY ControlSplits
<1>7. I!Top(Control(fs)) = Last(path)
  <2>1. \A k \in 1 .. Len(path) : (Base(fs) \o path)[Len(Base(fs)) + k] = path[k]
      BY <1>1, <1>6, InBoth
  <2>2. (Base(fs) \o path)[Len(Base(fs)) + Len(path)] = path[Len(path)]
      BY <1>1, <1>2, <2>1
  <2> QED BY <1>3, <1>6, <2>2 DEF I!Top, Last
<1>8. ASSUME NEW item \in I!Items, item.kind # "call"
      PROVE  LET hs == Goes(fs, Append(less, item))
             IN  Flat(hs) /\ Control(hs) = Append(I!Upto(Control(fs), Len(Control(fs)) - 1), item)
  <2>1. Last(gs) = less /\ Goes(gs, Append(less, item)) = Goes(fs, Append(less, item))
    <3>1. less \in Paths
        BY <1>1, <1>2, PathCut
    <3>2. /\ gs \in Stacks /\ Len(gs) = Len(fs) /\ gs # << >> /\ gs[Len(fs)] = less
          /\ \A f \in 1 .. Len(fs) : f # Len(fs) => gs[f] = fs[f]
        BY <3>1, PathReplaced DEF Goes
    <3>3. Last(gs) = less
        BY <3>2 DEF Last
    <3>4. Append(less, item) \in Paths
        BY <3>1, PathGrows
    <3> HIDE DEF gs, less
    <3> DEFINE hs == Goes(fs, Append(less, item))
               ks == Goes(gs, Append(less, item))
    <3>5. /\ hs \in Stacks /\ Len(hs) = Len(fs) /\ hs[Len(fs)] = Append(less, item)
          /\ \A f \in 1 .. Len(fs) : f # Len(fs) => hs[f] = fs[f]
        BY <3>4, PathReplaced DEF Goes
    <3>6. /\ ks \in Stacks /\ Len(ks) = Len(gs) /\ ks[Len(gs)] = Append(less, item)
          /\ \A f \in 1 .. Len(gs) : f # Len(gs) => ks[f] = gs[f]
        BY <3>2, <3>4, PathReplaced DEF Goes
    <3> HIDE DEF hs, ks
    <3>7. \A f \in 1 .. Len(ks) : ks[f] = hs[f]
        BY <3>2, <3>5, <3>6
    <3>8. Len(ks) = Len(hs)
        BY <3>2, <3>5, <3>6
    <3>9. ks = hs
        BY <3>5, <3>6, <3>7, <3>8, SeqEqual DEF Stacks
    <3> QED BY <3>3, <3>9 DEF hs, ks
  <2> HIDE DEF gs, less
  <2>2. Flat(Goes(gs, Append(less, item))) /\ Control(Goes(gs, Append(less, item))) = Append(Control(gs), item)
      BY <1>3, <1>8, <2>1, OpensBlock
  <2> QED BY <1>3, <1>4, <2>1, <2>2
<1> QED BY <1>3, <1>4, <1>5, <1>7, <1>8

LEMMA EntersFrame ==
    ASSUME NEW fs \in Stacks, fs # << >>, Flat(fs)
    PROVE  Flat(Append(fs, << >>)) /\ Control(Append(fs, << >>)) = Append(Control(fs), I!Call)
<1> DEFINE gs == Append(fs, << >>)
<1>1. << >> \in Paths /\ Len(fs) \in Nat
    BY EmptySeq, LenProperties DEF Paths, Stacks
<1>2. /\ Len(gs) = Len(fs) + 1 /\ gs[Len(fs) + 1] = << >>
      /\ \A f \in 1 .. Len(fs) : gs[f] = fs[f]
    BY <1>1, AppendProperties DEF Stacks
<1>3. Control(gs) = Joined(Control(fs), << >>)
    BY <1>1, ControlOfMore
<1> HIDE DEF gs
<1>4. Flat(gs)
  <2> SUFFICES ASSUME NEW f \in 1 .. Len(gs), NEW k \in 1 .. Len(gs[f]) PROVE gs[f][k].kind # "call"
      BY DEF Flat
  <2>1. CASE f = Len(fs) + 1
    <3>1. Len(gs[f]) = 0
        BY <1>2, <2>1, EmptySeq
    <3> QED BY <3>1
  <2>2. CASE f # Len(fs) + 1
    <3>1. f \in 1 .. Len(fs) /\ gs[f] = fs[f]
        BY <1>1, <1>2, <2>2
    <3> QED BY <3>1 DEF Flat
  <2> QED BY <2>1, <2>2
<1>5. Joined(Control(fs), << >>) = Append(Control(fs), I!Call)
  <2>1. Control(fs) \in Paths /\ I!Call \in I!Items
      BY ControlIsAPath, CallIsAnItem
  <2>2. Append(Control(fs), I!Call) = Control(fs) \o <<I!Call>> /\ Append(Control(fs), I!Call) \in Paths
      BY <2>1, AppendIsConcat, PathGrows DEF Paths
  <2>3. (Control(fs) \o <<I!Call>>) \o << >> = Control(fs) \o <<I!Call>>
      BY <2>2, ConcatEmptySeq DEF Paths
  <2> QED BY <2>2, <2>3 DEF Joined
<1> QED BY <1>3, <1>4, <1>5 DEF gs

\* Nothing of a kind is open in a path without it.
LEMMA NoneOfKind ==
    ASSUME NEW path \in Paths, NEW kinds
    PROVE  I!Innermost(path, kinds) = 0 <=> \A k \in 1 .. Len(path) : path[k].kind \notin kinds
<1> DEFINE i == I!Innermost(path, kinds)
<1>1. Len(path) \in Nat
    BY LenProperties DEF Paths
<1>2. /\ i \in 0 .. Len(path) /\ (i > 0 => path[i].kind \in kinds)
      /\ \A j \in 1 .. Len(path) : path[j].kind \in kinds => j <= i
    BY InnermostIsThere
<1> HIDE DEF i
<1>3. i = 0 <=> \A k \in 1 .. Len(path) : path[k].kind \notin kinds
    BY <1>1, <1>2
<1> QED BY <1>3 DEF i

LEMMA AroundTheCall ==
    ASSUME NEW c \in Paths
    PROVE  /\ c \o <<I!Call>> \in Paths /\ Len(c \o <<I!Call>>) = Len(c) + 1 /\ Len(c) \in Nat
           /\ I!Innermost(c \o <<I!Call>>, {"call"}) = Len(c) + 1
           /\ I!Innermost(c \o <<I!Call>>, {"try"}) = I!Innermost(c, {"try"})
<1> DEFINE one == <<I!Call>>
<1>1. one \in Paths /\ Len(one) = 1 /\ one[1].kind = "call"
    BY CallIsAnItem DEF Paths
<1> HIDE DEF one
<1>2. I!Innermost(one, {"call"}) = 1
    BY <1>1, OnlyInnermost
<1>3. I!Innermost(one, {"try"}) = 0
    BY <1>1, NoneOfKind
<1>7. c \o one \in Paths /\ Len(c) \in Nat /\ Len(c \o one) = Len(c) + Len(one)
    BY <1>1, InBoth
<1>4. c \o one \in Paths /\ Len(c) \in Nat /\ Len(c \o one) = Len(c) + 1
    BY <1>1, <1>7
<1>5. I!Innermost(c \o one, {"call"}) = Len(c) + 1
    BY <1>1, <1>2, InnermostOfBoth
<1>6. I!Innermost(c \o one, {"try"}) = I!Innermost(c, {"try"})
    BY <1>1, <1>3, InnermostOfBoth
<1> QED BY <1>4, <1>5, <1>6 DEF one

\* The call a frame is of is the innermost call there is.
LEMMA InnermostCall ==
    ASSUME NEW fs \in Stacks, fs # << >>, Flat(fs)
    PROVE  /\ Len(Base(fs)) \in Nat /\ I!Innermost(Control(fs), {"call"}) = Len(Base(fs))
           /\ Len(fs) > 1 => Len(Base(fs)) > 0
<1>1. Last(fs) \in Paths /\ Len(fs) \in Nat /\ Len(fs) > 0
    BY LastPath
<1>2. Base(fs) \in Paths /\ Control(fs) = Base(fs) \o Last(fs)
    BY ControlSplits
<1>3. I!Innermost(Last(fs), {"call"}) = 0
    BY <1>1, FlatPath, NoneOfKind
<1>4. I!Innermost(Control(fs), {"call"}) = I!Innermost(Base(fs), {"call"})
    BY <1>1, <1>2, <1>3, InnermostOfBoth
<1>5. CASE Len(fs) = 1
  <2>1. Base(fs) = << >> /\ Len(Base(fs)) = 0
      BY <1>5, EmptySeq DEF Base
  <2>2. I!Innermost(Base(fs), {"call"}) = 0
      BY <1>2, <2>1, NoneOfKind
  <2> QED BY <1>4, <1>5, <2>1, <2>2
<1>6. CASE Len(fs) # 1
  <2> DEFINE low == SubSeq(fs, 1, Len(fs) - 1)
  <2>1. Len(fs) > 1
      BY <1>1, <1>6
  <2>2. low \in Stacks /\ low # << >>
      BY <2>1, FramesBefore
  <2>3. Base(fs) = Control(low) \o <<I!Call>>
      BY <1>6 DEF Base
  <2> HIDE DEF low
  <2>4. /\ Len(Base(fs)) = Len(Control(low)) + 1 /\ Len(Control(low)) \in Nat
        /\ I!Innermost(Base(fs), {"call"}) = Len(Control(low)) + 1
      BY <2>2, <2>3, ControlIsAPath, AroundTheCall
  <2> QED BY <1>4, <2>4
<1> QED BY <1>5, <1>6

\* A loop or a try of the innermost frame is the innermost there is.
LEMMA InnermostHere ==
    ASSUME NEW fs \in Stacks, fs # << >>, NEW kinds, I!Innermost(Last(fs), kinds) > 0
    PROVE  I!Innermost(Control(fs), kinds) = Len(Base(fs)) + I!Innermost(Last(fs), kinds)
<1>1. Last(fs) \in Paths
    BY LastPath
<1>2. Base(fs) \in Paths /\ Control(fs) = Base(fs) \o Last(fs)
    BY ControlSplits
<1> QED BY <1>1, <1>2, InnermostOfBoth

\* A frame is left.
LEMMA LeavesFrame ==
    ASSUME NEW fs \in Stacks, Flat(fs), Len(fs) > 1
    PROVE  LET gs == SubSeq(fs, 1, Len(fs) - 1)
           IN  /\ gs \in Stacks /\ gs # << >> /\ Flat(gs)
               /\ Control(gs) = I!Upto(Control(fs), Len(Base(fs)) - 1)
               /\ Len(Base(fs)) - 1 \in 0 .. Len(Control(fs))
               /\ I!Innermost(Last(fs), {"try"}) = 0
                      => /\ I!Innermost(Control(gs), {"try"}) = I!Innermost(Control(fs), {"try"})
                         /\ I!Innermost(Control(gs), {"try"}) \in 0 .. Len(Base(fs)) - 1
<1> DEFINE gs == SubSeq(fs, 1, Len(fs) - 1)
           l == Len(Control(gs))
<1>1. fs # << >> /\ Len(fs) \in Nat
    BY EmptySeq, LenProperties DEF Stacks
<1>2. /\ gs \in Stacks /\ gs # << >> /\ Len(gs) = Len(fs) - 1
      /\ \A i \in 1 .. Len(fs) - 1 : gs[i] = fs[i]
    BY FramesBefore
<1>3. Last(fs) \in Paths
    BY <1>1, LastPath
<1>4. Base(fs) \in Paths /\ Control(fs) = Base(fs) \o Last(fs)
    BY <1>1, ControlSplits
<1>13. Len(fs) # 1
  <2>1. \A k \in Nat : k > 1 => k # 1
      OBVIOUS
  <2> QED BY <1>1, <2>1
<1>5. Base(fs) = Control(gs) \o <<I!Call>>
    BY <1>13 DEF Base
<1> HIDE DEF gs
<1>6. Control(gs) \in Paths
    BY <1>2, ControlIsAPath
<1>7. /\ Len(Base(fs)) = l + 1 /\ l \in Nat
      /\ I!Innermost(Base(fs), {"try"}) = I!Innermost(Control(gs), {"try"})
    BY <1>5, <1>6, AroundTheCall
<1>8. Flat(gs)
  <2> SUFFICES ASSUME NEW f \in 1 .. Len(gs), NEW k \in 1 .. Len(gs[f]) PROVE gs[f][k].kind # "call"
      BY DEF Flat
  <2>1. f \in 1 .. Len(fs) /\ gs[f] = fs[f]
      BY <1>1, <1>2
  <2> QED BY <2>1 DEF Flat
<1>9. Len(Control(fs)) = Len(Base(fs)) + Len(Last(fs)) /\ Len(Last(fs)) \in Nat
    BY <1>3, <1>4, InBoth
<1>10. Control(gs) = I!Upto(Control(fs), l)
  <2>1. l \in 0 .. Len(Base(fs)) /\ l \in 0 .. l
      BY <1>7
  <2>2. I!Upto(Base(fs) \o Last(fs), l) = I!Upto(Base(fs), l)
      BY <1>3, <1>4, <2>1, CutBelow
  <2>3. <<I!Call>> \in Paths
      BY CallIsAnItem DEF Paths
  <2>4. I!Upto(Control(gs) \o <<I!Call>>, l) = I!Upto(Control(gs), l)
      BY <1>6, <2>1, <2>3, CutBelow
  <2>5. I!Upto(Control(gs), l) = Control(gs)
      BY <1>6, WholePath
  <2> QED BY <1>4, <1>5, <2>2, <2>4, <2>5
<1>11. ASSUME I!Innermost(Last(fs), {"try"}) = 0
       PROVE  /\ I!Innermost(Control(gs), {"try"}) = I!Innermost(Control(fs), {"try"})
              /\ I!Innermost(Control(gs), {"try"}) \in 0 .. l
  <2>1. I!Innermost(Control(fs), {"try"}) = I!Innermost(Base(fs), {"try"})
      BY <1>3, <1>4, <1>11, InnermostOfBoth
  <2>2. I!Innermost(Control(gs), {"try"}) \in 0 .. l
      BY <1>6, InnermostIsThere
  <2> QED BY <1>7, <2>1, <2>2
<1>12. Len(Base(fs)) - 1 = l /\ l \in 0 .. Len(Control(fs))
    BY <1>7, <1>9
<1> QED BY <1>2, <1>8, <1>10, <1>11, <1>12 DEF gs

-------------------------------------------------------------------------------
(* Where a failure lands: at the innermost try, if there is one.           *)
Lands(fs) == I!Innermost(Control(fs), {"try"})
Landing(fs) == I!Upto(Control(fs), Lands(fs))

LEMMA LandsBelow ==
    ASSUME NEW fs \in Stacks, Flat(fs), Len(fs) > 1, I!Innermost(Last(fs), {"try"}) = 0
    PROVE  LET gs == SubSeq(fs, 1, Len(fs) - 1)
           IN  Lands(gs) = Lands(fs) /\ Landing(gs) = Landing(fs)
<1> DEFINE gs == SubSeq(fs, 1, Len(fs) - 1)
           l == Len(Base(fs)) - 1
<1>1. /\ gs \in Stacks /\ gs # << >>
      /\ Control(gs) = I!Upto(Control(fs), l) /\ l \in 0 .. Len(Control(fs))
      /\ I!Innermost(Control(gs), {"try"}) = I!Innermost(Control(fs), {"try"})
      /\ I!Innermost(Control(gs), {"try"}) \in 0 .. l
    BY LeavesFrame
<1>2. fs # << >>
    BY EmptySeq DEF Stacks
<1>3. Control(fs) \in Paths /\ Len(Control(fs)) \in Nat
    BY <1>2, ControlIsAPath, LenProperties DEF Paths
<1> HIDE DEF gs, l
<1> DEFINE k == Lands(fs)
<1>4. Lands(gs) = k /\ k \in 0 .. l
    BY <1>1 DEF Lands
<1> HIDE DEF k
<1>5. I!Upto(I!Upto(Control(fs), l), k) = I!Upto(Control(fs), k)
    BY <1>1, <1>3, <1>4, CutAgain
<1> QED BY <1>1, <1>4, <1>5 DEF Landing, gs, k

LEMMA LandsHere ==
    ASSUME NEW fs \in Stacks, fs # << >>, Flat(fs), NEW m, m = I!Innermost(Last(fs), {"try"}), m > 0
    PROVE  /\ m \in 1 .. Len(Last(fs))
           /\ Lands(fs) = Len(Base(fs)) + m /\ Lands(fs) > 0
           /\ Control(Goes(fs, I!Upto(Last(fs), m))) = Landing(fs)
           /\ Flat(Goes(fs, I!Upto(Last(fs), m)))
<1>1. Last(fs) \in Paths /\ Len(Last(fs)) \in Nat
    BY LastPath
<1>2. m \in 0 .. Len(Last(fs))
    BY <1>1, InnermostIsThere
<1>3. Lands(fs) = Len(Base(fs)) + m
    BY InnermostHere DEF Lands
<1>4. /\ Flat(Goes(fs, I!Upto(Last(fs), m))) /\ Len(Base(fs)) \in Nat
      /\ Control(Goes(fs, I!Upto(Last(fs), m))) = I!Upto(Control(fs), Len(Base(fs)) + m)
    BY <1>2, ClosesBlocks
<1> QED BY <1>1, <1>2, <1>3, <1>4 DEF Landing

\* ... through every frame without a try.
LEMMA LandsThrough ==
    ASSUME NEW fs \in Stacks, fs # << >>, Flat(fs), NEW m \in 1 .. Len(fs),
           \A f \in m + 1 .. Len(fs) : I!Innermost(fs[f], {"try"}) = 0
    PROVE  LET gs == SubSeq(fs, 1, m)
           IN  gs \in Stacks /\ gs # << >> /\ Flat(gs) /\ Lands(gs) = Lands(fs) /\ Landing(gs) = Landing(fs)
<1> DEFINE Low(k) == SubSeq(fs, 1, k)
           top == Len(fs)
           Fine(k) == Flat(Low(k)) /\ Lands(Low(k)) = Lands(fs) /\ Landing(Low(k)) = Landing(fs)
<1>1. top \in Nat /\ top > 0
    BY LastPath
<1>2. ASSUME NEW k \in 1 .. top
      PROVE  Low(k) \in Stacks /\ Low(k) # << >> /\ Len(Low(k)) = k /\ \A i \in 1 .. k : Low(k)[i] = fs[i]
    BY <1>2, FramesLeft
<1>3. Low(top) = fs
  <2>1. top \in 1 .. top
      BY <1>1
  <2> HIDE DEF Low, top
  <2>2. Low(top) \in Stacks /\ Len(Low(top)) = top /\ \A i \in 1 .. top : Low(top)[i] = fs[i]
      BY <1>2, <2>1
  <2> QED BY <2>2, SeqEqual DEF Stacks, top
<1>4. ASSUME NEW k \in 1 .. top, k > m, Fine(k)
      PROVE  Fine(k - 1)
  <2>1. k - 1 \in 1 .. top /\ k > 1 /\ k \in m + 1 .. top
      BY <1>1, <1>4
  <2> DEFINE gs == Low(k)
  <2>2. gs \in Stacks /\ gs # << >> /\ Len(gs) = k /\ \A i \in 1 .. k : gs[i] = fs[i]
      BY <1>2
  <2>3. Low(k - 1) \in Stacks /\ Len(Low(k - 1)) = k - 1 /\ \A i \in 1 .. k - 1 : Low(k - 1)[i] = fs[i]
      BY <1>2, <2>1
  <2>4. Flat(gs) /\ Lands(gs) = Lands(fs) /\ Landing(gs) = Landing(fs)
      BY <1>4
  <2> HIDE DEF gs, Low, Fine
  <2>5. I!Innermost(Last(gs), {"try"}) = 0
    <3>1. Last(gs) = fs[k]
        BY <2>2 DEF Last
    <3> QED BY <2>1, <3>1 DEF top
  <2> DEFINE hs == SubSeq(gs, 1, Len(gs) - 1)
  <2>6. Lands(hs) = Lands(gs) /\ Landing(hs) = Landing(gs)
      BY <2>1, <2>2, <2>4, <2>5, LandsBelow
  <2>7. hs \in Stacks /\ Len(hs) = k - 1 /\ \A i \in 1 .. k - 1 : hs[i] = gs[i]
      BY <2>1, <2>2, FramesBefore
  <2>8. Flat(hs)
      BY <2>1, <2>2, <2>4, LeavesFrame
  <2> HIDE DEF hs
  <2>9. hs = Low(k - 1)
    <3>1. \A i \in 1 .. Len(hs) : hs[i] = Low(k - 1)[i]
        BY <2>1, <2>2, <2>3, <2>7
    <3> QED BY <2>3, <2>7, <3>1, SeqEqual DEF Stacks
  <2> QED BY <2>4, <2>6, <2>8, <2>9 DEF Fine
<1>5. Fine(top)
    BY <1>3
<1> HIDE DEF Fine
<1> DEFINE S == {d \in Nat : d <= top - m => Fine(top - d)}
<1>6. 0 \in S
  <2>1. top - 0 = top
      BY <1>1
  <2> QED BY <1>5, <2>1
<1>7. ASSUME NEW d \in Nat, d \in S PROVE d + 1 \in S
  <2> SUFFICES ASSUME d + 1 <= top - m PROVE Fine(top - (d + 1))
      OBVIOUS
  <2>1. top - d \in 1 .. top /\ top - d > m /\ d <= top - m /\ (top - d) - 1 = top - (d + 1)
      BY <1>1
  <2>2. Fine(top - d)
      BY <1>7, <2>1
  <2> HIDE DEF S
  <2>3. Fine((top - d) - 1)
      BY <1>4, <2>1, <2>2
  <2> QED BY <2>1, <2>3
<1> HIDE DEF S
<1>8. Nat \subseteq S
    BY <1>6, <1>7, Induction
<1>9. top - m \in Nat /\ top - (top - m) = m /\ m \in 1 .. top
    BY <1>1
<1>10. Fine(m)
  <2> DEFINE d == top - m
  <2>1. d \in Nat /\ d <= top - m /\ top - d = m
      BY <1>1, <1>9
  <2> HIDE DEF d
  <2>2. Fine(top - d)
      BY <1>8, <2>1 DEF S
  <2> QED BY <2>1, <2>2
<1>11. Low(m) \in Stacks /\ Low(m) # << >>
    BY <1>2, <1>9
<1> QED BY <1>10, <1>11 DEF Fine

\* Nothing lands where no try is open, and only there.
LEMMA LandsNowhere ==
    ASSUME NEW fs \in Stacks, fs # << >>, Flat(fs)
    PROVE  Lands(fs) = 0 <=> Tries(fs) = {}
<1> DEFINE in(f) == I!Innermost(fs[f], {"try"})
           S == {0} \cup {f \in 1 .. Len(fs) : in(f) # 0}
           f0 == I!Max(S)
<1>1. Len(fs) \in Nat /\ Len(fs) > 0 /\ \A f \in 1 .. Len(fs) : fs[f] \in Paths
    BY LastPath, ElementOfSeq DEF Stacks
<1>2. \A f \in 1 .. Len(fs) : in(f) = 0 <=> \A k \in 1 .. Len(fs[f]) : fs[f][k].kind # "try"
  <2> TAKE f \in 1 .. Len(fs)
  <2>1. in(f) = 0 <=> \A k \in 1 .. Len(fs[f]) : fs[f][k].kind \notin {"try"}
      BY <1>1, NoneOfKind
  <2> QED BY <2>1
<1> HIDE DEF in
<1>3. Tries(fs) = {} <=> \A f \in 1 .. Len(fs) : in(f) = 0
  <2>1. Tries(fs) = {} => \A f \in 1 .. Len(fs) : \A k \in 1 .. Len(fs[f]) : fs[f][k].kind # "try"
    <3> SUFFICES ASSUME NEW f \in 1 .. Len(fs), NEW k \in 1 .. Len(fs[f]), fs[f][k].kind = "try"
                 PROVE  Tries(fs) # {}
        OBVIOUS
    <3>1. <<f, k>> \in Tries(fs)
        BY TryIsOpen
    <3> QED BY <3>1
  <2>2. Tries(fs) # {} => \E f \in 1 .. Len(fs) : \E k \in 1 .. Len(fs[f]) : fs[f][k].kind = "try"
      BY TryIsOpen
  <2> QED BY <1>2, <2>1, <2>2
<1>4. S \subseteq 0 .. Len(fs) /\ S # {}
    BY <1>1
<1>5. f0 \in S /\ \A x \in S : x <= f0
    BY <1>1, <1>4, LargestIsThere
<1> HIDE DEF f0
<1>6. CASE f0 = 0
  <2>1. \A f \in 1 .. Len(fs) : in(f) = 0
      BY <1>1, <1>5, <1>6
  <2>2. 1 \in 1 .. Len(fs) /\ \A f \in 1 + 1 .. Len(fs) : I!Innermost(fs[f], {"try"}) = 0
      BY <1>1, <2>1 DEF in
  <2> DEFINE gs == SubSeq(fs, 1, 1)
  <2>3. gs \in Stacks /\ gs # << >> /\ Lands(gs) = Lands(fs)
      BY <2>2, LandsThrough
  <2>4. Len(gs) = 1 /\ gs[1] = fs[1]
    <3>1. Len(gs) = 1 /\ \A i \in 1 .. 1 : gs[i] = fs[i]
        BY <2>2, FramesLeft
    <3> QED BY <3>1
  <2> HIDE DEF gs
  <2>5. Control(gs) = fs[1]
      BY <2>3, <2>4, ControlOfOne
  <2>6. I!Innermost(fs[1], {"try"}) = 0
      BY <2>1, <2>2 DEF in
  <2> QED BY <1>3, <2>1, <2>3, <2>5, <2>6 DEF Lands
<1>7. CASE f0 # 0
  <2>1. f0 \in 1 .. Len(fs) /\ in(f0) # 0
      BY <1>5, <1>7
  <2>2. \A f \in f0 + 1 .. Len(fs) : in(f) = 0
      BY <1>1, <1>5, <2>1
  <2>3. \A f \in f0 + 1 .. Len(fs) : I!Innermost(fs[f], {"try"}) = 0
      BY <2>2 DEF in
  <2> DEFINE gs == SubSeq(fs, 1, f0)
  <2>4. gs \in Stacks /\ gs # << >> /\ Flat(gs) /\ Lands(gs) = Lands(fs)
      BY <2>1, <2>3, LandsThrough
  <2>5. Len(gs) = f0 /\ \A i \in 1 .. f0 : gs[i] = fs[i]
      BY <2>1, FramesLeft
  <2> HIDE DEF gs
  <2>6. Last(gs) = fs[f0]
      BY <2>1, <2>5 DEF Last
  <2>7. I!Innermost(Last(gs), {"try"}) > 0
    <3>1. I!Innermost(fs[f0], {"try"}) \in 0 .. Len(fs[f0]) /\ Len(fs[f0]) \in Nat
        BY <1>1, <2>1, InnermostIsThere, LenProperties DEF Paths
    <3> QED BY <2>1, <2>6, <3>1 DEF in
  <2>8. Lands(gs) > 0
      BY <2>4, <2>7, LandsHere
  <2> QED BY <1>3, <2>1, <2>4, <2>8
<1> QED BY <1>6, <1>7

--------------------------------------------------------------------------------
LEMMA SameControl == \A fs : V!Control(fs) = Control(fs)
<1>1. V!I!Call = I!Call
    BY DEF V!I!Call, I!Call, V!I!Item, I!Item
<1> QED BY <1>1 DEF V!Control, Control, V!FoldLeft, FoldLeft, V!MapThenFoldSet, MapThenFoldSet,
           V!Max, Max

\* The interpreter's operators, as each engine's reading of it has them.
LEMMA SameReadings ==
    /\ \A path, k : V!Interp!Upto(path, k) = I!Upto(path, k) /\ Interp!Upto(path, k) = I!Upto(path, k)
    /\ \A path, kinds : /\ V!Interp!Innermost(path, kinds) = I!Innermost(path, kinds)
                        /\ Interp!Innermost(path, kinds) = I!Innermost(path, kinds)
    /\ \A path : V!Interp!Top(path) = I!Top(path) /\ Interp!Top(path) = I!Top(path)
    /\ \A cs : V!Interp!Try(cs) = I!Try(cs) /\ Interp!Try(cs) = I!Try(cs)
    /\ \A c : V!Interp!Clause(c) = I!Clause(c) /\ Interp!Clause(c) = I!Clause(c)
    /\ V!Interp!Loop = I!Loop /\ Interp!Loop = I!Loop
    /\ V!Interp!Call = I!Call /\ Interp!Call = I!Call
    /\ \A cs, v : V!Interp!Taken(cs, v) = I!Taken(cs, v) /\ Interp!Taken(cs, v) = I!Taken(cs, v)
    /\ \A S : V!Interp!Min(S) = I!Min(S) /\ Interp!Min(S) = I!Min(S)
    /\ V!Interp!NoValue = NoType /\ Interp!NoValue = NoType
<1>1. \A path, k : V!Interp!Upto(path, k) = I!Upto(path, k) /\ Interp!Upto(path, k) = I!Upto(path, k)
    BY DEF V!Interp!Upto, Interp!Upto, I!Upto
<1>2. \A S : V!Interp!Max(S) = I!Max(S) /\ Interp!Max(S) = I!Max(S)
    BY DEF V!Interp!Max, Interp!Max, I!Max
<1>3. \A S : V!Interp!Min(S) = I!Min(S) /\ Interp!Min(S) = I!Min(S)
    BY DEF V!Interp!Min, Interp!Min, I!Min
<1>4. \A path, kinds : /\ V!Interp!Innermost(path, kinds) = I!Innermost(path, kinds)
                       /\ Interp!Innermost(path, kinds) = I!Innermost(path, kinds)
    BY <1>2 DEF V!Interp!Innermost, Interp!Innermost, I!Innermost
<1>5. \A path : V!Interp!Top(path) = I!Top(path) /\ Interp!Top(path) = I!Top(path)
    BY DEF V!Interp!Top, Interp!Top, I!Top
<1>6. \A k, cs : V!Interp!Item(k, cs) = I!Item(k, cs) /\ Interp!Item(k, cs) = I!Item(k, cs)
    BY DEF V!Interp!Item, Interp!Item, I!Item
<1>7. /\ \A cs : V!Interp!Try(cs) = I!Try(cs) /\ Interp!Try(cs) = I!Try(cs)
      /\ \A c : V!Interp!Clause(c) = I!Clause(c) /\ Interp!Clause(c) = I!Clause(c)
    BY <1>6 DEF V!Interp!Try, Interp!Try, I!Try, V!Interp!Clause, Interp!Clause, I!Clause
<1>8. /\ V!Interp!Loop = I!Loop /\ Interp!Loop = I!Loop
      /\ V!Interp!Call = I!Call /\ Interp!Call = I!Call
    BY <1>6 DEF V!Interp!Loop, Interp!Loop, I!Loop, V!Interp!Call, Interp!Call, I!Call
<1>9. \A cs, v : V!Interp!Taken(cs, v) = I!Taken(cs, v) /\ Interp!Taken(cs, v) = I!Taken(cs, v)
    BY DEF V!Interp!Taken, Interp!Taken, I!Taken, V!Interp!Takes, Interp!Takes, I!Takes
<1>10. V!Interp!NoValue = NoType /\ Interp!NoValue = NoType
    BY DEF V!Interp!NoValue, Interp!NoValue
<1> QED BY <1>1, <1>3, <1>4, <1>5, <1>7, <1>8, <1>9, <1>10

-------------------------------------------------------------------------------
(* A step of the interpreter, read off the VM's state.                     *)
LEMMA VmReadsOpen ==
    ASSUME NEW item, vmode = "run", vmode' = "run", UNCHANGED <<vthrown, vout>>, Len(V!Control(vframes)) < MaxNest,
           Control(vframes') = Append(Control(vframes), item)
    PROVE  V!Interp!Open(item)
BY SameControl DEF V!Interp!Open

LEMMA VmReadsCut ==
    ASSUME vmode = "run", vmode' = "run", UNCHANGED <<vthrown, vout>>
    PROVE  /\ Control(vframes) # << >> /\ I!Top(Control(vframes)).kind # "call"
              /\ Control(vframes') = I!Upto(Control(vframes), Len(Control(vframes)) - 1) => V!Interp!EndBlock
           /\ I!Innermost(Control(vframes), {"call"}) > 0
              /\ Control(vframes') = I!Upto(Control(vframes), I!Innermost(Control(vframes), {"call"}) - 1) => V!Interp!Return
           /\ I!Innermost(Control(vframes), {"loop"}) > I!Innermost(Control(vframes), {"call"})
              /\ Control(vframes') = I!Upto(Control(vframes), I!Innermost(Control(vframes), {"loop"}) - 1) => V!Interp!Break
           /\ I!Innermost(Control(vframes), {"loop"}) > I!Innermost(Control(vframes), {"call"})
              /\ Control(vframes') = I!Upto(Control(vframes), I!Innermost(Control(vframes), {"loop"})) => V!Interp!Continue
BY SameControl, SameReadings DEF V!Interp!EndBlock, V!Interp!Return, V!Interp!Break,
   V!Interp!Continue, V!Interp!InLoop

\* What is in flight is at a try, if one is open.
LEMMA VmInFlight ==
    ASSUME NEW fs \in Stacks, fs # << >>
    PROVE  {k \in DOMAIN V!Control(fs) : V!Control(fs)[k].kind = "try"} = {} <=> Lands(fs) = 0
<1> DEFINE c == Control(fs)
<1>1. c \in Paths /\ DOMAIN c = 1 .. Len(c)
    BY ControlIsAPath, LenProperties DEF Paths
<1> HIDE DEF c
<1>2. I!Innermost(c, {"try"}) = 0 <=> \A k \in 1 .. Len(c) : c[k].kind \notin {"try"}
    BY <1>1, NoneOfKind
<1>3. {k \in DOMAIN c : c[k].kind = "try"} = {} <=> I!Innermost(c, {"try"}) = 0
    BY <1>1, <1>2
<1> QED BY <1>3, SameControl DEF c, Lands

\* A failure in flight is, to the interpreter, at the try it lands at, or over.
VmCtl == IF vmode = "flying" THEN Landing(vframes)
         ELSE IF vmode = "over" THEN << >> ELSE Control(vframes)
VmLost == vmode = "flying" /\ Lands(vframes) = 0
VmMode == IF VmLost THEN "over" ELSE IF vmode = "flying" THEN "clauses" ELSE vmode
VmThrown == IF VmLost THEN NoType ELSE vthrown
VmOut == IF VmLost THEN "uncaught" ELSE vout
LEMMA VmStutters ==
    ASSUME vframes \in Stacks, vframes # << >>, vframes' \in Stacks, vframes' # << >>,
           VmCtl' = VmCtl, VmMode' = VmMode, VmThrown' = VmThrown, VmOut' = VmOut
    PROVE  UNCHANGED V!Interp!vars
<1>1. V!InFlight = {} <=> Lands(vframes) = 0
    BY VmInFlight DEF V!InFlight
<1>2. V!InFlight' = {} <=> Lands(vframes') = 0
    BY VmInFlight DEF V!InFlight
<1>3. \A fs : V!I!Upto(V!Control(fs), V!I!Innermost(V!Control(fs), {"try"})) = Landing(fs)
    BY SameControl, SameOperators DEF Landing, Lands
<1>4. V!I!Upto(V!Control(vframes'), V!I!Innermost(V!Control(vframes'), {"try"})) = Landing(vframes')
    BY <1>3
<1>5. V!Control(vframes') = Control(vframes') /\ V!Control(vframes) = Control(vframes)
    BY SameControl
<1> QED BY <1>1, <1>2, <1>3, <1>4, <1>5 DEF V!Interp!vars, VmCtl, VmMode, VmThrown, VmOut, VmLost

\* A failure is raised, or goes on from a try without a clause for it.
LEMMA VmReadsRaise ==
    ASSUME NEW path, NEW v, vframes' \in Stacks, vframes' # << >>, vmode # "flying", vmode' = "flying",
           vthrown' = v, vout' = vout, Control(vframes') = path
    PROVE  V!Interp!Raise(path, v)
<1>1. V!InFlight' = {} <=> Lands(vframes') = 0
    BY VmInFlight DEF V!InFlight
<1>2. V!I!Upto(V!Control(vframes'), V!I!Innermost(V!Control(vframes'), {"try"})) = I!Upto(path, I!Innermost(path, {"try"}))
    BY SameControl, SameOperators
<1>3. Lands(vframes') = I!Innermost(path, {"try"})
    BY DEF Lands
<1> QED BY <1>1, <1>2, <1>3, SameReadings DEF V!Interp!Raise

LEMMA VmReadsThrow ==
    ASSUME NEW v, vframes' \in Stacks, vframes' # << >>, vmode = "run", vmode' = "flying",
           vthrown' = v, vout' = vout, vframes' = vframes
    PROVE  V!Interp!Throw(v)
<1>1. V!Interp!Raise(Control(vframes), v)
    BY VmReadsRaise
<1> QED BY <1>1, SameControl DEF V!Interp!Throw

LEMMA VmReadsPassOn ==
    ASSUME vframes' \in Stacks, vframes' # << >>, vmode = "clauses", vmode' = "flying",
           vthrown' = vthrown, vout' = vout,
           Control(vframes') = I!Upto(Control(vframes), Len(Control(vframes)) - 1),
           I!Taken(I!Top(Control(vframes)).clauses, vthrown) = {}
    PROVE  V!Interp!PassOn
<1>1. V!Interp!Raise(I!Upto(Control(vframes), Len(Control(vframes)) - 1), vthrown)
    BY VmReadsRaise
<1> QED BY <1>1, SameControl, SameReadings DEF V!Interp!PassOn

LEMMA VmReadsCatch ==
    ASSUME vmode = "clauses", vmode' = "run", vthrown' = NoType, vout' = vout,
           NEW cs, cs = I!Top(Control(vframes)).clauses,
           I!Taken(cs, vthrown) # {},
           Control(vframes') = Append(I!Upto(Control(vframes), Len(Control(vframes)) - 1),
                                      I!Clause(cs[I!Min(I!Taken(cs, vthrown))]))
    PROVE  V!Interp!Catch
BY SameControl, SameReadings DEF V!Interp!Catch

LEMMA VmReadsFinish ==
    ASSUME vmode = "run", vmode' = "over", vout' = "done", vthrown' = vthrown, Control(vframes) = << >>
    PROVE  V!Interp!Finish
BY SameControl, SameReadings DEF V!Interp!Finish

LEMMA NothingOf ==
    ASSUME NEW path \in Paths
    PROVE  I!Upto(path, 0) = << >>
<1>1. Len(path) \in Nat /\ 0 \in 0 .. Len(path)
    BY LenProperties DEF Paths
<1>2. I!Upto(path, 0) \in Paths /\ Len(I!Upto(path, 0)) = 0
    BY <1>1, PathCut
<1> QED BY <1>2, EmptySeq DEF Paths

\* What is left when a path is put on the first frames.
LEMMA CutThere ==
    ASSUME NEW fs \in Stacks, fs # << >>, NEW f \in 1 .. Len(fs), NEW target \in Paths, NEW gs,
           gs = Append(SubSeq(fs, 1, f - 1), target)
    PROVE  Len(gs) = f /\ gs[f] = target /\ \A g \in 1 .. f - 1 : gs[g] = fs[g]
<1> DEFINE cut == SubSeq(fs, 1, f - 1)
<1>1. Len(fs) \in Nat /\ f \in Nat /\ \A i \in 1 .. Len(fs) : fs[i] \in Paths
    BY LenProperties, ElementOfSeq DEF Stacks
<1>2. \A i \in 1 .. f - 1 : fs[i] \in Paths
    BY <1>1
<1>3. /\ cut \in Stacks /\ Len(cut) = (IF 1 <= f - 1 THEN f - 1 - 1 + 1 ELSE 0)
      /\ \A i \in 1 .. f - 1 - 1 + 1 : cut[i] = fs[1 + i - 1]
    BY <1>1, <1>2, SubSeqProperties DEF Stacks
<1>4. Len(cut) = f - 1 /\ \A i \in 1 .. f - 1 : cut[i] = fs[i]
    BY <1>1, <1>3
<1> HIDE DEF cut
<1>5. /\ Len(gs) = Len(cut) + 1
      /\ \A i \in 1 .. Len(cut) : gs[i] = cut[i]
      /\ gs[Len(cut) + 1] = target
    BY <1>3, AppendProperties DEF Stacks, cut
<1> QED BY <1>1, <1>4, <1>5

\* No try is open in the frames of an `execute` without a handler of its own.
LEMMA NoOwnTry ==
    ASSUME vframes \in Stacks, vhandlers \in Handlers, Match(vframes, vhandlers, Tries(vframes)), ~V!OwnHandler,
           Last(vdepths) \in Nat
    PROVE  \A t \in Tries(vframes) : t[1] <= Last(vdepths)
<1> TAKE t \in Tries(vframes)
<1>1. PICK i \in 1 .. Len(vhandlers) : t = Place(vhandlers[i])
    BY DEF Match
<1>2. vhandlers # << >>
    BY <1>1, EmptySeq
<1>3. Last(vhandlers).frames_len <= Last(vdepths) /\ Last(vhandlers).frames_len \in Nat
  <2>1. Last(vhandlers).frames_len \in 1 .. Len(vframes)
      BY <1>2, LastHandler
  <2>2. ~(Last(vhandlers).frames_len > Last(vdepths))
      BY <1>2, SameOperators DEF V!OwnHandler
  <2> QED BY <2>1, <2>2
<1>4. t[1] < Last(vhandlers).frames_len \/ t[1] = Last(vhandlers).frames_len
    BY <1>2, LastHandler
<1>5. t[1] \in Nat
  <2>1. t[1] = vhandlers[i].frames_len
      BY <1>1 DEF Place
  <2> QED BY <2>1, HandlerTypes
<1> QED BY <1>3, <1>4, <1>5

\* Every step of the VM is the interpreter's, or none.
LEMMA VmMeans ==
    ASSUME VInv, VInv', Flat(vframes), [V!Next]_(V!vars)
    PROVE  Flat(vframes') /\ [V!Interp!Next]_(V!Interp!vars)
<1> DEFINE path == Last(vframes)
           top == Len(vframes)
           c == Control(vframes)
           d == Control(vframes')
           Meant == Flat(vframes') /\ [V!Interp!Next]_(V!Interp!vars)
<1>1. /\ vframes \in Stacks /\ vframes # << >> /\ vhandlers \in Handlers
      /\ vmode \in {"run", "flying", "clauses", "over"}
      /\ vthrown \in Type \cup {NoType}
      /\ Executes(vframes, vdepths) /\ Match(vframes, vhandlers, Guarded(vframes, vmode))
      /\ (vmode = "clauses" => path # << >> /\ Last(path).kind = "try")
    BY DEF VInv, VTypes, ClausesAreATrys
<1>2. vframes' \in Stacks /\ vframes' # << >>
    BY DEF VInv, VTypes
<1>3. top \in Nat /\ top > 0 /\ path = vframes[top] /\ path \in Paths /\ Len(path) \in Nat
    BY <1>1, LastPath
<1>4. V!Path = path
    BY SameOperators DEF V!Path
<1>5. c \in Paths /\ Len(c) \in Nat
    BY <1>1, ControlIsAPath, LenProperties DEF Paths
<1>6. Flat(vframes)
    OBVIOUS
<1>7. V!Room => Len(V!Control(vframes)) < MaxNest
    BY DEF V!Room
<1>8. \A k \in 1 .. Len(path) : path[k].kind # "call"
    BY <1>1, FlatPath
<1>9. CASE UNCHANGED V!vars
  <2>1. UNCHANGED <<vframes, vmode, vthrown, vout>>
      BY <1>9 DEF V!vars
  <2>2. Flat(vframes')
      BY <2>1
  <2>3. VmCtl' = VmCtl /\ VmMode' = VmMode /\ VmThrown' = VmThrown /\ VmOut' = VmOut
      BY <2>1 DEF VmCtl, VmMode, VmThrown, VmOut, VmLost
  <2>4. UNCHANGED V!Interp!vars
      BY <1>1, <1>2, <2>3, VmStutters
  <2> QED BY <2>2, <2>4
<1> HIDE DEF path, c, d
<1>10. ASSUME NEW cs \in VmClauses, V!EnterTry(cs)
       PROVE  Meant
  <2>1. /\ vmode = "run" /\ V!Room /\ UNCHANGED <<vmode, vthrown, vout>>
        /\ vframes' = Goes(vframes, Append(path, I!Try(cs)))
      BY <1>4, <1>10, SameOperators, VmMoves DEF V!EnterTry
  <2>2. I!Try(cs) \in I!Items /\ I!Try(cs).kind = "try"
    <3>1. cs \in Seq(Type \cup {NoType})
        BY ListsAssumption
    <3> QED BY <3>1, BlocksAreItems
  <2>3. Flat(vframes') /\ d = Append(c, I!Try(cs))
      BY <1>1, <1>6, <2>1, <2>2, OpensBlock DEF path, c, d
  <2>4. V!Interp!Open(I!Try(cs))
      BY <1>7, <2>1, <2>3, VmReadsOpen DEF c, d
  <2>5. V!Interp!Next
      BY <2>4, SameReadings DEF V!Interp!Next
  <2> QED BY <2>3, <2>5
<1>11. CASE V!EnterLoop
  <2>1. /\ vmode = "run" /\ V!Room /\ UNCHANGED <<vmode, vthrown, vout>>
        /\ vframes' = Goes(vframes, Append(path, I!Loop))
      BY <1>4, <1>11, SameOperators, VmMoves DEF V!EnterLoop
  <2>2. Flat(vframes') /\ d = Append(c, I!Loop)
      BY <1>1, <1>6, <2>1, BlocksAreItems, OpensBlock DEF path, c, d
  <2>3. V!Interp!Open(I!Loop)
      BY <1>7, <2>1, <2>2, VmReadsOpen DEF c, d
  <2>4. V!Interp!Next
      BY <2>3, SameReadings DEF V!Interp!Next
  <2> QED BY <2>2, <2>4
<1>12. ASSUME V!CallFunction \/ V!CallBack
       PROVE  Meant
  <2>1. /\ vmode = "run" /\ V!Room /\ UNCHANGED <<vmode, vthrown, vout>>
        /\ vframes' = Append(vframes, << >>)
      BY <1>12 DEF V!CallFunction, V!CallBack
  <2>2. Flat(vframes') /\ d = Append(c, I!Call)
      BY <1>1, <1>6, <2>1, EntersFrame DEF c, d
  <2>3. V!Interp!Open(I!Call)
      BY <1>7, <2>1, <2>2, VmReadsOpen DEF c, d
  <2>4. V!Interp!Next
      BY <2>3, SameReadings DEF V!Interp!Next
  <2> QED BY <2>2, <2>4
<1>13. ASSUME V!EndTry \/ V!EndBlock
       PROVE  Meant
  <2>1. /\ vmode = "run" /\ path # << >> /\ UNCHANGED <<vmode, vthrown, vout>>
        /\ vframes' = Goes(vframes, Front(path))
      BY <1>4, <1>13, SameOperators, VmMoves DEF V!EndTry, V!EndBlock
  <2>2. /\ Flat(vframes') /\ c # << >> /\ I!Top(c) = Last(path)
        /\ d = I!Upto(c, Len(c) - 1)
      BY <1>1, <1>6, <2>1, ClosesLast DEF path, c, d
  <2>3. Last(path).kind # "call"
    <3>1. Len(path) \in 1 .. Len(path)
        BY <1>3, <2>1, FrontIsCut
    <3> QED BY <1>8, <3>1 DEF Last
  <2>4. V!Interp!EndBlock
      BY <2>1, <2>2, <2>3, VmReadsCut DEF c, d
  <2> QED BY <2>2, <2>4 DEF V!Interp!Next
<1>14. CASE V!Return
  <2>1. /\ vmode = "run" /\ top > 1 /\ UNCHANGED <<vmode, vthrown, vout>> /\ vframes' = SubSeq(vframes, 1, top - 1)
      BY <1>14, SameOperators DEF V!Return, Front
  <2>2. Flat(vframes') /\ d = I!Upto(c, Len(Base(vframes)) - 1)
      BY <1>1, <1>6, <2>1, LeavesFrame DEF c, d
  <2>3. I!Innermost(c, {"call"}) = Len(Base(vframes)) /\ Len(Base(vframes)) > 0
      BY <1>1, <1>6, <2>1, InnermostCall DEF c
  <2>4. V!Interp!Return
      BY <2>1, <2>2, <2>3, VmReadsCut DEF c, d
  <2> QED BY <2>2, <2>4 DEF V!Interp!Next
<1>15. ASSUME V!LoopAt > 0
       PROVE  /\ V!LoopAt \in 1 .. Len(path) /\ V!LoopAt - 1 \in 0 .. Len(path) /\ V!LoopAt \in 0 .. Len(path)
              /\ I!Innermost(c, {"loop"}) = Len(Base(vframes)) + V!LoopAt
              /\ I!Innermost(c, {"loop"}) > I!Innermost(c, {"call"})
              /\ (Len(Base(vframes)) + V!LoopAt) - 1 = Len(Base(vframes)) + (V!LoopAt - 1)
  <2>1. V!LoopAt = I!Innermost(path, {"loop"})
      BY <1>4, SameOperators DEF V!LoopAt
  <2>2. V!LoopAt \in 0 .. Len(path)
      BY <1>3, <2>1, InnermostIsThere
  <2>3. I!Innermost(c, {"loop"}) = Len(Base(vframes)) + V!LoopAt
      BY <1>1, <1>15, <2>1, InnermostHere DEF path, c
  <2>4. I!Innermost(c, {"call"}) = Len(Base(vframes)) /\ Len(Base(vframes)) \in Nat
      BY <1>1, <1>6, InnermostCall DEF c
  <2> QED BY <1>3, <1>15, <2>2, <2>3, <2>4
<1>16. CASE V!Continue
  <2>1. /\ vmode = "run" /\ V!LoopAt > 0 /\ UNCHANGED <<vmode, vthrown, vout>>
        /\ vframes' = Goes(vframes, I!Upto(path, V!LoopAt))
      BY <1>4, <1>16, SameOperators, VmMoves DEF V!Continue
  <2>2. Flat(vframes') /\ d = I!Upto(c, Len(Base(vframes)) + V!LoopAt)
      BY <1>1, <1>6, <1>15, <2>1, ClosesBlocks DEF path, c, d
  <2>3. V!Interp!Continue
      BY <1>15, <2>1, <2>2, VmReadsCut DEF c, d
  <2> QED BY <2>2, <2>3 DEF V!Interp!Next
<1>17. CASE V!Break
  <2>1. /\ vmode = "run" /\ V!LoopAt > 0 /\ UNCHANGED <<vmode, vthrown, vout>>
        /\ vframes' = Goes(vframes, I!Upto(path, V!LoopAt - 1))
      BY <1>4, <1>17, SameOperators, VmMoves DEF V!Break
  <2>2. Flat(vframes') /\ d = I!Upto(c, Len(Base(vframes)) + (V!LoopAt - 1))
      BY <1>1, <1>6, <1>15, <2>1, ClosesBlocks DEF path, c, d
  <2>3. V!Interp!Break
      BY <1>15, <2>1, <2>2, VmReadsCut DEF c, d
  <2> QED BY <2>2, <2>3 DEF V!Interp!Next
<1>18. ASSUME NEW v \in Type, V!Throw(v)
       PROVE  Meant
  <2>1. vmode = "run" /\ vmode' = "flying" /\ vthrown' = v /\ vout' = vout /\ vframes' = vframes
      BY <1>18 DEF V!Throw
  <2>2. V!Interp!Throw(v)
      BY <1>2, <2>1, VmReadsThrow
  <2>3. V!Interp!Next
      BY <2>2 DEF V!Interp!Next
  <2> QED BY <1>6, <2>1, <2>3
\* The tries are where they were, and so is where the failure lands.
<1>19. CASE V!Unwind
  <2> DEFINE h == Last(vhandlers)
             f == h.frames_len
             target == h.target
             low == SubSeq(vframes, 1, f)
  <2>1. /\ vmode = "flying" /\ vhandlers # << >> /\ vmode' = "clauses" /\ UNCHANGED <<vthrown, vout>>
        /\ vframes' = Append(SubSeq(vframes, 1, f - 1), target)
      BY <1>19, SameOperators DEF V!Unwind, V!OwnHandler
  <2>2. Match(vframes, vhandlers, Tries(vframes))
      BY <1>1, <2>1 DEF Guarded
  <2>3. /\ f \in 1 .. Len(vframes)
        /\ target \in Paths /\ Len(target) \in 1 .. Len(vframes[f])
        /\ Last(target).kind = "try"
        /\ \A k \in 1 .. Len(target) : target[k] = vframes[f][k]
        /\ \A t \in Tries(vframes) : t[1] < f \/ (t[1] = f /\ t[2] <= Len(target))
      BY <1>1, <2>1, <2>2, LastHandler
  <2> HIDE DEF h, f, target
  <2>4. \A g \in 1 .. Len(vframes) : vframes[g] \in Paths /\ Len(vframes[g]) \in Nat
      BY <1>1, ElementOfSeq, LenProperties DEF Stacks, Paths
  <2>5. /\ \A k \in 1 .. Len(vframes[f]) : vframes[f][k].kind = "try" => k <= Len(target)
        /\ \A g \in f + 1 .. Len(vframes) : \A k \in 1 .. Len(vframes[g]) : vframes[g][k].kind # "try"
    <3>1. ASSUME NEW g \in 1 .. Len(vframes), NEW k \in 1 .. Len(vframes[g]), vframes[g][k].kind = "try"
          PROVE  g < f \/ (g = f /\ k <= Len(target))
      <4>1. <<g, k>> \in Tries(vframes)
          BY <1>1, <3>1, TryIsOpen
      <4> QED BY <2>3, <4>1
    <3>2. f \in Nat /\ top \in Nat
        BY <1>3, <2>3
    <3> QED BY <1>3, <2>3, <3>1, <3>2
  <2>6. I!Innermost(vframes[f], {"try"}) = Len(target)
    <3>1. vframes[f][Len(target)].kind = "try" /\ Len(target) \in 0 .. Len(vframes[f])
        BY <2>3, <2>4 DEF Last
    <3> QED BY <2>3, <2>4, <2>5, <3>1, OnlyInnermost
  <2>7. \A g \in f + 1 .. Len(vframes) : I!Innermost(vframes[g], {"try"}) = 0
    <3> TAKE g \in f + 1 .. Len(vframes)
    <3>1. g \in 1 .. Len(vframes)
        BY <1>3, <2>3
    <3> QED BY <2>4, <2>5, <3>1, NoneOfKind
  <2>8. low \in Stacks /\ low # << >> /\ Flat(low) /\ Lands(low) = Lands(vframes) /\ Landing(low) = Landing(vframes)
      BY <1>1, <1>6, <2>3, <2>7, LandsThrough
  <2>9. Len(low) = f /\ \A i \in 1 .. f : low[i] = vframes[i]
      BY <1>1, <2>3, FramesLeft
  <2> HIDE DEF low
  <2>10. Last(low) = vframes[f]
      BY <2>3, <2>9 DEF Last
  <2>11. I!Upto(Last(low), Len(target)) = target /\ Len(target) > 0
    <3>1. Len(target) \in 0 .. Len(vframes[f]) /\ Len(target) > 0
        BY <2>3, <2>4
    <3>2. /\ I!Upto(vframes[f], Len(target)) \in Paths /\ Len(I!Upto(vframes[f], Len(target))) = Len(target)
          /\ \A k \in 1 .. Len(target) : I!Upto(vframes[f], Len(target))[k] = vframes[f][k]
        BY <2>3, <2>4, <3>1, PathCut
    <3>3. I!Upto(vframes[f], Len(target)) = target
        BY <2>3, <3>2, SamePaths
    <3> QED BY <2>10, <3>1, <3>3
  <2>12. /\ Lands(low) > 0
         /\ Control(Goes(low, I!Upto(Last(low), Len(target)))) = Landing(low)
         /\ Flat(Goes(low, I!Upto(Last(low), Len(target))))
      BY <2>6, <2>8, <2>10, <2>11, LandsHere
  <2>13. vframes' = Goes(low, target)
    <3>1. /\ Goes(low, target) \in Stacks /\ Len(Goes(low, target)) = f /\ Goes(low, target)[f] = target
          /\ \A g \in 1 .. f : g # f => Goes(low, target)[g] = low[g]
      <4>1. /\ Goes(low, target) \in Stacks /\ Len(Goes(low, target)) = Len(low)
            /\ Goes(low, target)[Len(low)] = target
            /\ \A g \in 1 .. Len(low) : g # Len(low) => Goes(low, target)[g] = low[g]
          BY <2>3, <2>8, PathReplaced DEF Goes
      <4> QED BY <2>9, <4>1
    <3>2. Len(vframes') = f /\ vframes'[f] = target /\ \A g \in 1 .. f - 1 : vframes'[g] = vframes[g]
        BY <1>1, <2>1, <2>3, <2>4, CutThere
    <3>3. \A g \in 1 .. Len(vframes') : vframes'[g] = Goes(low, target)[g]
        BY <2>3, <2>9, <3>1, <3>2
    <3> QED BY <1>2, <3>1, <3>2, <3>3, SeqEqual DEF Stacks
  <2>14. Flat(vframes') /\ d = Landing(vframes) /\ Lands(vframes) > 0
      BY <2>8, <2>11, <2>12, <2>13 DEF d
  <2>15. VmCtl' = VmCtl /\ VmMode' = VmMode /\ VmThrown' = VmThrown /\ VmOut' = VmOut
    <3>1. ~VmLost /\ ~VmLost'
        BY <2>1, <2>14 DEF VmLost
    <3> QED BY <2>1, <2>14, <3>1 DEF VmCtl, VmMode, VmThrown, VmOut, d
  <2>16. UNCHANGED V!Interp!vars
      BY <1>1, <1>2, <2>15, VmStutters
  <2> QED BY <2>14, <2>16
<1>20. CASE V!LeaveExecute
  <2>1. /\ vmode = "flying" /\ ~V!OwnHandler /\ Len(vdepths) > 1 /\ UNCHANGED <<vmode, vthrown, vout>>
        /\ vframes' = SubSeq(vframes, 1, Last(vdepths))
      BY <1>20, SameOperators DEF V!LeaveExecute
  <2>2. Last(vdepths) \in 1 .. Len(vframes)
    <3>1. /\ Len(vdepths) \in Nat /\ Len(vdepths) >= 1 /\ Last(vdepths) = vdepths[Len(vdepths)]
          /\ Last(vdepths) \in Nat /\ Last(vdepths) > 0
        BY <1>1, <2>1, DepthTypes
    <3>2. vdepths[Len(vdepths)] < Len(vframes)
        BY <1>1, <3>1 DEF Executes
    <3> QED BY <1>3, <3>1, <3>2 DEF top
  <2>3. Match(vframes, vhandlers, Tries(vframes))
      BY <1>1, <2>1 DEF Guarded
  <2>4. \A t \in Tries(vframes) : t[1] <= Last(vdepths)
      BY <1>1, <2>1, <2>2, <2>3, NoOwnTry
  <2>5. \A g \in Last(vdepths) + 1 .. Len(vframes) : I!Innermost(vframes[g], {"try"}) = 0
    <3> TAKE g \in Last(vdepths) + 1 .. Len(vframes)
    <3>1. g \in 1 .. Len(vframes) /\ ~(g <= Last(vdepths))
        BY <1>3, <2>2
    <3>2. vframes[g] \in Paths
        BY <1>1, <3>1, ElementOfSeq DEF Stacks
    <3>3. ASSUME NEW k \in 1 .. Len(vframes[g]), vframes[g][k].kind = "try" PROVE FALSE
      <4>1. <<g, k>> \in Tries(vframes)
          BY <1>1, <3>1, <3>3, TryIsOpen
      <4> QED BY <2>4, <3>1, <4>1
    <3>4. \A k \in 1 .. Len(vframes[g]) : vframes[g][k].kind \notin {"try"}
        BY <3>3
    <3> QED BY <3>2, <3>4, NoneOfKind
  <2>6. Flat(vframes') /\ Lands(vframes') = Lands(vframes) /\ Landing(vframes') = Landing(vframes)
      BY <1>1, <1>6, <2>1, <2>2, <2>5, LandsThrough
  <2>7. VmCtl' = VmCtl /\ VmMode' = VmMode /\ VmThrown' = VmThrown /\ VmOut' = VmOut
      BY <2>1, <2>6 DEF VmCtl, VmMode, VmThrown, VmOut, VmLost
  <2>8. UNCHANGED V!Interp!vars
      BY <1>1, <1>2, <2>7, VmStutters
  <2> QED BY <2>6, <2>8
<1>21. CASE V!Uncaught
  <2>1. /\ vmode = "flying" /\ ~V!OwnHandler /\ Len(vdepths) = 1
        /\ vmode' = "over" /\ vout' = "uncaught" /\ vthrown' = NoType /\ vframes' = vframes
      BY <1>21, SameOperators DEF V!Uncaught
  <2>2. Match(vframes, vhandlers, Tries(vframes))
      BY <1>1, <2>1 DEF Guarded
  <2>3. Last(vdepths) = 0
      BY <2>1, <1>1 DEF Executes, Last
  <2>4. \A t \in Tries(vframes) : t[1] <= Last(vdepths)
      BY <1>1, <2>1, <2>2, <2>3, NoOwnTry
  <2>5. Tries(vframes) = {}
    <3> SUFFICES ASSUME NEW t \in Tries(vframes) PROVE FALSE
        OBVIOUS
    <3>1. t[1] \in 1 .. Len(vframes)
        BY <1>1, TryIsOpen
    <3> QED BY <1>3, <2>3, <2>4, <3>1
  <2>6. Lands(vframes) = 0
      BY <1>1, <1>6, <2>5, LandsNowhere
  <2>7. Landing(vframes) = << >>
      BY <1>5, <2>6, NothingOf DEF Landing, c
  <2>8. VmCtl' = VmCtl /\ VmMode' = VmMode /\ VmThrown' = VmThrown /\ VmOut' = VmOut
      BY <2>1, <2>6, <2>7 DEF VmCtl, VmMode, VmThrown, VmOut, VmLost
  <2>9. UNCHANGED V!Interp!vars
      BY <1>1, <1>2, <2>8, VmStutters
  <2> QED BY <1>6, <2>1, <2>9
<1>22. CASE V!Catch
  <2> DEFINE cs == Last(path).clauses
             item == I!Clause(cs[I!Min(I!Taken(cs, vthrown))])
  <2>1. /\ vmode = "clauses" /\ I!Taken(cs, vthrown) # {} /\ vmode' = "run" /\ vthrown' = NoType /\ vout' = vout
        /\ vframes' = Goes(vframes, Append(Front(path), item))
      BY <1>4, <1>22, SameOperators, VmMoves DEF V!Catch, V!Taken
  <2>2. path # << >> /\ Last(path) \in I!Items
    <3>1. path # << >>
        BY <1>1, <2>1
    <3>2. Len(path) \in 1 .. Len(path)
        BY <1>3, <3>1, FrontIsCut
    <3> QED BY <1>3, <3>1, <3>2, ElementOfSeq DEF Paths, Last
  <2>3. item \in I!Items /\ item.kind = "clause"
      BY <2>1, <2>2, ClauseIsTaken, BlocksAreItems
  <2> HIDE DEF item, cs
  <2>4. /\ I!Top(c) = Last(path) /\ Flat(vframes')
        /\ d = Append(I!Upto(c, Len(c) - 1), item)
      BY <1>1, <1>6, <2>1, <2>2, <2>3, ClosesLast DEF path, c, d
  <2>5. cs = I!Top(c).clauses
      BY <2>4 DEF cs
  <2>6. V!Interp!Catch
      BY <2>1, <2>4, <2>5, VmReadsCatch DEF c, d, item
  <2> QED BY <2>4, <2>6 DEF V!Interp!Next
<1>23. CASE V!PassOn
  <2>1. /\ vmode = "clauses" /\ I!Taken(Last(path).clauses, vthrown) = {} /\ vmode' = "flying"
        /\ UNCHANGED <<vthrown, vout>> /\ vframes' = Goes(vframes, Front(path))
      BY <1>4, <1>23, SameOperators, VmMoves DEF V!PassOn, V!Taken
  <2>2. path # << >>
      BY <1>1, <2>1
  <2>3. Flat(vframes') /\ I!Top(c) = Last(path) /\ d = I!Upto(c, Len(c) - 1)
      BY <1>1, <1>6, <2>1, <2>2, ClosesLast DEF path, c, d
  <2>4. V!Interp!PassOn
      BY <1>2, <2>1, <2>3, VmReadsPassOn DEF c, d
  <2> QED BY <2>3, <2>4 DEF V!Interp!Next
<1>24. CASE V!Finish
  <2>1. vmode = "run" /\ vframes = << << >> >> /\ vmode' = "over" /\ vout' = "done" /\ UNCHANGED <<vframes, vthrown>>
      BY <1>24 DEF V!Finish
  <2>2. c = << >>
    <3>1. Len(vframes) = 1 /\ vframes[1] = << >>
        BY <2>1
    <3> QED BY <1>1, <3>1, ControlOfOne DEF c
  <2>3. V!Interp!Finish
      BY <2>1, <2>2, VmReadsFinish DEF c
  <2> QED BY <1>6, <2>1, <2>3 DEF V!Interp!Next
<1> QED BY <1>9, <1>10, <1>11, <1>12, <1>13, <1>14, <1>16, <1>17, <1>18, <1>19, <1>20, <1>21, <1>22,
           <1>23, <1>24
        DEF V!Next

LEMMA VmStarts == V!Init => Flat(vframes) /\ V!Interp!Init
<1> SUFFICES ASSUME V!Init PROVE Flat(vframes) /\ V!Interp!Init
    OBVIOUS
<1>1. vframes \in Stacks /\ vframes # << >> /\ Len(vframes) = 1 /\ vframes[1] = << >>
  <2>1. << >> \in Seq(I!Items)
      BY EmptySeq
  <2> QED BY <2>1, StacksAreSequences DEF V!Init
<1>2. Flat(vframes)
  <2>1. Len(vframes[1]) = 0
      BY <1>1, EmptySeq
  <2>2. ASSUME NEW f \in 1 .. Len(vframes), NEW k \in 1 .. Len(vframes[f]) PROVE FALSE
      BY <1>1, <2>1, <2>2
  <2> QED BY <2>2 DEF Flat
<1>3. V!Control(vframes) = << >>
    BY <1>1, ControlOfOne, SameControl
<1> QED BY <1>2, <1>3, SameReadings DEF V!Init, V!Interp!Init

\* The VM catches where the interpreter catches, with the same clause, and ends
\* as it ends: whatever frames a failure leaves, whatever executes are in its
\* way, whatever jumps have left of the handlers.
THEOREM VmAlwaysAsInterp == V!Spec => V!ImplementsInterp
<1>1. V!Init => VInv /\ Flat(vframes) /\ V!Interp!Init
    BY VmInit, VmStarts
<1>2. VInv /\ Flat(vframes) /\ [V!Next]_(V!vars) => VInv' /\ Flat(vframes)' /\ [V!Interp!Next]_(V!Interp!vars)
    BY VmStep, VmMeans
<1> QED BY <1>1, <1>2, PTL DEF V!Spec, V!ImplementsInterp, V!Interp!Spec

\* As run `engines` checks it, beside the other parts.
THEOREM VmImplementsAlways == EnginesSpec => VmImplementsInterp
<1> DEFINE step == NativeNext \/ VmNext \/ SumNext \/ NameNext \/ PoolNext
<1>1. EnginesInit => VInv /\ Flat(vframes) /\ V!Interp!Init
    BY VmInit, VmStarts DEF EnginesInit
<1>2. ASSUME VInv, Flat(vframes), [step]_all
      PROVE  VInv' /\ Flat(vframes)' /\ [part = "vm try" => [V!Interp!Next]_(V!Interp!vars)]_all
  <2>1. [V!Next]_(V!vars)
      BY <1>2 DEF NativeNext, VmNext, SumNext, NameNext, PoolNext, all, vmVars, V!vars
  <2> QED BY <1>2, <2>1, VmStep, VmMeans
<1> QED BY <1>1, <1>2, PTL DEF EnginesSpec, VmImplementsInterp

-------------------------------------------------------------------------------
(* Compiled programs whose tries find a clause at the latest at the one    *)
(* outermost: a failure that unwinds has somewhere to land.                *)
Caught(c) == \A k \in 1 .. Len(c) : c[k].kind = "try" => \E j \in 1 .. k : CatchesAll(c[j])
NRef ==
    /\ NInv /\ Flat(frames)
    /\ out = "none" => Caught(Control(frames)) /\ (Flying => Lands(frames) > 0)

LEMMA CaughtBelow ==
    ASSUME NEW c \in Paths, Caught(c), NEW m \in 0 .. Len(c)
    PROVE  Caught(I!Upto(c, m))
<1> DEFINE d == I!Upto(c, m)
<1>1. Len(c) \in Nat /\ d \in Paths /\ Len(d) = m /\ \A k \in 1 .. m : d[k] = c[k]
    BY PathCut, LenProperties DEF Paths
<1> HIDE DEF d
<1>2. ASSUME NEW k \in 1 .. Len(d), d[k].kind = "try"
      PROVE  \E j \in 1 .. k : CatchesAll(d[j])
  <2>1. k \in 1 .. Len(c) /\ c[k].kind = "try"
      BY <1>1, <1>2
  <2>2. PICK j \in 1 .. k : CatchesAll(c[j])
      BY <2>1 DEF Caught
  <2>3. d[j] = c[j]
      BY <1>1
  <2> QED BY <2>2, <2>3
<1> QED BY <1>2 DEF Caught, d

LEMMA CaughtAbove ==
    ASSUME NEW c \in Paths, Caught(c), NEW item \in I!Items,
           item.kind = "try" => CatchesAll(item) \/ \E j \in 1 .. Len(c) : CatchesAll(c[j])
    PROVE  Caught(Append(c, item))
<1> DEFINE d == Append(c, item)
<1>1. /\ Len(c) \in Nat /\ Len(d) = Len(c) + 1 /\ \A k \in 1 .. Len(c) : d[k] = c[k]
      /\ d[Len(c) + 1] = item
    BY PathGrows, LenProperties DEF Paths
<1> HIDE DEF d
<1>2. ASSUME NEW k \in 1 .. Len(d), d[k].kind = "try"
      PROVE  \E j \in 1 .. k : CatchesAll(d[j])
  <2>1. CASE k \in 1 .. Len(c)
    <3>1. PICK j \in 1 .. k : CatchesAll(c[j])
        BY <1>1, <1>2, <2>1 DEF Caught
    <3>2. d[j] = c[j]
        BY <1>1, <2>1
    <3> QED BY <3>1, <3>2
  <2>2. CASE k \notin 1 .. Len(c)
    <3>1. k = Len(c) + 1
        BY <1>1, <2>2
    <3>2. item.kind = "try"
        BY <1>1, <1>2, <3>1
    <3>3. CASE CatchesAll(item)
        BY <1>1, <3>1, <3>3
    <3>4. CASE \E j \in 1 .. Len(c) : CatchesAll(c[j])
      <4>1. PICK j \in 1 .. Len(c) : CatchesAll(c[j])
          BY <3>4
      <4>2. d[j] = c[j] /\ j \in 1 .. k
          BY <1>1, <3>1
      <4> QED BY <4>1, <4>2
    <3> QED BY <3>2, <3>3, <3>4
  <2> QED BY <2>1, <2>2
<1> QED BY <1>2 DEF Caught, d

\* A try that takes no clause is not one that catches all: another is before it.
LEMMA PassedOn ==
    ASSUME NEW c \in Paths, Caught(c), c # << >>, I!Top(c).kind = "try", NEW v, I!Taken(I!Top(c).clauses, v) = {}
    PROVE  I!Innermost(I!Upto(c, Len(c) - 1), {"try"}) > 0
<1> DEFINE d == I!Upto(c, Len(c) - 1)
<1>1. Len(c) \in Nat /\ Len(c) > 0
    BY EmptySeq, LenProperties DEF Paths
<1>2. Len(c) - 1 \in 0 .. Len(c) /\ Len(c) \in 1 .. Len(c)
    BY <1>1
<1>3. d \in Paths /\ Len(d) = Len(c) - 1 /\ \A k \in 1 .. Len(c) - 1 : d[k] = c[k]
    BY <1>2, PathCut
<1>4. PICK j \in 1 .. Len(c) : CatchesAll(c[j])
    BY <1>2 DEF Caught, I!Top
<1>5. j # Len(c)
  <2> SUFFICES ASSUME CatchesAll(c[Len(c)]) PROVE FALSE
      BY <1>4
  <2> DEFINE cs == c[Len(c)].clauses
  <2>1. NoType \in ToSet(cs)
      BY DEF CatchesAll
  <2>2. PICK i \in DOMAIN cs : cs[i] = NoType
      BY <2>1 DEF ToSet
  <2>3. i \in I!Taken(cs, v)
      BY <2>2 DEF I!Taken, I!Takes
  <2> QED BY <2>3 DEF I!Top
<1>6. j \in 1 .. Len(d) /\ d[j] = c[j]
    BY <1>1, <1>3, <1>5
<1>7. d[j].kind = "try"
    BY <1>4, <1>6 DEF CatchesAll
<1> HIDE DEF d
<1>8. /\ I!Innermost(d, {"try"}) \in 0 .. Len(d)
      /\ \A k \in 1 .. Len(d) : d[k].kind \in {"try"} => k <= I!Innermost(d, {"try"})
    BY <1>3, InnermostIsThere
<1>9. j <= I!Innermost(d, {"try"})
    BY <1>6, <1>7, <1>8
<1> QED BY <1>6, <1>8, <1>9 DEF d

-------------------------------------------------------------------------------
(* A step of the interpreter, read off a compiled program's state.         *)
NCtl == IF out # "none" THEN << >> ELSE IF Flying THEN Landing(frames) ELSE Control(frames)
NLost == Flying /\ Lands(frames) = 0
NMode == IF out # "none" \/ NLost THEN "over" ELSE IF unwinding THEN "clauses" ELSE "run"
NThrown == IF unwinding /\ ~NLost THEN Thrown ELSE NoType
NOut == IF NLost THEN "uncaught" ELSE out

LEMMA NativeReadsAs ==
    ASSUME NCtl' = NCtl, NMode' = NMode, NThrown' = NThrown, NOut' = NOut
    PROVE  UNCHANGED Interp!vars
BY DEF Interp!vars, NCtl, NMode, NThrown, NOut, NLost, InFlight, Lands, Landing

LEMMA NativeReadsOpen ==
    ASSUME NEW item, Running, out' = out, UNCHANGED <<unwinding, hasValue, value, label>>,
           Len(Control(frames)) < MaxNest,
           Control(frames') = Append(Control(frames), item)
    PROVE  Interp!Open(item)
BY DEF Interp!Open, Running, Flying

LEMMA NativeReadsCut ==
    ASSUME Running, out' = out, UNCHANGED <<unwinding, hasValue, value, label>>
    PROVE  /\ Control(frames) # << >> /\ I!Top(Control(frames)).kind # "call"
              /\ Control(frames') = I!Upto(Control(frames), Len(Control(frames)) - 1) => Interp!EndBlock
           /\ I!Innermost(Control(frames), {"call"}) > 0
              /\ Control(frames') = I!Upto(Control(frames), I!Innermost(Control(frames), {"call"}) - 1) => Interp!Return
           /\ I!Innermost(Control(frames), {"loop"}) > I!Innermost(Control(frames), {"call"})
              /\ Control(frames') = I!Upto(Control(frames), I!Innermost(Control(frames), {"loop"}) - 1) => Interp!Break
           /\ I!Innermost(Control(frames), {"loop"}) > I!Innermost(Control(frames), {"call"})
              /\ Control(frames') = I!Upto(Control(frames), I!Innermost(Control(frames), {"loop"})) => Interp!Continue
BY SameReadings DEF Interp!EndBlock, Interp!Return, Interp!Break, Interp!Continue, Interp!InLoop,
   Running, Flying

LEMMA NativeReadsThrow ==
    ASSUME NEW v, Running, ~label, UNCHANGED <<frames, label>>,
           \/ /\ Lands(frames) > 0 /\ unwinding' = TRUE /\ out' = "none"
              /\ (IF hasValue' THEN value' ELSE Str) = v
           \/ /\ Lands(frames) = 0 /\ out' = "uncaught" /\ UNCHANGED unwinding
              /\ I!Upto(Control(frames), 0) = << >>
    PROVE  Interp!Throw(v)
BY SameReadings DEF Interp!Throw, Interp!Raise, Running, Flying, InFlight, Lands, Thrown

LEMMA NativeReadsPassOn ==
    ASSUME out = "none", unwinding, label, ~label', UNCHANGED <<unwinding, hasValue, value, out>>,
           Control(frames') = I!Upto(Control(frames), Len(Control(frames)) - 1),
           I!Taken(I!Top(Control(frames)).clauses, Thrown) = {}
    PROVE  Interp!PassOn
BY SameReadings DEF Interp!PassOn, Interp!Raise, Flying, InFlight, Thrown

LEMMA NativeReadsCatch ==
    ASSUME out = "none", unwinding, label, unwinding' = FALSE, label' = FALSE, out' = out,
           NEW cs, cs = I!Top(Control(frames)).clauses,
           I!Taken(cs, Thrown) # {},
           Control(frames') = Append(I!Upto(Control(frames), Len(Control(frames)) - 1),
                                     I!Clause(cs[I!Min(I!Taken(cs, Thrown))]))
    PROVE  Interp!Catch
BY SameReadings DEF Interp!Catch, Flying

LEMMA NativeReadsFinish ==
    ASSUME Running, out' = "done", UNCHANGED <<unwinding, label>>, Control(frames) = << >>
    PROVE  Interp!Finish
BY SameReadings DEF Interp!Finish, Running, Flying

-------------------------------------------------------------------------------
LEMMA NativeMeans ==
    ASSUME ~JumpsLeaveTries, ~TypedOutermost, NRef, NInv', [Next]_vars
    PROVE  NRef' /\ [Interp!Next]_(Interp!vars)
<1> DEFINE path == Last(frames)
           c == Control(frames)
           d == Control(frames')
           Meant == NRef' /\ [Interp!Next]_(Interp!vars)
<1>1. /\ frames \in Stacks /\ frames # << >> /\ Flat(frames) /\ unwinding \in BOOLEAN /\ label \in BOOLEAN
      /\ value \in Type \cup {NoType}
      /\ (label => unwinding /\ path # << >> /\ Last(path).kind = "try")
    BY StacksAreSequences DEF NRef, NInv, TypeOK, LabelIsATry, Path
<1>2. frames' \in Stacks /\ frames' # << >>
    BY StacksAreSequences DEF NInv, TypeOK
<1>3. Len(frames) \in Nat /\ Len(frames) > 0 /\ path \in Paths /\ Len(path) \in Nat
    BY <1>1, LastPath
<1>4. Path = path
    BY DEF Path
<1>5. c \in Paths /\ Len(c) \in Nat
    BY <1>1, ControlIsAPath, LenProperties DEF Paths
<1>6. Room => Len(c) < MaxNest
    BY DEF Room
<1>7. \A k \in 1 .. Len(path) : path[k].kind # "call"
    BY <1>1, FlatPath
<1>8. out = "none" => Caught(c) /\ (Flying => Lands(frames) > 0)
    BY DEF NRef
<1>9. Running => out = "none" /\ ~label /\ ~unwinding /\ Caught(c)
    BY <1>1, <1>8 DEF Running
\* What there is to show of a step's end.
<1>10. ASSUME Flat(frames'), out' = "none" => Caught(d), out' = "none" /\ unwinding' /\ ~label' => Lands(frames') > 0
       PROVE  NRef'
    BY <1>10 DEF NRef, Flying
<1>11. ASSUME Flat(frames'), out' = "none" => Caught(d), Running, UNCHANGED <<unwinding, hasValue, value, label>>
       PROVE  NRef'
    BY <1>9, <1>10, <1>11
<1>12. CASE UNCHANGED vars
  <2>1. UNCHANGED <<frames, unwinding, hasValue, value, label, out>>
      BY <1>12 DEF vars
  <2>2. NRef'
      BY <1>1, <1>8, <1>10, <2>1 DEF Flying
  <2>3. NCtl' = NCtl /\ NMode' = NMode /\ NThrown' = NThrown /\ NOut' = NOut
      BY <2>1 DEF NCtl, NMode, NThrown, NOut, NLost, Flying, Thrown
  <2>4. UNCHANGED Interp!vars
      BY <2>3, NativeReadsAs
  <2> QED BY <2>2, <2>4
<1> HIDE DEF path, c, d
<1>13. ASSUME NEW cs \in ClauseLists, EnterTry(cs)
       PROVE  Meant
  <2>1. /\ Running /\ Room /\ UNCHANGED <<unwinding, hasValue, value, label, out>>
        /\ frames' = Goes(frames, Append(path, I!Try(cs)))
        /\ CatchesAll(I!Try(cs)) \/ \E block \in ToSet(c) : CatchesAll(block)
      BY <1>4, <1>13, NativeMoves DEF EnterTry, UnwindState, MayTry, c
  <2>2. I!Try(cs) \in I!Items /\ I!Try(cs).kind = "try"
      BY BlocksAreItems, ProgramsAssumption DEF I!TypesAssumption
  <2>3. Flat(frames') /\ d = Append(c, I!Try(cs))
      BY <1>1, <2>1, <2>2, OpensBlock DEF path, c, d
  <2>4. CatchesAll(I!Try(cs)) \/ \E j \in 1 .. Len(c) : CatchesAll(c[j])
    <3>1. DOMAIN c = 1 .. Len(c)
        BY <1>5, LenProperties DEF Paths
    <3> QED BY <2>1, <3>1 DEF ToSet
  <2>5. Caught(d)
      BY <1>5, <1>9, <2>1, <2>2, <2>3, <2>4, CaughtAbove
  <2>6. NRef'
      BY <1>11, <2>1, <2>3, <2>5
  <2>7. Interp!Open(I!Try(cs))
      BY <1>6, <2>1, <2>3, NativeReadsOpen DEF c, d
  <2>8. Interp!Next
      BY <2>7, SameReadings DEF Interp!Next
  <2> QED BY <2>6, <2>8
<1>14. CASE EnterLoop
  <2>1. /\ Running /\ Room /\ UNCHANGED <<unwinding, hasValue, value, label, out>>
        /\ frames' = Goes(frames, Append(path, I!Loop))
      BY <1>4, <1>14, NativeMoves DEF EnterLoop, UnwindState
  <2>2. Flat(frames') /\ d = Append(c, I!Loop)
      BY <1>1, <2>1, BlocksAreItems, OpensBlock DEF path, c, d
  <2>3. Caught(d)
      BY <1>5, <1>9, <2>1, <2>2, BlocksAreItems, CaughtAbove
  <2>4. NRef'
      BY <1>11, <2>1, <2>2, <2>3
  <2>5. Interp!Open(I!Loop)
      BY <1>6, <2>1, <2>2, NativeReadsOpen DEF c, d
  <2>6. Interp!Next
      BY <2>5, SameReadings DEF Interp!Next
  <2> QED BY <2>4, <2>6
<1>15. CASE CallFunction
  <2>1. /\ Running /\ Room /\ UNCHANGED <<unwinding, hasValue, value, label, out>>
        /\ frames' = Append(frames, << >>)
      BY <1>15 DEF CallFunction, UnwindState
  <2>2. Flat(frames') /\ d = Append(c, I!Call)
      BY <1>1, <2>1, EntersFrame DEF c, d
  <2>3. Caught(d)
      BY <1>5, <1>9, <2>1, <2>2, CallIsAnItem, CaughtAbove
  <2>4. NRef'
      BY <1>11, <2>1, <2>2, <2>3
  <2>5. Interp!Open(I!Call)
      BY <1>6, <2>1, <2>2, NativeReadsOpen DEF c, d
  <2>6. Interp!Next
      BY <2>5, SameReadings DEF Interp!Next
  <2> QED BY <2>4, <2>6
<1>16. ASSUME EndTry \/ EndBlock
       PROVE  Meant
  <2>1. /\ Running /\ path # << >> /\ UNCHANGED <<unwinding, hasValue, value, label, out>>
        /\ frames' = Goes(frames, Front(path))
      BY <1>4, <1>16, NativeMoves DEF EndTry, EndBlock, UnwindState
  <2>2. /\ Flat(frames') /\ c # << >> /\ I!Top(c) = Last(path)
        /\ d = I!Upto(c, Len(c) - 1)
      BY <1>1, <2>1, ClosesLast DEF path, c, d
  <2>3. Len(c) - 1 \in 0 .. Len(c)
      BY <1>5, <2>2, EmptySeq, FrontIsCut
  <2>4. Last(path).kind # "call"
    <3>1. Len(path) \in 1 .. Len(path)
        BY <1>3, <2>1, FrontIsCut
    <3> QED BY <1>7, <3>1 DEF Last
  <2>5. Caught(d)
      BY <1>5, <1>9, <2>1, <2>2, <2>3, CaughtBelow
  <2>6. NRef'
      BY <1>11, <2>1, <2>2, <2>5
  <2>7. Interp!EndBlock
      BY <2>1, <2>2, <2>4, NativeReadsCut DEF c, d
  <2> QED BY <2>6, <2>7 DEF Interp!Next
<1>17. CASE Return
  <2>1. /\ Running /\ Len(frames) > 1 /\ UNCHANGED <<unwinding, hasValue, value, label, out>>
        /\ frames' = SubSeq(frames, 1, Len(frames) - 1)
      BY <1>17 DEF Return, UnwindState, Front
  <2>2. Flat(frames') /\ d = I!Upto(c, Len(Base(frames)) - 1) /\ Len(Base(frames)) - 1 \in 0 .. Len(c)
      BY <1>1, <2>1, LeavesFrame DEF c, d
  <2>3. I!Innermost(c, {"call"}) = Len(Base(frames)) /\ Len(Base(frames)) > 0
      BY <1>1, <2>1, InnermostCall DEF c
  <2>4. Caught(d)
      BY <1>5, <1>9, <2>1, <2>2, CaughtBelow
  <2>5. NRef'
      BY <1>11, <2>1, <2>2, <2>4
  <2>6. Interp!Return
      BY <2>1, <2>2, <2>3, NativeReadsCut DEF c, d
  <2> QED BY <2>5, <2>6 DEF Interp!Next
<1>18. ASSUME LoopAt > 0
       PROVE  /\ LoopAt - 1 \in 0 .. Len(path) /\ LoopAt \in 0 .. Len(path)
              /\ I!Innermost(c, {"loop"}) = Len(Base(frames)) + LoopAt
              /\ I!Innermost(c, {"loop"}) > I!Innermost(c, {"call"})
              /\ (Len(Base(frames)) + LoopAt) - 1 = Len(Base(frames)) + (LoopAt - 1)
              /\ Len(Base(frames)) + LoopAt \in 0 .. Len(c)
              /\ Len(Base(frames)) + (LoopAt - 1) \in 0 .. Len(c)
  <2>1. LoopAt = I!Innermost(path, {"loop"})
      BY <1>4 DEF LoopAt
  <2>2. LoopAt \in 0 .. Len(path)
      BY <1>3, <2>1, InnermostIsThere
  <2>3. I!Innermost(c, {"loop"}) = Len(Base(frames)) + LoopAt
      BY <1>1, <1>18, <2>1, InnermostHere DEF path, c
  <2>4. I!Innermost(c, {"call"}) = Len(Base(frames)) /\ Len(Base(frames)) \in Nat
      BY <1>1, InnermostCall DEF c
  <2>5. Len(c) = Len(Base(frames)) + Len(path)
      BY <1>1, <2>2, ClosesBlocks DEF path, c
  <2> QED BY <1>3, <1>18, <2>2, <2>3, <2>4, <2>5
<1>19. CASE Continue
  <2>1. /\ Running /\ LoopAt > 0 /\ UNCHANGED <<unwinding, hasValue, value, label, out>>
        /\ frames' = Goes(frames, I!Upto(path, LoopAt))
      BY <1>4, <1>19, NativeMoves DEF Continue, UnwindState
  <2>2. Flat(frames') /\ d = I!Upto(c, Len(Base(frames)) + LoopAt)
      BY <1>1, <1>18, <2>1, ClosesBlocks DEF path, c, d
  <2>3. Caught(d)
      BY <1>5, <1>9, <1>18, <2>1, <2>2, CaughtBelow
  <2>4. NRef'
      BY <1>11, <2>1, <2>2, <2>3
  <2>5. Interp!Continue
      BY <1>18, <2>1, <2>2, NativeReadsCut DEF c, d
  <2> QED BY <2>4, <2>5 DEF Interp!Next
<1>20. CASE Break
  <2>1. /\ Running /\ LoopAt > 0 /\ UNCHANGED <<unwinding, hasValue, value, label, out>>
        /\ frames' = Goes(frames, I!Upto(path, LoopAt - 1))
      BY <1>4, <1>20, NativeMoves DEF Break, UnwindState
  <2>2. Flat(frames') /\ d = I!Upto(c, Len(Base(frames)) + (LoopAt - 1))
      BY <1>1, <1>18, <2>1, ClosesBlocks DEF path, c, d
  <2>3. Caught(d)
      BY <1>5, <1>9, <1>18, <2>1, <2>2, CaughtBelow
  <2>4. NRef'
      BY <1>11, <2>1, <2>2, <2>3
  <2>5. Interp!Break
      BY <1>18, <2>1, <2>2, NativeReadsCut DEF c, d
  <2> QED BY <2>4, <2>5 DEF Interp!Next
\* The count tells keal_panic whether there is a try to land at.
<1>21. Running => (depth > 0 <=> Lands(frames) > 0)
  <2> SUFFICES ASSUME Running PROVE depth > 0 <=> Lands(frames) > 0
      OBVIOUS
  <2>1. IsFiniteSet(Tries(frames)) /\ Cardinality(Tries(frames)) \in Nat
      BY <1>1, CountedTries
  <2>2. depth = Cardinality(Tries(frames))
      BY <1>9, <2>1, OpenTriesAreTries DEF NRef, NInv, DepthCountsOpenTries
  <2>3. Lands(frames) \in Nat
      BY <1>5, InnermostIsThere DEF Lands, c
  <2>4. depth = 0 <=> Tries(frames) = {}
      BY <2>1, <2>2, FS_EmptySet
  <2>5. Lands(frames) = 0 <=> Tries(frames) = {}
      BY <1>1, LandsNowhere
  <2> QED BY <2>1, <2>2, <2>3, <2>4, <2>5
<1>22. ASSUME NEW v \in Type, Running, UNCHANGED <<frames, label>>,
              IF depth > 0 THEN unwinding' = TRUE /\ out' = out /\ (IF hasValue' THEN value' ELSE Str) = v
                           ELSE out' = "uncaught" /\ UNCHANGED unwinding
       PROVE  Meant
  <2>1. d = c /\ Flat(frames') /\ Lands(frames') = Lands(frames) /\ Lands(frames) \in Nat
    <3>1. Lands(frames) \in Nat
        BY <1>5, InnermostIsThere DEF Lands, c
    <3> QED BY <1>1, <1>22, <3>1 DEF c, d
  <2>2. NRef'
      BY <1>9, <1>10, <1>21, <1>22, <2>1
  <2>3. I!Upto(c, 0) = << >>
      BY <1>5, NothingOf
  <2>4. \/ /\ Lands(frames) > 0 /\ unwinding' = TRUE /\ out' = "none"
           /\ (IF hasValue' THEN value' ELSE Str) = v
        \/ /\ Lands(frames) = 0 /\ out' = "uncaught" /\ UNCHANGED unwinding
           /\ I!Upto(Control(frames), 0) = << >>
      BY <1>9, <1>21, <1>22, <2>1, <2>3 DEF c
  <2>5. Interp!Throw(v)
      BY <1>9, <1>22, <2>4, NativeReadsThrow
  <2> QED BY <2>2, <2>5 DEF Interp!Next
<1>23. CASE Panic
  <2>1. Str \in Type
      BY ProgramsAssumption DEF I!TypesAssumption
  <2>2. /\ Running /\ UNCHANGED <<frames, label>>
        /\ IF depth > 0 THEN unwinding' = TRUE /\ out' = out /\ (IF hasValue' THEN value' ELSE Str) = Str
                        ELSE out' = "uncaught" /\ UNCHANGED unwinding
      BY <1>23 DEF Panic
  <2> QED BY <1>22, <2>1, <2>2
<1>24. ASSUME NEW v \in Type \ {Str}, ThrowValue(v)
       PROVE  Meant
  <2>1. /\ Running /\ UNCHANGED <<frames, label>>
        /\ IF depth > 0 THEN unwinding' = TRUE /\ out' = out /\ (IF hasValue' THEN value' ELSE Str) = v
                        ELSE out' = "uncaught" /\ UNCHANGED unwinding
      BY <1>24 DEF ThrowValue
  <2> QED BY <1>22, <2>1
\* The landing does not move while the failure unwinds to it.
<1>25. ASSUME Flying, UNCHANGED <<unwinding, hasValue, value, out>>, Flat(frames'),
              IF label' THEN d = Landing(frames)
                        ELSE Lands(frames') = Lands(frames) /\ Landing(frames') = Landing(frames),
              Caught(d)
       PROVE  Meant
  <2>1. out = "none" /\ unwinding /\ ~label /\ Lands(frames) > 0
      BY <1>8, <1>25 DEF Flying
  <2>2. NRef'
      BY <1>10, <1>25, <2>1
  <2>3. ~NLost /\ ~NLost'
      BY <1>25, <2>1 DEF NLost, Flying
  <2>4. NCtl' = NCtl
      BY <1>25, <2>1 DEF NCtl, Flying, d
  <2>5. NMode' = NMode /\ NThrown' = NThrown /\ NOut' = NOut
      BY <1>25, <2>1, <2>3 DEF NMode, NThrown, NOut, Thrown
  <2>6. UNCHANGED Interp!vars
      BY <2>4, <2>5, NativeReadsAs
  <2> QED BY <2>2, <2>6
<1>26. CASE UnwindToCatch
  <2>1. /\ Flying /\ TryAt > 0 /\ label' = TRUE /\ UNCHANGED <<unwinding, hasValue, value, out>>
        /\ frames' = Goes(frames, I!Upto(path, TryAt)) /\ TryAt = I!Innermost(path, {"try"})
      BY <1>4, <1>26, NativeMoves DEF UnwindToCatch, Unwinding, Flying, TryAt
  <2>2. Flat(frames') /\ d = Landing(frames)
      BY <1>1, <2>1, LandsHere DEF path, d
  <2>3. Lands(frames) \in 0 .. Len(c) /\ d = I!Upto(c, Lands(frames))
      BY <1>5, <2>2, InnermostIsThere DEF Lands, Landing, c
  <2>4. Caught(d)
      BY <1>5, <1>8, <2>1, <2>3, CaughtBelow DEF Flying
  <2> QED BY <1>25, <2>1, <2>2, <2>4
<1>27. CASE UnwindFrame
  <2>1. /\ Flying /\ TryAt = 0 /\ TryAt = I!Innermost(path, {"try"}) /\ out = "none"
        /\ UNCHANGED <<unwinding, hasValue, value, label>>
      BY <1>4, <1>27 DEF UnwindFrame, Unwinding, Flying, TryAt, UnwindState
  <2>2. ~label'
      BY <2>1 DEF Flying
  <2>3. CASE Len(frames) > 1
    <3>1. frames' = SubSeq(frames, 1, Len(frames) - 1) /\ out' = out
        BY <1>27, <2>3 DEF UnwindFrame, Front
    <3>2. Lands(frames') = Lands(frames) /\ Landing(frames') = Landing(frames)
        BY <1>1, <2>1, <2>3, <3>1, LandsBelow DEF path
    <3>3. Flat(frames') /\ d = I!Upto(c, Len(Base(frames)) - 1) /\ Len(Base(frames)) - 1 \in 0 .. Len(c)
        BY <1>1, <2>3, <3>1, LeavesFrame DEF c, d
    <3>4. Caught(d)
        BY <1>5, <1>8, <2>1, <3>3, CaughtBelow
    <3> QED BY <1>25, <2>1, <2>2, <3>1, <3>2, <3>3, <3>4
  <2>4. CASE ~(Len(frames) > 1)
    <3>1. Len(frames) = 1
      <4>1. \A k \in Nat : k > 0 /\ ~(k > 1) => k = 1
          OBVIOUS
      <4> QED BY <1>3, <2>4, <4>1
    <3>2. c = path
        BY <1>1, <3>1, ControlOfOne DEF c, path, Last
    <3>3. Lands(frames) = 0
        BY <2>1, <3>2 DEF Lands, c
    <3> QED BY <1>8, <2>1, <3>3
  <2> QED BY <2>3, <2>4
<1>28. ASSUME out = "none", label
       PROVE  /\ unwinding /\ path # << >> /\ Last(path) \in I!Items /\ Last(path).kind = "try"
              /\ c # << >> /\ I!Top(c) = Last(path) /\ Len(c) - 1 \in 0 .. Len(c) /\ Caught(c)
  <2>1. Len(path) \in 1 .. Len(path)
      BY <1>1, <1>3, <1>28, FrontIsCut
  <2>2. Last(path) \in I!Items
      BY <1>3, <2>1, ElementOfSeq DEF Paths, Last
  <2>3. c # << >> /\ I!Top(c) = Last(path)
      BY <1>1, <1>28, ClosesLast DEF path, c
  <2>4. Len(c) - 1 \in 0 .. Len(c)
      BY <1>5, <2>3, FrontIsCut
  <2> QED BY <1>1, <1>8, <1>28, <2>2, <2>3, <2>4
<1>29. CASE Catch
  <2> DEFINE cs == Last(path).clauses
             item == I!Clause(cs[I!Min(I!Taken(cs, Thrown))])
  <2>1. /\ out = "none" /\ label /\ I!Taken(cs, Thrown) # {} /\ out' = out /\ unwinding' = FALSE /\ label' = FALSE
        /\ frames' = Goes(frames, Append(Front(path), item))
      BY <1>4, <1>29, NativeMoves DEF Catch, Taken, FirstOf
  <2>2. item \in I!Items /\ item.kind = "clause"
      BY <1>28, <2>1, ClauseIsTaken, BlocksAreItems
  <2> HIDE DEF item, cs
  <2>3. Flat(frames') /\ d = Append(I!Upto(c, Len(c) - 1), item)
      BY <1>1, <1>28, <2>1, <2>2, ClosesLast DEF path, c, d
  <2>4. Caught(I!Upto(c, Len(c) - 1)) /\ I!Upto(c, Len(c) - 1) \in Paths
      BY <1>5, <1>28, <2>1, CaughtBelow, PathCut
  <2>5. Caught(d)
      BY <2>2, <2>3, <2>4, CaughtAbove
  <2>6. NRef'
      BY <1>10, <2>1, <2>3, <2>5
  <2>7. cs = I!Top(c).clauses /\ unwinding
      BY <1>28, <2>1 DEF cs
  <2>8. Interp!Catch
      BY <2>1, <2>3, <2>7, NativeReadsCatch DEF c, d, item
  <2> QED BY <2>6, <2>8 DEF Interp!Next
<1>30. CASE PassOn
  <2>1. /\ out = "none" /\ label /\ I!Taken(Last(path).clauses, Thrown) = {} /\ ~label'
        /\ UNCHANGED <<unwinding, hasValue, value, out>> /\ frames' = Goes(frames, Front(path))
      BY <1>4, <1>30, NativeMoves DEF PassOn, Taken
  <2>2. Flat(frames') /\ d = I!Upto(c, Len(c) - 1)
      BY <1>1, <1>28, <2>1, ClosesLast DEF path, c, d
  <2>3. Lands(frames') > 0
    <3>1. I!Innermost(I!Upto(c, Len(c) - 1), {"try"}) > 0
        BY <1>5, <1>28, <2>1, PassedOn
    <3> QED BY <2>2, <3>1 DEF Lands, d
  <2>4. Caught(d)
      BY <1>5, <1>28, <2>1, <2>2, CaughtBelow
  <2>5. NRef'
      BY <1>10, <2>2, <2>3, <2>4
  <2>6. Interp!PassOn
      BY <1>28, <2>1, <2>2, NativeReadsPassOn DEF c, d
  <2> QED BY <2>5, <2>6 DEF Interp!Next
<1>31. CASE Finish
  <2>1. Running /\ frames = << << >> >> /\ out' = "done" /\ UNCHANGED <<frames, unwinding, label>>
      BY <1>31 DEF Finish, UnwindState
  <2>2. c = << >>
    <3>1. Len(frames) = 1 /\ frames[1] = << >>
        BY <2>1
    <3> QED BY <1>1, <3>1, ControlOfOne DEF c
  <2>3. Interp!Finish
      BY <2>1, <2>2, NativeReadsFinish DEF c
  <2>4. NRef'
      BY <1>1, <1>10, <2>1
  <2> QED BY <2>3, <2>4 DEF Interp!Next
<1> QED BY <1>12, <1>13, <1>14, <1>15, <1>16, <1>17, <1>19, <1>20, <1>23, <1>24, <1>26, <1>27,
           <1>29, <1>30, <1>31
        DEF Next

LEMMA NativeStarts == Init => NRef /\ Interp!Init
<1> SUFFICES ASSUME Init PROVE NRef /\ Interp!Init
    OBVIOUS
<1>1. frames \in Stacks /\ frames # << >> /\ Len(frames) = 1 /\ frames[1] = << >>
  <2>1. << >> \in Seq(I!Items)
      BY EmptySeq
  <2> QED BY <2>1, StacksAreSequences DEF Init
<1>2. Flat(frames)
  <2>1. Len(frames[1]) = 0
      BY <1>1, EmptySeq
  <2>2. ASSUME NEW f \in 1 .. Len(frames), NEW k \in 1 .. Len(frames[f]) PROVE FALSE
      BY <1>1, <2>1, <2>2
  <2> QED BY <2>2 DEF Flat
<1>3. Control(frames) = << >>
    BY <1>1, ControlOfOne
<1>4. Caught(Control(frames))
    BY <1>3, EmptySeq DEF Caught
<1>5. NRef
    BY <1>2, <1>4, NativeInit DEF NRef, Init, Flying
<1>6. Interp!Init
    BY <1>3, SameReadings DEF Init, Interp!Init, Flying
<1> QED BY <1>5, <1>6

\* A compiled program catches where the interpreter catches, with the same
\* clause, and ends as it ends, of the programs its `try` is right for: no jump
\* leaves a try's body (src/src/cbackend.rs:2780 does not count it out), and
\* a failure in a try finds a clause at the latest at the outermost one (where
\* src/src/cbackend.rs:2776 passes it on, nobody catches it and nobody tells it).
THEOREM NativeAlwaysAsInterp ==
    ASSUME ~JumpsLeaveTries, ~TypedOutermost
    PROVE  Spec => ImplementsInterp
<1>1. Init => NRef /\ Interp!Init
    BY NativeStarts
<1>2. NRef /\ [Next]_vars => NRef' /\ [Interp!Next]_(Interp!vars)
    BY NativeStep, NativeMeans DEF NRef
<1> QED BY <1>1, <1>2, PTL DEF Spec, ImplementsInterp, Interp!Spec

\* As run `engines` checks it, beside the other parts.
THEOREM NativeImplementsAlways ==
    ASSUME ~JumpsLeaveTries, ~TypedOutermost
    PROVE  EnginesSpec => NativeImplementsInterp
<1> DEFINE step == NativeNext \/ VmNext \/ SumNext \/ NameNext \/ PoolNext
<1>1. EnginesInit => NRef /\ Interp!Init
    BY NativeStarts DEF EnginesInit
<1>2. ASSUME NRef, [step]_all
      PROVE  NRef' /\ [part = "native try" => [Interp!Next]_(Interp!vars)]_all
  <2>1. [Next]_vars
      BY <1>2 DEF NativeNext, VmNext, SumNext, NameNext, PoolNext, all
  <2>2. NInv'
      BY <1>2, <2>1, NativeStep DEF NRef
  <2> QED BY <1>2, <2>1, <2>2, NativeMeans
<1> QED BY <1>1, <1>2, PTL DEF EnginesSpec, NativeImplementsInterp
--------------------------------------------------------------------------------
(* The pool.  ActorPoolProofs proves the pool by itself: here it runs      *)
(* beside the other parts, and its definitions are reached by two names,   *)
(* P! as the run has them and PP! as they are proved about.                *)
PP == INSTANCE ActorPoolProofs WITH outcome <- poutcome

LEMMA SameCount == \A S : P!Cardinality(S) = PP!Cardinality(S)
BY DEF P!Cardinality, PP!Cardinality

LEMMA SameGroups ==
    /\ P!vars = PP!vars /\ P!world = PP!world /\ P!state = PP!state /\ P!local = PP!local
    /\ P!vars' = PP!vars' /\ P!world' = PP!world' /\ P!state' = PP!state' /\ P!local' = PP!local'
<1>1. P!vars = PP!vars /\ P!world = PP!world /\ P!state = PP!state /\ P!local = PP!local
    BY DEF P!vars, PP!vars, P!world, PP!world, P!state, PP!state, P!local, PP!local
<1>2. P!vars' = PP!vars' /\ P!world' = PP!world' /\ P!state' = PP!state' /\ P!local' = PP!local'
    BY DEF P!vars, PP!vars, P!world, PP!world, P!state, PP!state, P!local, PP!local
<1> QED BY <1>1, <1>2

LEMMA SameHelpers ==
    /\ P!Spawned = PP!Spawned /\ P!Actor = PP!Actor /\ P!Thread = PP!Thread /\ P!Drained = PP!Drained
    /\ P!RunOver = PP!RunOver /\ P!Joined = PP!Joined /\ P!Created = PP!Created /\ P!WorkerCount = PP!WorkerCount
    /\ P!Over = PP!Over /\ P!NothingLeft = PP!NothingLeft /\ P!Broadcast = PP!Broadcast
BY DEF P!Spawned, PP!Spawned, P!Actor, PP!Actor, P!Thread, PP!Thread, P!Drained, PP!Drained,
   P!RunOver, PP!RunOver, P!Joined, PP!Joined, P!Created, PP!Created, P!WorkerCount,
   PP!WorkerCount, P!Over, PP!Over, P!NothingLeft, PP!NothingLeft, P!NothingToTake,
   PP!NothingToTake, P!Takeable, PP!Takeable, P!Broadcast, PP!Broadcast

LEMMA SameMain == P!MainStep <=> PP!MainStep
BY SameCount, SameGroups, SameHelpers DEF P!MainStep, PP!MainStep, P!Spawn, PP!Spawn, P!MainSend,
   PP!MainSend, P!CallRun, PP!CallRun, P!RunNobody, PP!RunNobody, P!RunInit, PP!RunInit, P!Create,
   PP!Create, P!CreateFails, PP!CreateFails, P!MainLock, PP!MainLock, P!RunStops, PP!RunStops,
   P!RunWaits, PP!RunWaits, P!RunReturns, PP!RunReturns, P!RunRethrows, PP!RunRethrows, P!Push,
   PP!Push

LEMMA SameEnv == P!EnvStep <=> PP!EnvStep
BY SameGroups, SameHelpers DEF P!EnvStep, PP!EnvStep, P!PeerSend, PP!PeerSend, P!SpuriousWake,
   PP!SpuriousWake, P!Push, PP!Push

LEMMA SameWorker == \A w : P!WorkerStep(w) <=> PP!WorkerStep(w)
<1> TAKE w
<1>1. \A i : P!Take(w, i) <=> PP!Take(w, i)
  <2>1. \A i : P!FirstTakeable(i) <=> PP!FirstTakeable(i)
      BY SameHelpers DEF P!FirstTakeable, PP!FirstTakeable, P!Takeable, PP!Takeable, P!Distance,
         PP!Distance
  <2>2. \A i : P!ScanAfter(i) = PP!ScanAfter(i)
      BY DEF P!ScanAfter, PP!ScanAfter
  <2> QED BY <2>1, <2>2, SameGroups, SameHelpers DEF P!Take, PP!Take
<1>2. (P!EnterLoop(w) <=> PP!EnterLoop(w)) /\ (P!Leave(w) <=> PP!Leave(w)) /\ (P!Sleep(w) <=> PP!Sleep(w))
    BY SameGroups, SameHelpers DEF P!EnterLoop, PP!EnterLoop, P!Leave, PP!Leave, P!Sleep, PP!Sleep,
       P!NothingToTake, PP!NothingToTake, P!Takeable, PP!Takeable
<1>3. \A i, m : P!HandlerSend(w, i, m) <=> PP!HandlerSend(w, i, m)
    BY SameGroups, SameHelpers DEF P!HandlerSend, PP!HandlerSend, P!Push, PP!Push
<1>4. /\ P!HandlerReturn(w) <=> PP!HandlerReturn(w)
      /\ P!HandlerUnwinds(w) <=> PP!HandlerUnwinds(w)
      /\ P!PanicExits(w) <=> PP!PanicExits(w)
      /\ P!CarryPanic(w) <=> PP!CarryPanic(w)
    BY SameGroups, SameHelpers DEF P!HandlerReturn, PP!HandlerReturn, P!HandlerUnwinds,
       PP!HandlerUnwinds, P!PanicExits, PP!PanicExits, P!CarryPanic, PP!CarryPanic
<1>5. P!Finish(w) <=> PP!Finish(w)
    BY SameGroups, SameHelpers DEF P!Finish, PP!Finish, P!LetGo, PP!LetGo
<1> QED BY <1>1, <1>2, <1>3, <1>4, <1>5, SameHelpers DEF P!WorkerStep, PP!WorkerStep

LEMMA SameNext == P!Next <=> PP!Next
BY SameGroups, SameHelpers, SameMain, SameEnv, SameWorker DEF P!Next, PP!Next

LEMMA SameInit == P!Init <=> PP!Init
BY DEF P!Init, PP!Init, P!Actor, PP!Actor, P!Spawned, PP!Spawned, P!Thread, PP!Thread

LEMMA SameModel ==
    /\ P!Model!AInit <=> PP!Model!AInit
    /\ P!Model!ANext <=> PP!Model!ANext
    /\ UNCHANGED P!Model!avars <=> UNCHANGED PP!Model!avars
BY DEF P!Model!AInit, PP!Model!AInit, P!Model!ANext, PP!Model!ANext, P!Model!avars, PP!Model!avars,
   P!Model!Send, PP!Model!Send, P!Model!RunBegins, PP!Model!RunBegins, P!Model!Begin,
   PP!Model!Begin, P!Model!End, PP!Model!End, P!Model!Panic, PP!Model!Panic, P!Model!RunReturns,
   PP!Model!RunReturns, P!Model!RunRethrows, PP!Model!RunRethrows, P!Model!Idle, PP!Model!Idle,
   P!Model!Quiescent, PP!Model!Quiescent, P!Handling, PP!Handling, P!Inside, PP!Inside, P!Actor,
   PP!Actor

LEMMA PoolMayRun == PP!BoundsAssumption /\ PP!ThreadsAssumption
BY PoolAssumption DEF P!BoundsAssumption, PP!BoundsAssumption, P!ThreadsAssumption,
   PP!ThreadsAssumption, P!IsFiniteSet, PP!IsFiniteSet

\* The pool is a schedule of the actor model as run `engines` checks it, beside
\* the other parts (ActorPoolProofs!PoolImplementsActorModel).
THEOREM PoolImplementsAlways == EnginesSpec => PoolImplementsModel
<1> DEFINE step == NativeNext \/ VmNext \/ SumNext \/ NameNext \/ PoolNext
<1>1. EnginesInit => PP!RInv /\ P!Model!AInit
  <2> SUFFICES ASSUME EnginesInit PROVE PP!RInv /\ P!Model!AInit
      OBVIOUS
  <2>1. PP!Init
      BY SameInit DEF EnginesInit
  <2>2. PP!RInv
      BY <2>1, PoolMayRun, PP!InitRInv
  <2>3. P!Model!AInit
      BY <2>1, SameModel, PoolMayRun, PP!InitIsIdle
  <2> QED BY <2>2, <2>3
<1>2. ASSUME PP!RInv, [step]_all
      PROVE  PP!RInv' /\ [part = "pool" => [P!Model!ANext]_(P!Model!avars)]_all
  <2>1. [PP!Next]_(PP!vars)
    <3>1. [P!Next]_(P!vars)
        BY <1>2 DEF NativeNext, VmNext, SumNext, NameNext, PoolNext, all, poolVars, P!vars
    <3> QED BY <3>1, SameNext, SameGroups
  <2>2. PP!RInv'
      BY <1>2, <2>1, PoolMayRun, PP!NextKeepsR
  <2>3. [PP!Model!ANext]_(PP!Model!avars)
      BY <1>2, <2>1, <2>2, PoolMayRun, PP!StepRefines
  <2>4. [P!Model!ANext]_(P!Model!avars)
      BY <2>3, SameModel
  <2> QED BY <2>2, <2>4
<1> QED BY <1>1, <1>2, PTL DEF EnginesSpec, PoolImplementsModel
--------------------------------------------------------------------------------
(* Names.  NamesProofs proves by itself what the VM's places mean: here too   *)
(* its definitions are reached by two names, N! as the run has them and NP!   *)
(* as they are proved about.                                                  *)
NP == INSTANCE NamesProofs WITH frames <- nframes

\* The operators of the library.
LEMMA SameLibrary ==
    /\ \A S : N!Max(S) = NP!Max(S)
    /\ \A S : N!Min(S) = NP!Min(S)
    /\ \A S : N!Cardinality(S) = NP!Cardinality(S)
    /\ \A S : N!ConnectionsIn(S) = NP!ConnectionsIn(S)
<1>1. \A S : N!Max(S) = NP!Max(S)
    BY DEF N!Max, NP!Max
<1>2. \A S : N!Min(S) = NP!Min(S)
    BY DEF N!Min, NP!Min
<1>3. \A S : N!Cardinality(S) = NP!Cardinality(S)
    BY DEF N!Cardinality, NP!Cardinality
<1>4. \A S : N!ConnectionsIn(S) = NP!ConnectionsIn(S)
    BY DEF N!ConnectionsIn, NP!ConnectionsIn
<1> QED BY <1>1, <1>2, <1>3, <1>4

\* The text, and what the checker reads in it.
LEMMA SameText ==
    /\ N!Binders = NP!Binders
    /\ N!Uses = NP!Uses
    /\ N!Brackets = NP!Brackets
    /\ N!Functions = NP!Functions
    /\ N!Token = NP!Token
    /\ \A i : N!Op(i) = NP!Op(i)
    /\ \A i : N!Name(i) = NP!Name(i)
    /\ N!Text = NP!Text
    /\ \A i : N!Depth(i) = NP!Depth(i)
    /\ \A j : N!Closes(j) = NP!Closes(j)
    /\ \A i : N!Around(i) = NP!Around(i)
    /\ \A i : N!Home(i) = NP!Home(i)
    /\ \A i : N!FunOf(i) = NP!FunOf(i)
    /\ \A i : N!ScopeOf(i) = NP!ScopeOf(i)
    /\ \A j, m : N!Binds(j, m) <=> NP!Binds(j, m)
    /\ \A i, m : N!InScope(i, m) = NP!InScope(i, m)
    /\ \A S : N!Newest(S) = NP!Newest(S)
    /\ \A i : N!Meaning(i) = NP!Meaning(i)
<1>1. N!Binders = NP!Binders
    BY DEF N!Binders, NP!Binders
<1>2. N!Uses = NP!Uses
    BY DEF N!Uses, NP!Uses
<1>3. N!Brackets = NP!Brackets
    BY DEF N!Brackets, NP!Brackets
<1>4. N!Functions = NP!Functions
    BY DEF N!Functions, NP!Functions
<1>5. N!Token = NP!Token
    BY DEF N!Token, NP!Token
<1>6. \A i : N!Op(i) = NP!Op(i)
    BY DEF N!Op, NP!Op
<1>7. \A i : N!Name(i) = NP!Name(i)
    BY DEF N!Name, NP!Name
<1>8. N!Text = NP!Text
    BY DEF N!Text, NP!Text
<1>9. \A i : N!Depth(i) = NP!Depth(i)
    BY <1>3, <1>6, SameLibrary DEF N!Depth, NP!Depth
<1>10. \A j : N!Closes(j) = NP!Closes(j)
    BY <1>6, <1>9, SameLibrary DEF N!Closes, NP!Closes
<1>11. \A i : N!Around(i) = NP!Around(i)
    BY <1>3, <1>6, <1>10 DEF N!Around, NP!Around
<1>12. \A i : N!Home(i) = NP!Home(i)
    BY <1>4, <1>6, <1>11 DEF N!Home, NP!Home
<1>13. \A i : N!FunOf(i) = NP!FunOf(i)
    BY <1>12, SameLibrary DEF N!FunOf, NP!FunOf
<1>14. \A i : N!ScopeOf(i) = NP!ScopeOf(i)
    BY <1>6, <1>8, <1>11, SameLibrary DEF N!ScopeOf, NP!ScopeOf
<1>15. \A j, m : N!Binds(j, m) <=> NP!Binds(j, m)
    BY <1>1, <1>6, <1>7, <1>8 DEF N!Binds, NP!Binds
<1>16. \A i, m : N!InScope(i, m) = NP!InScope(i, m)
    BY <1>6, <1>11, <1>14, <1>15 DEF N!InScope, NP!InScope
<1>17. \A S : N!Newest(S) = NP!Newest(S)
    BY SameLibrary DEF N!Newest, NP!Newest
<1>18. \A i : N!Meaning(i) = NP!Meaning(i)
    BY <1>7, <1>16, <1>17 DEF N!Meaning, NP!Meaning
<1> QED BY <1>1, <1>2, <1>3, <1>4, <1>5, <1>6, <1>7, <1>8, <1>9, <1>10, <1>11, <1>12, <1>13, <1>14,
           <1>15, <1>16, <1>17, <1>18

\* What is written next.
LEMMA SameWriting ==
    /\ \A t : N!Allowed(t) <=> NP!Allowed(t)
    /\ \A t, names : N!InOrder(t, names) <=> NP!InOrder(t, names)
    /\ \A t : N!Canonical(t) <=> NP!Canonical(t)
    /\ \A t : N!Cost(t) = NP!Cost(t)
    /\ \A t : N!Write(t) <=> NP!Write(t)
<1>1. \A t : N!Allowed(t) <=> NP!Allowed(t)
    BY SameLibrary, SameText DEF N!Allowed, NP!Allowed
<1>2. \A t, names : N!InOrder(t, names) <=> NP!InOrder(t, names)
    BY SameText DEF N!InOrder, NP!InOrder
<1>3. \A t : N!Canonical(t) <=> NP!Canonical(t)
    BY <1>2 DEF N!Canonical, NP!Canonical
<1>4. \A t : N!Cost(t) = NP!Cost(t)
    BY SameText DEF N!Cost, NP!Cost
<1>5. \A t : N!Write(t) <=> NP!Write(t)
    BY <1>1, <1>3, <1>4, SameText DEF N!Write, NP!Write
<1> QED BY <1>1, <1>2, <1>3, <1>4, <1>5

\* The compiler's places.
LEMMA SamePlaces ==
    /\ \A j : N!InExpression(j) <=> NP!InExpression(j)
    /\ \A j : N!Unseen(j) <=> NP!Unseen(j)
    /\ \A i : N!Mentions(i) <=> NP!Mentions(i)
    /\ \A f : N!NamesUsedByNested(f) = NP!NamesUsedByNested(f)
    /\ \A d : N!Boxed(d) <=> NP!Boxed(d)
    /\ \A d : N!Locals(d) = NP!Locals(d)
    /\ \A d : N!Released(d) = NP!Released(d)
    /\ \A d : N!LoopsBefore(d) = NP!LoopsBefore(d)
    /\ \A d : N!LoopSlots(d) = NP!LoopSlots(d)
    /\ \A d : N!NextSlot(d) = NP!NextSlot(d)
    /\ \A i, m : N!Declared(i, m) = NP!Declared(i, m)
    /\ \A kind, k : N!Place(kind, k) = NP!Place(kind, k)
    /\ \A m : N!GlobalOrNone(m) = NP!GlobalOrNone(m)
    /\ \A d : N!Own(d) = NP!Own(d)
    /\ \A i : N!Resolve(i) = NP!Resolve(i)
    /\ \A g : N!Captures(g) = NP!Captures(g)
<1>1. \A j : N!InExpression(j) <=> NP!InExpression(j)
    BY SameText DEF N!InExpression, NP!InExpression
<1>2. \A j : N!Unseen(j) <=> NP!Unseen(j)
    BY <1>1, SameText DEF N!Unseen, NP!Unseen
<1>3. \A i : N!Mentions(i) <=> NP!Mentions(i)
    BY <1>1, SameText DEF N!Mentions, NP!Mentions
<1>4. \A f : N!NamesUsedByNested(f) = NP!NamesUsedByNested(f)
    BY <1>2, <1>3, SameText DEF N!NamesUsedByNested, NP!NamesUsedByNested
<1>5. \A d : N!Boxed(d) <=> NP!Boxed(d)
    BY <1>4, SameText DEF N!Boxed, NP!Boxed
<1>6. \A d : N!Locals(d) = NP!Locals(d)
    BY <1>5, SameText DEF N!Locals, NP!Locals
<1>7. \A d : N!Released(d) = NP!Released(d)
    BY <1>6, SameText DEF N!Released, NP!Released
<1>8. \A d : N!LoopsBefore(d) = NP!LoopsBefore(d)
    BY SameText DEF N!LoopsBefore, NP!LoopsBefore
<1>9. \A d : N!LoopSlots(d) = NP!LoopSlots(d)
    BY <1>5, <1>8, SameLibrary DEF N!LoopSlots, NP!LoopSlots
<1>10. \A d : N!NextSlot(d) = NP!NextSlot(d)
    BY <1>6, <1>7, <1>9, SameLibrary DEF N!NextSlot, NP!NextSlot
<1>11. \A i, m : N!Declared(i, m) = NP!Declared(i, m)
    BY SameText DEF N!Declared, NP!Declared
<1>12. \A kind, k : N!Place(kind, k) = NP!Place(kind, k)
    BY DEF N!Place, NP!Place
<1>13. \A m : N!GlobalOrNone(m) = NP!GlobalOrNone(m)
    BY <1>12 DEF N!GlobalOrNone, NP!GlobalOrNone
<1>14. \A d : N!Own(d) = NP!Own(d)
    BY <1>5, <1>10, <1>12, SameText DEF N!Own, NP!Own
<1>15. \A i : N!Resolve(i) = NP!Resolve(i)
    BY <1>5, <1>11, <1>12, <1>13, <1>14, SameText DEF N!Resolve, NP!Resolve
<1>16. \A g : N!Captures(g) = NP!Captures(g)
    BY <1>12, <1>15, SameText DEF N!Captures, NP!Captures
<1> QED BY <1>1, <1>2, <1>3, <1>4, <1>5, <1>6, <1>7, <1>8, <1>9, <1>10, <1>11, <1>12, <1>13, <1>14,
           <1>15, <1>16

\* What is worked out of a text besides.
LEMMA SameCode ==
    /\ \A g, i : N!BoundInside(g, i) <=> NP!BoundInside(g, i)
    /\ \A g : N!CollectFree(g) = NP!CollectFree(g)
    /\ N!FunInBlock <=> NP!FunInBlock
    /\ N!NamesItself <=> NP!NamesItself
    /\ \A i, g : N!ReboundAround(i, g) <=> NP!ReboundAround(i, g)
    /\ N!Rebound <=> NP!Rebound
    /\ \A g : N!Calls(g) <=> NP!Calls(g)
<1>1. \A g, i : N!BoundInside(g, i) <=> NP!BoundInside(g, i)
    BY SameText DEF N!BoundInside, NP!BoundInside
<1>2. \A g : N!CollectFree(g) = NP!CollectFree(g)
    BY <1>1, SameText DEF N!CollectFree, NP!CollectFree
<1>3. N!FunInBlock <=> NP!FunInBlock
    BY SameText, SamePlaces DEF N!FunInBlock, NP!FunInBlock
<1>4. N!NamesItself <=> NP!NamesItself
    BY SameText DEF N!NamesItself, NP!NamesItself
<1>5. \A i, g : N!ReboundAround(i, g) <=> NP!ReboundAround(i, g)
    BY SameText DEF N!ReboundAround, NP!ReboundAround
<1>6. N!Rebound <=> NP!Rebound
    BY <1>5, SameText DEF N!Rebound, NP!Rebound
<1>7. \A g : N!Calls(g) <=> NP!Calls(g)
    BY SameText DEF N!Calls, NP!Calls
<1> QED BY <1>1, <1>2, <1>3, <1>4, <1>5, <1>6, <1>7

\* The parts of a state, and what a binding changes of them.
LEMMA SameState ==
    /\ N!Root = NP!Root
    /\ N!None = NP!None
    /\ \A up, o : N!NewScope(up, o) = NP!NewScope(up, o)
    /\ \A closure, scope, p, holds : N!Frame(closure, scope, p, holds) = NP!Frame(closure, scope, p, holds)
    /\ N!Top = NP!Top
    /\ \A o : N!At(o) <=> NP!At(o)
    /\ \A fr : N!WithTop(fr) = NP!WithTop(fr)
    /\ \A p : N!Goto(p) = NP!Goto(p)
    /\ N!Next1 = NP!Next1
    /\ \A k : N!Out(k) = NP!Out(k)
    /\ \A f, S, v : N!Over(f, S, v) = NP!Over(f, S, v)
    /\ \A i : N!InCell(i) <=> NP!InCell(i)
    /\ \A fr, i, v : N!BindFrame(fr, i, v) = NP!BindFrame(fr, i, v)
    /\ \A i, v : N!BindCells(i, v) = NP!BindCells(i, v)
    /\ \A sc, s, i, v : N!BindScope(sc, s, i, v) = NP!BindScope(sc, s, i, v)
    /\ N!vars = NP!vars
<1>1. N!Root = NP!Root
    BY DEF N!Root, NP!Root
<1>2. N!None = NP!None
    BY DEF N!None, NP!None
<1>3. \A up, o : N!NewScope(up, o) = NP!NewScope(up, o)
    BY DEF N!NewScope, NP!NewScope
<1>4. \A closure, scope, p, holds : N!Frame(closure, scope, p, holds) = NP!Frame(closure, scope, p, holds)
    BY DEF N!Frame, NP!Frame
<1>5. N!Top = NP!Top
    BY DEF N!Top, NP!Top
<1>6. \A o : N!At(o) <=> NP!At(o)
    BY <1>5, SameText DEF N!At, NP!At
<1>7. \A fr : N!WithTop(fr) = NP!WithTop(fr)
    BY DEF N!WithTop, NP!WithTop
<1>8. \A p : N!Goto(p) = NP!Goto(p)
    BY <1>5 DEF N!Goto, NP!Goto
<1>9. N!Next1 = NP!Next1
    BY <1>5, <1>8 DEF N!Next1, NP!Next1
<1>10. \A k : N!Out(k) = NP!Out(k)
    BY DEF N!Out, NP!Out
<1>11. \A f, S, v : N!Over(f, S, v) = NP!Over(f, S, v)
    BY DEF N!Over, NP!Over
<1>12. \A i : N!InCell(i) <=> NP!InCell(i)
    BY DEF N!InCell, NP!InCell
<1>13. \A fr, i, v : N!BindFrame(fr, i, v) = NP!BindFrame(fr, i, v)
    BY <1>11, <1>12 DEF N!BindFrame, NP!BindFrame
<1>14. \A i, v : N!BindCells(i, v) = NP!BindCells(i, v)
    BY <1>12 DEF N!BindCells, NP!BindCells
<1>15. \A sc, s, i, v : N!BindScope(sc, s, i, v) = NP!BindScope(sc, s, i, v)
    BY DEF N!BindScope, NP!BindScope, N!Over, NP!Over, N!Op, NP!Op, N!Name, NP!Name
<1>16. N!vars = NP!vars
    BY DEF N!vars, NP!vars
<1> QED BY <1>1, <1>2, <1>3, <1>4, <1>5, <1>6, <1>7, <1>8, <1>9, <1>10, <1>11, <1>12, <1>13, <1>14,
           <1>15, <1>16

\* What a use is to each.
LEMMA SameReads ==
    /\ \A m, s : N!NameIn(m, s) = NP!NameIn(m, s)
    /\ \A d, s : N!BindingIn(d, s) = NP!BindingIn(d, s)
    /\ \A m, s : N!WalkerReads(m, s) = NP!WalkerReads(m, s)
    /\ \A d : N!Means(d) = NP!Means(d)
    /\ \A p : N!VmReads(p) = NP!VmReads(p)
    /\ \A i : N!Reads(i) = NP!Reads(i)
    /\ \A r : N!Agreed(r) <=> NP!Agreed(r)
<1>1. \A m, s : N!NameIn(m, s) = NP!NameIn(m, s)
    BY DEF N!NameIn, NP!NameIn
<1>2. \A d, s : N!BindingIn(d, s) = NP!BindingIn(d, s)
    BY DEF N!BindingIn, NP!BindingIn
<1>3. \A m, s : N!WalkerReads(m, s) = NP!WalkerReads(m, s)
    BY <1>1, SameState DEF N!WalkerReads, NP!WalkerReads
<1>4. \A d : N!Means(d) = NP!Means(d)
    BY <1>2, SameState DEF N!Means, NP!Means
<1>5. \A p : N!VmReads(p) = NP!VmReads(p)
    BY SameState DEF N!VmReads, NP!VmReads
<1>6. \A i : N!Reads(i) = NP!Reads(i)
    BY <1>3, <1>4, <1>5, SameText, SameState DEF N!Reads, NP!Reads
<1>7. \A r : N!Agreed(r) <=> NP!Agreed(r)
    BY DEF N!Agreed, NP!Agreed
<1> QED BY <1>1, <1>2, <1>3, <1>4, <1>5, <1>6, <1>7

\* The scopes that end with their last handle.
LEMMA SameClosing ==
    /\ \A c : N!Closure(c) = NP!Closure(c)
    /\ N!Held = NP!Held
    /\ N!Handles = NP!Handles
    /\ N!Alive = NP!Alive
    /\ \A s : N!StrongCount(s) = NP!StrongCount(s)
    /\ \A s : N!Doomed(s) = NP!Doomed(s)
    /\ \A s : N!Dies(s) <=> NP!Dies(s)
    /\ \A s : N!Close(s) = NP!Close(s)
<1>1. \A c : N!Closure(c) = NP!Closure(c)
    BY DEF N!Closure, NP!Closure
<1>2. N!Held = NP!Held
    BY <1>1 DEF N!Held, NP!Held
<1>3. N!Handles = NP!Handles
    BY <1>1, SameState DEF N!Handles, NP!Handles
<1>4. N!Alive = NP!Alive
    BY Zenon, <1>2, <1>3, SameLibrary DEF N!Alive, NP!Alive
<1>5. \A s : N!StrongCount(s) = NP!StrongCount(s)
    BY <1>2, <1>4, SameLibrary DEF N!StrongCount, NP!StrongCount
<1>6. \A s : N!Doomed(s) = NP!Doomed(s)
    BY DEF N!Doomed, NP!Doomed
<1>7. \A s : N!Dies(s) <=> NP!Dies(s)
    BY <1>5, <1>6, SameLibrary DEF N!Dies, NP!Dies
<1>8. \A s : N!Close(s) = NP!Close(s)
    BY <1>6, <1>7 DEF N!Close, NP!Close
<1> QED BY <1>1, <1>2, <1>3, <1>4, <1>5, <1>6, <1>7, <1>8

\* What a closure is made of.
LEMMA SameClosures ==
    /\ \A m, s : N!IsMutable(m, s) <=> NP!IsMutable(m, s)
    /\ \A m, s : N!BelowRoot(m, s) <=> NP!BelowRoot(m, s)
    /\ \A i, s : N!CapturesWhole(i, s) <=> NP!CapturesWhole(i, s)
    /\ \A i, s : N!Narrowed(i, s) = NP!Narrowed(i, s)
    /\ \A i : N!Holds(i) = NP!Holds(i)
<1>1. \A m, s : N!IsMutable(m, s) <=> NP!IsMutable(m, s)
    BY SameReads DEF N!IsMutable, NP!IsMutable
<1>2. \A m, s : N!BelowRoot(m, s) <=> NP!BelowRoot(m, s)
    BY SameState, SameReads DEF N!BelowRoot, NP!BelowRoot
<1>3. \A i, s : N!CapturesWhole(i, s) <=> NP!CapturesWhole(i, s)
    BY <1>1, SameText DEF N!CapturesWhole, NP!CapturesWhole
<1>4. \A i, s : N!Narrowed(i, s) = NP!Narrowed(i, s)
    BY <1>2, SameState, SameReads DEF N!Narrowed, NP!Narrowed
<1>5. \A i : N!Holds(i) = NP!Holds(i)
    BY SameState DEF N!Holds, NP!Holds
<1> QED BY <1>1, <1>2, <1>3, <1>4, <1>5

\* What the actions have in common.
LEMMA SameSteps ==
    /\ N!StopAll <=> NP!StopAll
    /\ \A p : N!AssignVm(p) <=> NP!AssignVm(p)
    /\ \A i : N!Assign(i) <=> NP!Assign(i)
    /\ \A c, caller : N!Push(c, caller) <=> NP!Push(c, caller)
    /\ \A i : N!LoopState(i) = NP!LoopState(i)
    /\ \A i, sc, o, turn : N!Turn(i, sc, o, turn) <=> NP!Turn(i, sc, o, turn)
    /\ N!LeaveBlock <=> NP!LeaveBlock
<1>1. N!StopAll <=> NP!StopAll
    BY DEF N!StopAll, NP!StopAll
<1>2. \A p : N!AssignVm(p) <=> NP!AssignVm(p)
    BY SameState DEF N!AssignVm, NP!AssignVm
<1>3. \A i : N!Assign(i) <=> NP!Assign(i)
  <2> TAKE i
  <2> PICK x : x = N!NameIn(N!Name(i), N!Top.scope)
      OBVIOUS
  <2> PICK y : y = N!BindingIn(code[i].means, N!Top.scope)
      OBVIOUS
  <2> PICK z : z = N!Name(i)
      OBVIOUS
  <2> PICK w : w = [scopes EXCEPT ![x].names[z] = clock, ![y].bound[code[i].means] = clock]
      OBVIOUS
  <2>1. /\ x = NP!NameIn(NP!Name(i), NP!Top.scope)
        /\ y = NP!BindingIn(code[i].means, NP!Top.scope) /\ z = NP!Name(i)
      BY SameText, SameState, SameReads
  <2>2. N!Assign(i) <=> N!AssignVm(code[i].place) /\ scopes' = w /\ clock' = clock + 1 /\ UNCHANGED called
      BY DEF N!Assign
  <2>3. NP!Assign(i) <=> NP!AssignVm(code[i].place) /\ scopes' = w /\ clock' = clock + 1 /\ UNCHANGED called
      BY <2>1 DEF NP!Assign
  <2> QED BY <1>2, <2>2, <2>3
<1>4. \A c, caller : N!Push(c, caller) <=> NP!Push(c, caller)
    BY SameState DEF N!Push, NP!Push
<1>5. \A i : N!LoopState(i) = NP!LoopState(i)
    BY SameState DEF N!LoopState, NP!LoopState
<1>6. \A i, sc, o, turn : N!Turn(i, sc, o, turn) <=> NP!Turn(i, sc, o, turn)
    BY <1>5, SameState DEF N!Turn, NP!Turn
<1>7. N!LeaveBlock <=> NP!LeaveBlock
    BY SameState, SameClosing DEF N!LeaveBlock, NP!LeaveBlock
<1> QED BY <1>1, <1>2, <1>3, <1>4, <1>5, <1>6, <1>7

\* The actions.
LEMMA SameActions ==
    /\ N!WriteText <=> NP!WriteText
    /\ N!Compile <=> NP!Compile
    /\ N!Let <=> NP!Let
    /\ N!Read <=> NP!Read
    /\ N!Set <=> NP!Set
    /\ N!MakeClosure <=> NP!MakeClosure
    /\ N!Call <=> NP!Call
    /\ N!EnterBlock <=> NP!EnterBlock
    /\ N!EnterLoop <=> NP!EnterLoop
    /\ N!EndBlock <=> NP!EndBlock
    /\ N!Return <=> NP!Return
    /\ N!CallKept <=> NP!CallKept
    /\ N!Done <=> NP!Done
<1>1. N!WriteText <=> NP!WriteText
    BY SameText, SameWriting DEF N!WriteText, NP!WriteText
<1>2. N!Compile <=> NP!Compile
    BY SameText, SamePlaces, SameCode, SameState DEF N!Compile, NP!Compile
<1>3. N!Let <=> NP!Let
    BY SameState DEF N!Let, NP!Let
<1>4. N!Read <=> NP!Read
    BY SameState, SameReads, SameSteps DEF N!Read, NP!Read
<1>5. N!Set <=> NP!Set
    BY SameState, SameReads, SameSteps DEF N!Set, NP!Set
<1>6. N!MakeClosure <=> NP!MakeClosure
    BY SameText, SameState, SameClosures DEF N!MakeClosure, NP!MakeClosure
<1>7. N!Call <=> NP!Call
    BY SameState, SameReads, SameSteps DEF N!Call, NP!Call
<1>8. N!EnterBlock <=> NP!EnterBlock
    BY SameState DEF N!EnterBlock, NP!EnterBlock
<1>9. N!EnterLoop <=> NP!EnterLoop
    BY SameState, SameSteps DEF N!EnterLoop, NP!EnterLoop
<1>10. N!EndBlock <=> NP!EndBlock
    BY SameText, SameState, SameClosing, SameSteps DEF N!EndBlock, NP!EndBlock
<1>11. N!Return <=> NP!Return
    BY SameText, SameState, SameClosing DEF N!Return, NP!Return
<1>12. N!CallKept <=> NP!CallKept
    BY SameSteps DEF N!CallKept, NP!CallKept
<1>13. N!Done <=> NP!Done
    BY DEF N!Done, NP!Done, N!vars, NP!vars
<1> QED BY <1>1, <1>2, <1>3, <1>4, <1>5, <1>6, <1>7, <1>8, <1>9, <1>10, <1>11, <1>12, <1>13

LEMMA SameNamesNext == (N!Next <=> NP!Next) /\ N!vars = NP!vars /\ N!vars' = NP!vars'
<1>1. N!Next <=> NP!Next
    BY SameActions DEF N!Next, NP!Next
<1>2. N!vars = NP!vars /\ N!vars' = NP!vars'
    BY DEF N!vars, NP!vars
<1> QED BY <1>1, <1>2

LEMMA SameNamesInit == N!Init <=> NP!Init
BY SameState DEF N!Init, NP!Init

\* A use is of the binding it means on the VM, as run `engines` checks it, beside
\* the other parts (NamesProofs!NamesKeepTheirMeaning).
THEOREM NamesOnVmAlways ==
    ASSUME ~FunsInBlocks, ~OwnNames, Data \cap Fun = {}
    PROVE  EnginesSpec => []NamesOnVm
<1> DEFINE step == NativeNext \/ VmNext \/ SumNext \/ NameNext \/ PoolNext
<1>1. EnginesInit => NP!VmInv
    BY SameNamesInit, NP!VmStarts DEF EnginesInit
<1>2. ASSUME NP!VmInv, [step]_all
      PROVE  NP!VmInv'
  <2>1. [NP!Next]_(NP!vars)
    <3>1. [N!Next]_(N!vars)
        BY <1>2 DEF NativeNext, VmNext, SumNext, NameNext, PoolNext, all, nameVars, N!vars
    <3> QED BY <3>1, SameNamesNext
  <2> QED BY <1>2, <2>1, NP!VmKeeps
<1>3. NP!VmInv => NamesOnVm
    BY DEF NP!VmInv, NP!VmKeepsMeaning, NamesOnVm, N!VmKeepsMeaning
<1> QED BY <1>1, <1>2, <1>3, PTL DEF EnginesSpec
================================================================================
