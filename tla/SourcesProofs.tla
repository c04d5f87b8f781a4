----------------------------- MODULE SourcesProofs ------------------------------
(***************************************************************************)
(* Proofs about where a program's text comes from.  Loading, for any files *)
(* and import graph: the depth-first walk of load_file puts every file it  *)
(* reaches into the program once, imports first, and a file is known by    *)
(* the same path however an import spells it.  `keal fetch`, for any       *)
(* packages, tags and versions, any manifests in their commits, any number *)
(* of checkouts and any history of tags that move, fetches that fail and   *)
(* manifests that are edited.                                              *)
(***************************************************************************)
EXTENDS Loader, Fetch, FiniteSetTheorems, SequenceTheorems, WellFoundedInduction,
        TLAPS

--------------------------------------------------------------------------------
(* Loading.                                                                *)

Frame == [file: File, next: 1 .. MaxImports + 1]
Inside == {stack[i].file : i \in DOMAIN stack}

(* The invariant, in parts.                                                *)

\* A file that was read is in the program or being loaded, at one place.
EachOnce ==
    /\ seen = Range(items) \union Inside
    /\ Range(items) \intersect Inside = {}
    /\ \A i, j \in DOMAIN items : items[i] = items[j] => i = j
    /\ \A i, j \in DOMAIN stack : stack[i].file = stack[j].file => i = j

\* An import statement is done when its file has ended or gone on.
ImportDone(f, k) ==
    \/ f \in Range(items)
    \/ \E i \in DOMAIN stack : stack[i].file = f /\ k < stack[i].next
DoneAreSeen ==
    \A f \in File : \A k \in DOMAIN imports[f] : ImportDone(f, k) => imports[f][k] \in seen
EdgesAreDone ==
    edges = UNION {{<<f, k, imports[f][k]>> : k \in {j \in DOMAIN imports[f] : ImportDone(f, j)}} : f \in File}

\* A file being loaded is what its caller's next import says, and is reached
\* from all of its callers.
CalledByImport ==
    \A i \in 1 .. Len(stack) - 1 :
        /\ stack[i].next \in DOMAIN imports[stack[i].file]
        /\ imports[stack[i].file][stack[i].next] = stack[i + 1].file
CallersReach ==
    \A i, j \in DOMAIN stack : i < j => stack[j].file \in Reaches(stack[i].file)

\* A file in the program that imports one still being loaded was reached from
\* it: the two are on a cycle.
EndedInside ==
    \A i \in DOMAIN stack : \A f \in Range(items) :
        stack[i].file \in Range(imports[f]) => f \in Reaches(stack[i].file)

FromEntry ==
    /\ seen \subseteq {Entry} \union Reaches(Entry)
    /\ seen # {} => Entry \in seen
    /\ loaded = "no" /\ stack = <<>> => seen = {}
    /\ loaded = "yes" => stack = <<>> /\ seen # {}
    /\ loaded = "error" => ~({Entry} \union Reaches(Entry) \subseteq readable)

LInv == /\ LTypeOK /\ EachOnce /\ DoneAreSeen /\ EdgesAreDone
        /\ CalledByImport /\ CallersReach /\ EndedInside
        /\ FromEntry /\ ImportsComeFirst
--------------------------------------------------------------------------------
(* What is reached.                                                        *)

LEMMA ImportsAreFiles ==
    ASSUME LTypeOK, NEW f \in File
    PROVE  /\ imports[f] \in Seq(File) /\ Len(imports[f]) \in 0 .. MaxImports
           /\ DOMAIN imports[f] = 1 .. Len(imports[f])
           /\ Range(imports[f]) = {imports[f][k] : k \in DOMAIN imports[f]}
           /\ Range(imports[f]) \subseteq File
<1>1. PICK n \in 0 .. MaxImports : imports[f] \in [1 .. n -> File]
    <2>1. imports[f] \in Lists
        BY DEF LTypeOK
    <2> QED BY <2>1 DEF Lists
<1>2. MaxImports \in Nat
    BY LoaderAssumption
<1>3. imports[f] \in Seq(File) /\ Len(imports[f]) = n
    BY <1>1, <1>2
<1> QED BY <1>1, <1>2, <1>3 DEF Range

LEMMA EntryIsFile == Entry \in File
BY LoaderAssumption DEF Entry

LEMMA ReachesImports ==
    ASSUME LTypeOK, NEW f \in File
    PROVE  Range(imports[f]) \subseteq Reaches(f)
BY ImportsAreFiles DEF Reaches

LEMMA ReachesOnward ==
    ASSUME LTypeOK, NEW f \in File, NEW g \in Reaches(f)
    PROVE  Range(imports[g]) \subseteq Reaches(f)
<1>1. g \in File
    BY DEF Reaches
<1>2. ASSUME NEW h \in Range(imports[g]), NEW S \in SUBSET File,
             Range(imports[f]) \subseteq S, Closed(S)
      PROVE  h \in S
    BY <1>2 DEF Reaches, Closed
<1> QED BY <1>1, <1>2, ImportsAreFiles DEF Reaches

LEMMA ReachesNoMore ==
    ASSUME NEW f, NEW S \in SUBSET File, Range(imports[f]) \subseteq S, Closed(S)
    PROVE  Reaches(f) \subseteq S
BY DEF Reaches

LEMMA SameReach == ASSUME imports' = imports PROVE \A f : Reaches(f)' = Reaches(f)
BY DEF Reaches, Closed

\* An import of a file the entry reaches is reached from it.
LEMMA EntryReaches ==
    ASSUME LTypeOK, NEW f \in {Entry} \union Reaches(Entry),
           NEW g \in Range(imports[f])
    PROVE  g \in Reaches(Entry)
BY EntryIsFile, ReachesImports, ReachesOnward
--------------------------------------------------------------------------------
(* The stack.                                                              *)

LEMMA PrefixIs ==
    ASSUME NEW S, NEW s \in Seq(S), NEW m \in 0 .. Len(s)
    PROVE  /\ SubSeq(s, 1, m) \in Seq(S) /\ Len(SubSeq(s, 1, m)) = m
           /\ \A i \in 1 .. m : SubSeq(s, 1, m)[i] = s[i]
<1>1. m \in Int /\ 1 \in Int /\ \A i \in 1 .. m : s[i] \in S
    OBVIOUS
<1>2. /\ SubSeq(s, 1, m) \in Seq(S) /\ Len(SubSeq(s, 1, m)) = IF 1 <= m THEN m - 1 + 1 ELSE 0
      /\ \A i \in 1 .. m - 1 + 1 : SubSeq(s, 1, m)[i] = s[1 + i - 1]
    BY <1>1, SubSeqProperties
<1> QED BY <1>1, <1>2

LEMMA FrontIs ==
    ASSUME NEW S, NEW s \in Seq(S), Len(s) # 0
    PROVE  /\ Front(s) \in Seq(S) /\ Len(Front(s)) = Len(s) - 1
           /\ \A i \in 1 .. Len(s) - 1 : Front(s)[i] = s[i]
<1>1. Len(s) - 1 \in 0 .. Len(s)
    OBVIOUS
<1> QED BY <1>1, PrefixIs DEF Front

LEMMA TopIs ==
    ASSUME LTypeOK, stack # <<>>
    PROVE  /\ Len(stack) \in Nat \ {0} /\ DOMAIN stack = 1 .. Len(stack)
           /\ Top = stack[Len(stack)] /\ Top \in Frame
           /\ Top.file \in File /\ Top.next \in 1 .. MaxImports + 1
           /\ Top.file \in Inside
<1>1. stack \in Seq(Frame) /\ Len(stack) \in Nat \ {0} /\ DOMAIN stack = 1 .. Len(stack)
    BY DEF LTypeOK, Frame
<1>2. Top = stack[Len(stack)] /\ Top \in Frame
    BY <1>1 DEF Top, Last
<1> QED BY <1>1, <1>2 DEF Frame, Inside

LEMMA OnwardIs ==
    ASSUME LTypeOK, AtImport
    PROVE  /\ Onward \in Seq(Frame) /\ Len(Onward) = Len(stack)
           /\ \A i \in 1 .. Len(stack) - 1 : Onward[i] = stack[i]
           /\ Onward[Len(stack)] = [file |-> Top.file, next |-> Top.next + 1]
<1> DEFINE n == Len(stack)
           t == [file |-> Top.file, next |-> Top.next + 1]
<1>1. n \in Nat \ {0} /\ Top = stack[n] /\ Top \in Frame /\ Top.next \in 1 .. Len(imports[Top.file])
      /\ Len(imports[Top.file]) <= MaxImports /\ MaxImports \in Nat
    BY TopIs, ImportsAreFiles, LoaderAssumption DEF AtImport
<1>2. t \in Frame /\ [Top EXCEPT !.next = @ + 1] = t
    BY <1>1 DEF Frame
<1>3. Front(stack) \in Seq(Frame) /\ Len(Front(stack)) = n - 1
      /\ \A i \in 1 .. n - 1 : Front(stack)[i] = stack[i]
    BY <1>1, FrontIs DEF LTypeOK, Frame
<1>4. Onward = Append(Front(stack), t)
    BY <1>2 DEF Onward
<1> QED BY <1>1, <1>2, <1>3, <1>4

LEMMA InvFacts ==
    ASSUME LInv
    PROVE  /\ MaxImports \in Nat /\ stack \in Seq(Frame) /\ items \in Seq(File)
           /\ DOMAIN stack = 1 .. Len(stack) /\ Len(stack) \in Nat
           /\ \A i \in DOMAIN stack : /\ stack[i].file \in File /\ stack[i].next \in 1 .. MaxImports + 1
                                     /\ stack[i].file \in Inside
           /\ DOMAIN items = 1 .. Len(items) /\ Len(items) \in Nat
           /\ Range(items) = {items[i] : i \in DOMAIN items} /\ Range(items) \subseteq File
           /\ seen \subseteq File /\ Inside \subseteq seen /\ Range(items) \subseteq seen
<1>1. MaxImports \in Nat /\ stack \in Seq(Frame) /\ items \in Seq(File)
    BY LoaderAssumption DEF LInv, LTypeOK, Frame
<1>2. \A i \in DOMAIN stack : stack[i].file \in File /\ stack[i].next \in 1 .. MaxImports + 1
    <2>1. \A i \in DOMAIN stack : stack[i] \in Frame
        BY <1>1
    <2> QED BY <2>1 DEF Frame
<1>3. Range(items) = {items[i] : i \in DOMAIN items} /\ seen = Range(items) \union Inside
    BY DEF Range, LInv, EachOnce
<1> QED BY <1>1, <1>2, <1>3 DEF Inside

\* The imports of a file in the program have been read.
LEMMA EndedImports ==
    ASSUME LInv, NEW f \in Range(items)
    PROVE  Range(imports[f]) \subseteq seen
<1>1. f \in File
    BY InvFacts
<1>2. Range(imports[f]) = {imports[f][k] : k \in DOMAIN imports[f]}
    BY <1>1, ImportsAreFiles DEF LInv
<1>3. \A k \in DOMAIN imports[f] : imports[f][k] \in seen
    BY <1>1 DEF LInv, DoneAreSeen, ImportDone
<1> QED BY <1>2, <1>3
--------------------------------------------------------------------------------
(* What of the invariant follows from how a step changes `ImportDone`.     *)

LEMMA SameDone ==
    ASSUME LInv, imports' = imports, edges' = edges, seen \subseteq seen',
           \A f \in File : \A k \in DOMAIN imports[f] : ImportDone(f, k)' <=> ImportDone(f, k)
    PROVE  DoneAreSeen' /\ EdgesAreDone'
<1>1. DoneAreSeen'
    BY DEF LInv, DoneAreSeen
<1>2. \A f \in File : {j \in DOMAIN imports[f] : ImportDone(f, j)}' = {j \in DOMAIN imports[f] : ImportDone(f, j)}
    OBVIOUS
<1> QED BY <1>1, <1>2 DEF LInv, EdgesAreDone

LEMMA OneMoreDone ==
    ASSUME LInv, imports' = imports, NEW f \in File, NEW k \in DOMAIN imports[f],
           edges' = edges \union {<<f, k, imports[f][k]>>},
           seen \subseteq seen', imports[f][k] \in seen',
           \A g \in File : \A j \in DOMAIN imports[g] :
               ImportDone(g, j)' <=> ImportDone(g, j) \/ (g = f /\ j = k)
    PROVE  DoneAreSeen' /\ EdgesAreDone'
<1>1. DoneAreSeen'
    BY DEF LInv, DoneAreSeen
<1>2. \A e : e \in edges <=> \E g \in File : \E j \in DOMAIN imports[g] :
                                ImportDone(g, j) /\ e = <<g, j, imports[g][j]>>
    BY DEF LInv, EdgesAreDone
<1>3. \A e : e \in edges' <=> \E g \in File : \E j \in DOMAIN imports[g] :
                                ImportDone(g, j)' /\ e = <<g, j, imports[g][j]>>
    BY <1>2
<1>4. edges' = UNION {{<<g, j, imports[g][j]>> : j \in {l \in DOMAIN imports[g] : ImportDone(g, l)'}} : g \in File}
    BY <1>3
<1> QED BY <1>1, <1>4 DEF EdgesAreDone
--------------------------------------------------------------------------------
(* The steps.                                                              *)

LEMMA InitLoads == ASSUME LInit PROVE LInv
<1>1. LTypeOK
    BY DEF LInit, LTypeOK
<1>2. Range(items) = {} /\ Inside = {}
    BY DEF LInit, Range, Inside
<1>3. EachOnce /\ CalledByImport /\ CallersReach /\ EndedInside /\ FromEntry /\ ImportsComeFirst
    BY <1>2 DEF LInit, EachOnce, CalledByImport, CallersReach, EndedInside, FromEntry,
       ImportsComeFirst
<1>4. \A f, k : ~ImportDone(f, k)
    BY <1>2 DEF LInit, ImportDone
<1> QED BY <1>1, <1>3, <1>4 DEF LInv, LInit, DoneAreSeen, EdgesAreDone

\* A load that cannot read a file stops as it stands.
LEMMA ErrorKeeps ==
    ASSUME LInv, UNCHANGED <<path, imports, readable, seen, stack, items, edges>>, loaded' = "error",
           NEW f \in {Entry} \union Reaches(Entry), f \notin readable
    PROVE  LInv'
<1>1. \A g : Reaches(g)' = Reaches(g)
    BY SameReach
<1>2. LTypeOK' /\ EachOnce' /\ CalledByImport'
    BY DEF LInv, LTypeOK, EachOnce, Inside, CalledByImport
<1>3. DoneAreSeen' /\ EdgesAreDone'
    BY DEF LInv, DoneAreSeen, EdgesAreDone, ImportDone
<1>4. CallersReach' /\ EndedInside' /\ ImportsComeFirst'
    BY <1>1 DEF LInv, CallersReach, EndedInside, ImportsComeFirst
<1>5. FromEntry'
    BY <1>1 DEF LInv, FromEntry
<1> QED BY <1>2, <1>3, <1>4, <1>5 DEF LInv

LEMMA LoadKeeps ==
    ASSUME LInv, Load
    PROVE  LInv'
<1>1. CASE ~Reads(Entry)
    BY <1>1, ErrorKeeps DEF Load, Enter, Reads
<1>2. CASE Reads(Entry)
    <2> DEFINE new == [file |-> Entry, next |-> 1]
    <2>1. /\ stack = <<>> /\ stack' = <<new>> /\ seen = {} /\ seen' = {Entry} /\ loaded' = loaded /\ loaded = "no"
          /\ imports' = imports /\ items' = items /\ edges' = edges /\ readable' = readable
          /\ Entry \in readable /\ Entry \in File /\ MaxImports \in Nat
        BY <1>2, EntryIsFile, InvFacts DEF Load, Enter, Reads
    <2>2. Len(stack') = 1 /\ DOMAIN stack' = {1} /\ stack'[1] = new /\ new \in Frame /\ stack' \in Seq(Frame)
        BY <2>1 DEF Frame
    <2>3. Range(items) = {} /\ Range(items)' = {} /\ Inside' = {Entry} /\ Inside = {}
        BY <2>1, <2>2, InvFacts DEF Inside
    <2>4. LTypeOK'
        BY <2>1, <2>2 DEF LInv, LTypeOK, Frame
    <2>5. EachOnce'
        BY <2>1, <2>2, <2>3 DEF LInv, EachOnce
    <2>6. DoneAreSeen' /\ EdgesAreDone'
        <3>1. \A f \in File : \A k \in DOMAIN imports[f] : ImportDone(f, k)' <=> ImportDone(f, k)
            <4>1. DOMAIN stack = {} /\ stack'[1].next = 1
                BY <2>1, <2>2
            <4>2. \A f \in File : \A k \in DOMAIN imports[f] : ~ImportDone(f, k)
                BY <2>3, <4>1 DEF ImportDone
            <4>3. ASSUME NEW f \in File, NEW k \in DOMAIN imports[f] PROVE ~ImportDone(f, k)'
                <5>1. k \in Int /\ ~(k < 1)
                    BY ImportsAreFiles DEF LInv
                <5> QED BY <2>2, <2>3, <4>1, <5>1 DEF ImportDone
            <4> QED BY <2>1, <4>2, <4>3
        <3> QED BY <2>1, <3>1, SameDone
    <2>7. CalledByImport' /\ CallersReach' /\ EndedInside' /\ FromEntry'
        BY <2>1, <2>2, <2>3 DEF CalledByImport, CallersReach, EndedInside, FromEntry
    <2>8. ImportsComeFirst'
        BY <2>1, SameReach DEF LInv, ImportsComeFirst
    <2> QED BY <2>4, <2>5, <2>6, <2>7, <2>8 DEF LInv
<1> QED BY <1>1, <1>2

LEMMA ImportSeenKeeps ==
    ASSUME LInv, ImportSeen
    PROVE  LInv'
<1> DEFINE n == Len(stack)
           f == Top.file
           k == Top.next
<1>1. /\ stack' = Onward /\ imports' = imports /\ items' = items /\ readable' = readable /\ seen' = seen
      /\ loaded' = loaded /\ loaded = "no" /\ edges' = edges \union {<<f, k, imports[f][k]>>}
      /\ imports[f][k] \in seen /\ stack # <<>> /\ k \in DOMAIN imports[f] /\ LTypeOK /\ AtImport
    BY DEF ImportSeen, AtImport, Target, Record, LInv
<1>2. /\ stack' \in Seq(Frame) /\ Len(stack') = n /\ n \in Nat \ {0} /\ DOMAIN stack' = 1 .. n
      /\ \A i \in 1 .. n - 1 : stack'[i] = stack[i]
      /\ stack'[n] = [file |-> f, next |-> k + 1] /\ stack[n].file = f /\ stack[n].next = k
      /\ f \in File /\ k \in Nat /\ DOMAIN stack = 1 .. n
    BY <1>1, OnwardIs, TopIs, InvFacts
<1> HIDE DEF n, f, k
<1>3. /\ \A i \in 1 .. n : stack'[i].file = stack[i].file
      /\ Inside' = Inside /\ Range(items)' = Range(items)
    BY <1>1, <1>2 DEF Inside
<1>4. LTypeOK'
    BY <1>1, <1>2 DEF LInv, LTypeOK, Frame
<1>5. EachOnce'
    BY <1>1, <1>2, <1>3 DEF LInv, EachOnce
<1>6. DoneAreSeen' /\ EdgesAreDone'
    <2>1. ASSUME NEW g \in File, NEW j \in DOMAIN imports[g]
          PROVE  ImportDone(g, j)' <=> ImportDone(g, j) \/ (g = f /\ j = k)
        <3>1. j \in Nat
            BY ImportsAreFiles DEF LInv
        <3>2. \A i \in 1 .. n - 1 : stack'[i].next = stack[i].next
            BY <1>2
        <3>3. (stack'[n].file = g /\ j < stack'[n].next) <=> (stack[n].file = g /\ j < stack[n].next) \/ (g = f /\ j = k)
            BY <1>2, <3>1
        <3>4. \A i \in 1 .. n : i \in 1 .. n - 1 \/ i = n
            BY <1>2
        <3> QED BY <1>1, <1>2, <1>3, <3>2, <3>3, <3>4 DEF ImportDone
    <2> QED BY <1>1, <1>2, <2>1, OneMoreDone
<1>7. CalledByImport'
    BY <1>1, <1>2, <1>3 DEF LInv, CalledByImport
<1>8. CallersReach' /\ EndedInside' /\ ImportsComeFirst'
    BY <1>1, <1>2, <1>3, SameReach DEF LInv, CallersReach, EndedInside, ImportsComeFirst
<1>9. FromEntry'
    BY <1>1, <1>2, SameReach DEF LInv, FromEntry
<1> QED BY <1>4, <1>5, <1>6, <1>7, <1>8, <1>9 DEF LInv

LEMMA ImportNewKeeps ==
    ASSUME LInv, ImportNew
    PROVE  LInv'
<1> DEFINE n == Len(stack)
           f == Top.file
           k == Top.next
           g == imports[f][k]
<1>1. /\ imports' = imports /\ items' = items /\ readable' = readable /\ edges' = edges /\ path' = path
      /\ loaded = "no" /\ g \notin seen /\ stack # <<>> /\ k \in DOMAIN imports[f]
      /\ LTypeOK /\ Enter(g, stack)
    BY DEF ImportNew, AtImport, Target, LInv
<1>2. /\ stack \in Seq(Frame) /\ n \in Nat \ {0} /\ DOMAIN stack = 1 .. n /\ n \in DOMAIN stack
      /\ stack[n].file = f /\ stack[n].next = k /\ f \in File /\ f \in Inside /\ f \in seen
      /\ items \in Seq(File) /\ Inside \subseteq seen /\ MaxImports \in Nat /\ Range(items) \subseteq File
      /\ \A i \in 1 .. n : stack[i].file \in File /\ stack[i].file \in seen
    BY <1>1, TopIs, InvFacts
<1>3. g \in Range(imports[f]) /\ g \in File
    BY <1>1, <1>2, ImportsAreFiles DEF LInv
<1>4. g \in Reaches(Entry)
    BY <1>1, <1>2, <1>3, EntryReaches DEF LInv, FromEntry
<1>5. CASE ~Reads(g)
    <2>1. loaded' = "error" /\ UNCHANGED <<seen, stack>> /\ g \notin readable
        BY <1>1, <1>5 DEF Enter, Reads
    <2> HIDE DEF g
    <2> QED BY <1>1, <1>4, <2>1, ErrorKeeps
<1>6. CASE Reads(g)
    <2> DEFINE new == [file |-> g, next |-> 1]
    <2>1. seen' = seen \union {g} /\ stack' = Append(stack, new) /\ loaded' = loaded /\ g \in readable
        BY <1>1, <1>6 DEF Enter, Reads
    <2>2. new \in Frame
        BY <1>2, <1>3 DEF Frame
    <2>3. /\ stack' \in Seq(Frame) /\ Len(stack') = n + 1 /\ DOMAIN stack' = 1 .. n + 1
          /\ \A i \in 1 .. n : stack'[i] = stack[i]
          /\ stack'[n + 1].file = g /\ stack'[n + 1].next = 1
        BY <1>2, <2>1, <2>2
    <2> HIDE DEF g, n, f, k, new
    <2>4. Inside' = Inside \union {g} /\ Range(items)' = Range(items)
        BY <1>1, <1>2, <2>3 DEF Inside
    <2>5. \A i \in DOMAIN stack' : i \in 1 .. n \/ i = n + 1
        BY <1>2, <2>3
    <2>6. LTypeOK'
        BY <1>1, <2>1, <2>3 DEF LInv, LTypeOK, Frame
    <2>7. EachOnce'
        <3>1. \A i, j \in DOMAIN stack' : stack'[i].file = stack'[j].file => i = j
            BY <1>1, <1>2, <2>3, <2>5 DEF LInv, EachOnce
        <3>2. g \notin Range(items) /\ g \notin Inside
            BY <1>1 DEF LInv, EachOnce
        <3> QED BY <1>1, <2>1, <2>4, <3>1, <3>2 DEF LInv, EachOnce
    <2>8. DoneAreSeen' /\ EdgesAreDone'
        <3>1. ASSUME NEW h \in File, NEW j \in DOMAIN imports[h]
              PROVE  ImportDone(h, j)' <=> ImportDone(h, j)
            <4>1. j \in Int /\ ~(j < 1)
                BY ImportsAreFiles DEF LInv
            <4>2. ~(j < stack'[n + 1].next)
                BY <2>3, <4>1
            <4> QED BY <1>1, <1>2, <2>3, <2>4, <2>5, <4>2 DEF ImportDone
        <3> QED BY <1>1, <2>1, <3>1, SameDone
    <2>9. CalledByImport'
        <3>1. \A i \in 1 .. Len(stack') - 1 : i \in 1 .. n - 1 \/ i = n
            BY <1>2, <2>3
        <3>2. \A i \in 1 .. n - 1 : i \in 1 .. n /\ i + 1 \in 1 .. n
            BY <1>2
        <3>3. imports[stack[n].file][stack[n].next] = g
            BY <1>2 DEF g
        <3> QED BY <1>1, <1>2, <2>3, <3>1, <3>2, <3>3 DEF LInv, CalledByImport, n
    <2>10. CallersReach'
        <3>1. ASSUME NEW i \in 1 .. n PROVE g \in Reaches(stack[i].file)
            <4>1. CASE i = n
                BY <1>2, <1>3, <4>1, ReachesImports DEF LInv
            <4>2. CASE i # n
                <5>1. f \in Reaches(stack[i].file)
                    BY <1>2, <4>2 DEF LInv, CallersReach
                <5> QED BY <1>2, <1>3, <5>1, ReachesOnward DEF LInv
            <4> QED BY <4>1, <4>2
        <3>2. \A i, j \in DOMAIN stack' : i < j => i \in 1 .. n /\ (j \in 1 .. n \/ j = n + 1)
            BY <1>2, <2>3
        <3> QED BY <1>1, <1>2, <2>3, <3>1, <3>2, SameReach DEF LInv, CallersReach
    <2>11. EndedInside'
        <3>1. \A h \in Range(items) : Range(imports[h]) \subseteq seen
            BY EndedImports
        <3> QED BY <1>1, <1>2, <2>3, <2>4, <2>5, <3>1, SameReach DEF LInv, EndedInside
    <2>12. FromEntry'
        BY <1>1, <1>2, <1>4, <2>1, <2>3, SameReach DEF LInv, FromEntry
    <2>13. ImportsComeFirst'
        BY <1>1, SameReach DEF LInv, ImportsComeFirst
    <2> QED BY <2>6, <2>7, <2>8, <2>9, <2>10, <2>11, <2>12, <2>13 DEF LInv
<1> QED BY <1>5, <1>6

LEMMA EndFileKeeps ==
    ASSUME LInv, EndFile
    PROVE  LInv'
<1> DEFINE n == Len(stack)
           f == Top.file
<1>1. /\ imports' = imports /\ items' = Append(items, f) /\ readable' = readable /\ seen' = seen
      /\ loaded = "no" /\ stack # <<>> /\ Top.next \notin DOMAIN imports[f] /\ LTypeOK
    BY DEF EndFile, AtImport, Extend, LInv
<1>2. /\ stack \in Seq(Frame) /\ n \in Nat \ {0} /\ DOMAIN stack = 1 .. n /\ n \in DOMAIN stack
      /\ stack[n].file = f /\ stack[n].next = Top.next /\ f \in File /\ f \in Inside /\ f \in seen
      /\ items \in Seq(File) /\ Inside \subseteq seen /\ MaxImports \in Nat /\ Range(items) \subseteq File
      /\ \A i \in 1 .. n : stack[i].file \in File /\ stack[i].next \in 1 .. MaxImports + 1
      /\ Top.next \in 1 .. MaxImports + 1
      /\ DOMAIN items = 1 .. Len(items) /\ Len(items) \in Nat
    <2>1. /\ n \in Nat \ {0} /\ DOMAIN stack = 1 .. n /\ Top = stack[n]
          /\ f \in File /\ f \in Inside /\ Top.next \in 1 .. MaxImports + 1
        BY <1>1, TopIs
    <2>2. n \in DOMAIN stack
        BY <2>1
    <2> QED BY <2>1, <2>2, InvFacts
<1>3. \A k \in DOMAIN imports[f] : ImportDone(f, k) /\ imports[f][k] \in seen
    <2>1. \A k \in DOMAIN imports[f] : k < stack[n].next
        BY <1>1, <1>2, ImportsAreFiles
    <2> QED BY <1>2, <2>1 DEF LInv, DoneAreSeen, ImportDone
<1>4. Range(imports[f]) \subseteq seen
    <2>1. Range(imports[f]) = {imports[f][k] : k \in DOMAIN imports[f]}
        BY <1>2, ImportsAreFiles DEF LInv
    <2> QED BY <1>3, <2>1
<1>5. \A h \in Range(items) : Range(imports[h]) \subseteq seen
    BY EndedImports
<1>6. f \notin Range(items) /\ \A i \in 1 .. n - 1 : stack[i].file # f
    BY SMTT(30), <1>2 DEF LInv, EachOnce
<1> HIDE DEF n, f
<1>7. /\ items' \in Seq(File) /\ DOMAIN items' = 1 .. Len(items) + 1
      /\ \A i \in 1 .. Len(items) : items'[i] = items[i]
      /\ items'[Len(items) + 1] = f
      /\ \A i \in DOMAIN items' : i \in DOMAIN items \/ i = Len(items) + 1
    BY <1>1, <1>2
<1>8. Range(items)' = Range(items) \union {f}
    <2>1. Range(items) = {items[i] : i \in DOMAIN items} /\ Range(items)' = {items'[i] : i \in DOMAIN items'}
        BY DEF Range
    <2> QED BY <1>2, <1>7, <2>1
<1>9. \A i, j \in DOMAIN items' : items'[i] = items'[j] => i = j
    <2>1. \A i \in DOMAIN items : items[i] # f
        BY <1>6 DEF Range
    <2> QED BY <1>2, <1>7, <2>1 DEF LInv, EachOnce
\* What is in the program imports nothing still inside but on a cycle.
<1>10. ImportsComeFirst'
    <2> SUFFICES ASSUME NEW i \in DOMAIN items', NEW j \in DOMAIN items',
                        items'[j] \in Range(imports[items'[i]]), items'[i] \notin Reaches(items'[j])
                 PROVE  j < i
        BY <1>1, SameReach DEF ImportsComeFirst
    <2>1. CASE j \in DOMAIN items /\ i \in DOMAIN items
        BY <1>2, <1>7, <2>1 DEF LInv, ImportsComeFirst
    <2>2. CASE j \in DOMAIN items /\ i = Len(items) + 1
        BY <1>2, <2>2
    <2>3. CASE j = Len(items) + 1 /\ i = Len(items) + 1
        BY <1>1, <1>2, <1>7, <2>3, ReachesImports
    <2>4. CASE j = Len(items) + 1 /\ i \in DOMAIN items
        <3>1. items[i] \in Range(items)
            BY <2>4 DEF Range
        <3> QED BY <1>2, <1>7, <2>4, <3>1 DEF LInv, EndedInside
    <2> QED BY <1>7, <2>1, <2>2, <2>3, <2>4
<1>11. CASE n = 1
    <2>1. stack' = <<>> /\ loaded' = "yes" /\ edges' = edges
        BY <1>11 DEF EndFile, n
    <2>2. Inside = {f} /\ Inside' = {} /\ DOMAIN stack' = {} /\ Len(stack') = 0
        BY <1>2, <1>11, <2>1 DEF Inside
    <2>3. LTypeOK'
        BY <1>1, <1>7, <2>1 DEF LInv, LTypeOK
    <2>4. EachOnce'
        BY <1>1, <1>8, <1>9, <2>2 DEF LInv, EachOnce
    <2>5. DoneAreSeen' /\ EdgesAreDone'
        <3>1. ASSUME NEW g \in File, NEW k \in DOMAIN imports[g]
              PROVE  ImportDone(g, k)' <=> ImportDone(g, k)
            <4>1. CASE g = f
                BY <1>3, <1>8, <4>1 DEF ImportDone
            <4>2. CASE g # f
                BY <1>2, <1>8, <1>11, <2>2, <4>2 DEF ImportDone
            <4> QED BY <4>1, <4>2
        <3> QED BY <1>1, <2>1, <3>1, SameDone
    <2>6. CalledByImport' /\ CallersReach' /\ EndedInside'
        BY <2>2 DEF CalledByImport, CallersReach, EndedInside
    <2>7. FromEntry'
        BY <1>1, <1>2, <2>1, SameReach DEF LInv, FromEntry
    <2> QED BY <1>10, <2>3, <2>4, <2>5, <2>6, <2>7 DEF LInv
<1>12. CASE n # 1
    <2> DEFINE m == n - 1
               c == stack[m].file
               k == stack[m].next
    <2>1. /\ m \in Nat \ {0} /\ m \in 1 .. n /\ m \in DOMAIN stack /\ m + 1 = n /\ m \in 1 .. n - 1
          /\ stack[m] \in Frame /\ m - 1 \in 0 .. n /\ n - 2 = m - 1 /\ \A i \in 1 .. n : i \in 1 .. m \/ i = n
        BY <1>2, <1>12
    <2>2. /\ c \in File /\ k \in DOMAIN imports[c] /\ imports[c][k] = f /\ k \in Nat
        <3>1. m \in 1 .. Len(stack) - 1
            BY <1>2, <2>1 DEF n
        <3>2. /\ stack[m].next \in DOMAIN imports[stack[m].file]
              /\ imports[stack[m].file][stack[m].next] = stack[m + 1].file
            BY <3>1 DEF LInv, CalledByImport
        <3> QED BY <1>2, <2>1, <3>2
    <2>3. k + 1 \in 1 .. MaxImports + 1
        BY SMTT(30), <1>1, <1>2, <2>2, ImportsAreFiles
    <2>4. [stack[m] EXCEPT !.next = @ + 1] = [file |-> c, next |-> k + 1] /\ [file |-> c, next |-> k + 1] \in Frame
        BY <2>1, <2>2, <2>3 DEF Frame
    <2>5. /\ stack' = Append(SubSeq(stack, 1, m - 1), [file |-> c, next |-> k + 1])
          /\ edges' = edges \union {<<c, k, imports[c][k]>>} /\ loaded' = loaded
        BY <1>12, <2>1, <2>4 DEF EndFile, Record, n
    <2> HIDE DEF m, c, k
    <2>6. /\ stack' \in Seq(Frame) /\ Len(stack') = m /\ DOMAIN stack' = 1 .. m
          /\ \A i \in 1 .. m - 1 : stack'[i] = stack[i]
          /\ stack'[m] = [file |-> c, next |-> k + 1]
        <3>1. /\ SubSeq(stack, 1, m - 1) \in Seq(Frame) /\ Len(SubSeq(stack, 1, m - 1)) = m - 1
              /\ \A i \in 1 .. m - 1 : SubSeq(stack, 1, m - 1)[i] = stack[i]
            BY <1>2, <2>1, PrefixIs DEF n
        <3> QED BY <2>1, <2>4, <2>5, <3>1
    <2>7. /\ \A i \in 1 .. m : stack'[i].file = stack[i].file
          /\ \A i \in 1 .. m : i \in 1 .. m - 1 \/ i = m
        BY <2>1, <2>6 DEF c
    <2>8. Inside = Inside' \union {f}
        <3>1. Inside = {stack[i].file : i \in 1 .. n} /\ Inside' = {stack'[i].file : i \in 1 .. m}
            BY <1>2, <2>6 DEF Inside
        <3>2. \A i \in 1 .. m : i \in 1 .. n
            BY <1>2, <2>1
        <3>3. {stack[i].file : i \in 1 .. n} = {stack[i].file : i \in 1 .. m} \union {stack[n].file}
            BY <1>2, <2>1, <3>2
        <3>4. {stack'[i].file : i \in 1 .. m} = {stack[i].file : i \in 1 .. m}
            BY <2>7
        <3> QED BY <1>2, <3>1, <3>3, <3>4
    <2>9. f \notin Inside'
        BY <1>6, <2>1, <2>6, <2>7 DEF Inside
    <2>10. LTypeOK'
        BY <1>1, <1>7, <2>5, <2>6 DEF LInv, LTypeOK, Frame
    <2>11. EachOnce'
        <3>1. \A i, j \in DOMAIN stack' : stack'[i].file = stack'[j].file => i = j
            BY <1>2, <2>1, <2>6, <2>7 DEF LInv, EachOnce
        <3> QED BY <1>1, <1>8, <1>9, <2>8, <2>9, <3>1 DEF LInv, EachOnce
    <2>12. DoneAreSeen' /\ EdgesAreDone'
        <3>1. ASSUME NEW g \in File, NEW j \in DOMAIN imports[g]
              PROVE  ImportDone(g, j)' <=> ImportDone(g, j) \/ (g = c /\ j = k)
            <4>1. CASE g = f
                BY <1>3, <1>8, <4>1 DEF ImportDone
            <4>2. CASE g # f
                <5>1. j \in Nat
                    BY ImportsAreFiles DEF LInv
                <5>2. \A i \in 1 .. m - 1 : stack'[i].next = stack[i].next
                    BY <2>6
                <5>3. (stack'[m].file = g /\ j < stack'[m].next) <=> (stack[m].file = g /\ j < stack[m].next) \/ (g = c /\ j = k)
                    BY <2>2, <2>6, <5>1 DEF c, k
                <5>4. ImportDone(g, j) <=> g \in Range(items) \/ \E i \in 1 .. m : stack[i].file = g /\ j < stack[i].next
                    BY SMTT(30), <1>2, <2>1, <4>2 DEF ImportDone
                <5>5. ImportDone(g, j)' <=> g \in Range(items) \/ \E i \in 1 .. m : stack'[i].file = g /\ j < stack'[i].next
                    BY <1>8, <2>6, <4>2 DEF ImportDone
                <5> QED BY <2>1, <2>7, <5>2, <5>3, <5>4, <5>5
            <4> QED BY <4>1, <4>2
        <3>2. imports[c][k] \in seen' /\ seen \subseteq seen'
            BY <1>1, <1>2, <2>2
        <3> QED BY <1>1, <2>2, <2>5, <3>1, <3>2, OneMoreDone
    <2>13. CalledByImport'
        <3>1. \A i \in 1 .. Len(stack') - 1 : i \in 1 .. m - 1 /\ i + 1 \in 1 .. m /\ i \in 1 .. Len(stack) - 1
            <4>1. Len(stack') - 1 = m - 1 /\ Len(stack) - 1 = m
                <5>1. Len(stack) = n
                    BY DEF n
                <5> QED BY <1>2, <2>1, <2>6, <5>1
            <4>2. \A i \in 1 .. m - 1 : i \in 1 .. m /\ i + 1 \in 1 .. m
                BY <2>1
            <4> QED BY <4>1, <4>2
        <3> QED BY <1>1, <2>6, <2>7, <3>1 DEF LInv, CalledByImport
    <2>14. CallersReach'
        BY <1>1, <1>2, <2>1, <2>6, <2>7, SameReach DEF LInv, CallersReach
    <2>15. EndedInside'
        <3>1. \A i \in 1 .. m : i \in DOMAIN stack /\ i < n
            BY <1>2, <2>1
        <3>2. \A i \in 1 .. m : f \in Reaches(stack[i].file)
            BY <1>2, <3>1 DEF LInv, CallersReach
        <3> QED BY <1>1, <1>8, <2>6, <2>7, <3>1, <3>2, SameReach DEF LInv, EndedInside
    <2>16. FromEntry'
        <3>1. stack' # <<>>
            BY <2>1, <2>6
        <3> QED BY <1>1, <2>5, <3>1, SameReach DEF LInv, FromEntry
    <2> QED BY <1>10, <2>10, <2>11, <2>12, <2>13, <2>14, <2>15, <2>16 DEF LInv
<1> QED BY <1>11, <1>12
--------------------------------------------------------------------------------
LEMMA NextLoads == ASSUME LInv, [LNext]_loaderVars PROVE LInv'
<1>1. CASE loaderVars' = loaderVars
    <2>1. \A f : Reaches(f)' = Reaches(f)
        BY <1>1, SameReach DEF loaderVars
    <2>2. LTypeOK'
        BY <1>1 DEF loaderVars, LInv, LTypeOK
    <2>5. EachOnce' /\ CalledByImport'
        BY <1>1 DEF loaderVars, LInv, EachOnce, Inside, CalledByImport
    <2>3. DoneAreSeen' /\ EdgesAreDone'
        BY <1>1 DEF loaderVars, LInv, DoneAreSeen, EdgesAreDone, ImportDone
    <2>4. CallersReach' /\ EndedInside' /\ FromEntry' /\ ImportsComeFirst'
        BY <1>1, <2>1 DEF loaderVars, LInv, CallersReach, EndedInside, FromEntry, ImportsComeFirst
    <2> QED BY <2>2, <2>3, <2>4, <2>5 DEF LInv
<1>2. CASE LNext
    BY <1>2, LoadKeeps, ImportSeenKeeps, ImportNewKeeps, EndFileKeeps DEF LNext
<1> QED BY <1>1, <1>2

\* At the end what was read is closed under importing, so it is all there is to
\* reach.
LEMMA WholeAtEnd == ASSUME LInv PROVE WholeProgramOnce
<1>1. Cardinality(Range(items)) = Len(items)
    <2>1. items \in Bijection(1 .. Len(items), Range(items))
        BY InvFacts DEF LInv, EachOnce, Bijection, Injection, Surjection, IsInjective
    <2>2. IsFiniteSet(1 .. Len(items)) /\ Cardinality(1 .. Len(items)) = Len(items)
        <3>1. Len(items) \in Int /\ 1 \in Int /\ Len(items) >= 0
            BY InvFacts
        <3>2. Cardinality(1 .. Len(items)) = IF 1 > Len(items) THEN 0 ELSE Len(items) - 1 + 1
            BY <3>1, FS_Interval
        <3>3. IsFiniteSet(1 .. Len(items))
            BY <3>1, FS_Interval
        <3> QED BY <3>1, <3>2, <3>3
    <2> QED BY <2>1, <2>2, FS_Bijection DEF ExistsBijection
<1>2. ASSUME loaded = "yes"
      PROVE  /\ Range(items) = {Entry} \union Reaches(Entry)
             /\ edges = UNION {EdgesOf(f) : f \in Range(items)}
    <2>1. stack = <<>> /\ seen = Range(items) /\ Entry \in seen /\ seen \subseteq File
        <3>1. stack = <<>> /\ seen # {} /\ Entry \in seen
            BY <1>2 DEF LInv, FromEntry
        <3>2. Inside = {}
            BY <3>1 DEF Inside
        <3> QED BY <3>1, <3>2, InvFacts DEF LInv, EachOnce
    <2>2. Closed(seen)
        BY <2>1, EndedImports DEF Closed
    <2>3. Reaches(Entry) \subseteq seen
        BY <2>1, <2>2, EndedImports, ReachesNoMore
    <2>4. \A f, k : ImportDone(f, k) <=> f \in Range(items)
        BY <2>1 DEF ImportDone
    <2>5. \A e : e \in edges <=> \E f \in Range(items) : \E k \in DOMAIN imports[f] : e = <<f, k, imports[f][k]>>
        BY <2>1, <2>4 DEF LInv, EdgesAreDone
    <2>6. edges = UNION {EdgesOf(f) : f \in Range(items)}
        BY <2>5 DEF EdgesOf
    <2> QED BY <2>1, <2>3, <2>6 DEF LInv, FromEntry
<1> QED BY <1>1, <1>2 DEF WholeProgramOnce, LInv, FromEntry

\* Loading, whatever the files import: at its end the program has every file
\* the entry reaches, once, with every import statement's edge, or one of them
\* cannot be read (loader.rs, load_file); and at all times an imported file's
\* items precede its importer's unless the two are on a cycle.
THEOREM ProgramIsAlwaysWhole == LSpec => []ProgramIsWhole
<1>1. LInit => LInv
    BY InitLoads
<1>2. LInv /\ [LNext]_loaderVars => LInv'
    BY NextLoads
<1>3. LInv => ProgramIsWhole
    BY WholeAtEnd DEF ProgramIsWhole, LInv
<1> QED BY <1>1, <1>2, <1>3, PTL DEF LSpec

--------------------------------------------------------------------------------
(* Paths.  Normalise and Follow are folds; both take a path one component  *)
(* at a time.                                                              *)
NormaliseStep(out, part) ==
    CASE part = "." -> out
      [] part = ".." -> ParentDir(out)
      [] OTHER -> Append(out, part)
FollowStep(at, part) ==
    IF part = "." THEN at
    ELSE IF part # ".." THEN [at EXCEPT !.names = Append(@, part)]
    ELSE IF at.names # <<>> THEN [at EXCEPT !.names = Front(@)]
    ELSE [at EXCEPT !.up = @ + 1]
Step(walk, at, part) == IF walk = "follow" THEN FollowStep(at, part) ELSE NormaliseStep(at, part)
Start(walk) == IF walk = "follow" THEN [up |-> 0, names |-> <<>>] ELSE <<>>

Folds(it, walk, parts, D) ==
    it = [s \in SUBSET D |-> IF s = {} THEN Start(walk)
                             ELSE Step(walk, it[s \ {Max(s)}], parts[Max(s)])]

LEMMA FollowFolds ==
    ASSUME NEW parts
    PROVE  Follow(parts) = (CHOOSE it : Folds(it, "follow", parts, DOMAIN parts))[DOMAIN parts]
<1> DEFINE D == DOMAIN parts
           Plain(it) == it = [s \in SUBSET D |-> IF s = {} THEN [up |-> 0, names |-> <<>>]
                                                 ELSE FollowStep(it[s \ {Max(s)}], parts[Max(s)])]
<1>1. Follow(parts) = (CHOOSE it : Plain(it))[D]
    BY DEF Follow, FoldLeft, MapThenFoldSet, FollowStep, Max
<1>2. \A it : Plain(it) <=> Folds(it, "follow", parts, D)
    BY DEF Folds, Step, Start
<1> HIDE DEF Plain, D
<1>3. (CHOOSE it : Plain(it)) = CHOOSE it : Folds(it, "follow", parts, D)
    BY <1>2
<1> QED BY <1>1, <1>3 DEF D

LEMMA NormaliseFolds ==
    ASSUME NEW parts
    PROVE  Normalise(parts) = (CHOOSE it : Folds(it, "normalise", parts, DOMAIN parts))[DOMAIN parts]
<1> DEFINE D == DOMAIN parts
           Plain(it) == it = [s \in SUBSET D |-> IF s = {} THEN <<>>
                                                 ELSE NormaliseStep(it[s \ {Max(s)}], parts[Max(s)])]
<1>1. Normalise(parts) = (CHOOSE it : Plain(it))[D]
    BY DEF Normalise, FoldLeft, MapThenFoldSet, NormaliseStep, Max
<1>2. \A it : Plain(it) <=> Folds(it, "normalise", parts, D)
    BY DEF Folds, Step, Start
<1> HIDE DEF Plain, D
<1>3. (CHOOSE it : Plain(it)) = CHOOSE it : Folds(it, "normalise", parts, D)
    BY <1>2
<1> QED BY <1>1, <1>3 DEF D

LEMMA LargestPart ==
    ASSUME NEW size \in Nat, NEW s \in SUBSET (1 .. size), s # {}
    PROVE  Max(s) \in s /\ \A x \in s : x <= Max(s)
<1> DEFINE T == {size - x : x \in s}
<1>1. T \subseteq Nat /\ T # {}
  <2>1. \A x \in s : size - x \in Nat
      BY SMT
  <2> QED BY <2>1
<1>2. PICK y \in T : \A z \in T : ~(<<z, y>> \in OpToRel(<, Nat))
    BY <1>1, WFMin, NatLessThanWellFounded
<1>3. \A z \in T : ~(z < y)
    BY <1>1, <1>2 DEF OpToRel
<1>4. PICK x \in s : y = size - x
    OBVIOUS
<1>5. \A w \in s : x >= w
  <2> TAKE w \in s
  <2>1. ~(size - w < size - x)
      BY <1>3, <1>4
  <2> QED BY <2>1
<1> QED BY <1>5 DEF Max

\* What holds of 0, and of i + 1 when of i, holds of every number: S is the set
\* of those it holds of.
LEMMA Upwards ==
    ASSUME NEW S, 0 \in S, \A i \in Nat : i \in S => i + 1 \in S
    PROVE  Nat \subseteq S
<1> SUFFICES ASSUME Nat \ S # {} PROVE FALSE
    OBVIOUS
<1>1. PICK k \in Nat \ S : \A j \in Nat \ S : ~(<<j, k>> \in OpToRel(<, Nat))
    BY WFMin, NatLessThanWellFounded
<1>2. \A j \in Nat \ S : ~(j < k)
    BY <1>1 DEF OpToRel
<1>3. k - 1 \in Nat /\ k - 1 < k /\ (k - 1) + 1 = k
    <2>1. k \in Nat /\ k \notin S
        BY <1>1
    <2>2. k # 0
        BY <2>1
    <2> HIDE <1>1
    <2> QED BY <2>1, <2>2
<1>4. k - 1 \in S
    BY <1>2, <1>3
<1>5. (k - 1) + 1 \in S
    BY <1>3, <1>4
<1> QED BY <1>1, <1>3, <1>5

\* There is a function that folds a path over every set of its places.
LEMMA PathFolds ==
    ASSUME NEW walk, NEW parts, NEW size \in Nat
    PROVE  \E it : Folds(it, walk, parts, 1 .. size)
<1> DEFINE S == {i \in Nat : \E it : Folds(it, walk, parts, 1 .. i)}
<1>1. 0 \in S
  <2> DEFINE it == [s \in SUBSET (1 .. 0) |-> Start(walk)]
  <2>1. \A s \in SUBSET (1 .. 0) : s = {}
      OBVIOUS
  <2>2. Folds(it, walk, parts, 1 .. 0)
      BY <2>1 DEF Folds
  <2> HIDE DEF it
  <2> QED BY <2>2
<1>2. ASSUME NEW i \in Nat, i \in S PROVE i + 1 \in S
  <2>1. PICK g : Folds(g, walk, parts, 1 .. i)
      BY <1>2
  <2> DEFINE All == SUBSET (1 .. i + 1)
             h == [s \in All |-> IF i + 1 \in s THEN Step(walk, g[s \ {i + 1}], parts[i + 1]) ELSE g[s]]
  <2>2. \A s \in SUBSET (1 .. i) : g[s] = IF s = {} THEN Start(walk) ELSE Step(walk, g[s \ {Max(s)}], parts[Max(s)])
      BY <2>1 DEF Folds
  <2>3. ASSUME NEW s \in All
        PROVE  h[s] = IF s = {} THEN Start(walk) ELSE Step(walk, h[s \ {Max(s)}], parts[Max(s)])
    <3> DEFINE m == Max(s)
    <3>1. i + 1 \in Nat
        OBVIOUS
    <3>2. CASE s = {}
      <4>1. {} \in SUBSET (1 .. i)
          OBVIOUS
      <4> QED BY <2>2, <3>2, <4>1
    <3>3. CASE s # {} /\ i + 1 \in s
      <4>1. m \in s /\ \A x \in s : x <= m
          BY <3>1, <3>3, LargestPart
      <4> HIDE DEF m
      <4>2. m = i + 1
        <5>1. m \in 1 .. i + 1 /\ i + 1 <= m
            BY <3>3, <4>1
        <5> QED BY <5>1
      <4>3. s \ {i + 1} \in All /\ i + 1 \notin s \ {i + 1}
          OBVIOUS
      <4>4. h[s] = Step(walk, g[s \ {i + 1}], parts[i + 1]) /\ h[s \ {i + 1}] = g[s \ {i + 1}]
          BY <3>3, <4>3
      <4> HIDE DEF h
      <4> QED BY <3>3, <4>2, <4>4 DEF m
    <3>4. CASE s # {} /\ i + 1 \notin s
      <4>1. s \in SUBSET (1 .. i) /\ s \ {m} \in All /\ i + 1 \notin s \ {m}
        <5>1. \A x \in 1 .. i + 1 : x # i + 1 => x \in 1 .. i
            OBVIOUS
        <5>2. s \in SUBSET (1 .. i)
            BY <3>4, <5>1
        <5> QED BY <3>4, <5>2
      <4>2. h[s] = g[s] /\ h[s \ {m}] = g[s \ {m}]
          BY <3>4, <4>1
      <4> HIDE DEF h, m
      <4> QED BY <2>2, <3>4, <4>1, <4>2 DEF m
    <3> QED BY <3>2, <3>3, <3>4
  <2>4. h = [s \in All |-> h[s]]
      OBVIOUS
  <2> HIDE DEF h
  <2>5. Folds(h, walk, parts, 1 .. i + 1)
      BY <2>3, <2>4 DEF Folds
  <2> QED BY <2>5
<1> HIDE DEF S
<1>3. Nat \subseteq S
    BY <1>1, <1>2, Upwards
<1> QED BY <1>3 DEF S

LEMMA PathSteps ==
    ASSUME NEW walk, NEW parts, NEW size \in Nat, NEW it, Folds(it, walk, parts, 1 .. size)
    PROVE  /\ it[1 .. 0] = Start(walk)
           /\ \A k \in 1 .. size : it[1 .. k] = Step(walk, it[1 .. k - 1], parts[k])
<1>1. \A t \in SUBSET (1 .. size) : it[t] = IF t = {} THEN Start(walk) ELSE Step(walk, it[t \ {Max(t)}], parts[Max(t)])
    BY DEF Folds
<1>2. 1 .. 0 = {} /\ {} \in SUBSET (1 .. size)
    OBVIOUS
<1>3. ASSUME NEW k \in 1 .. size PROVE it[1 .. k] = Step(walk, it[1 .. k - 1], parts[k])
  <2>1. 1 .. k \in SUBSET (1 .. size) /\ k \in 1 .. k /\ (1 .. k) \ {k} = 1 .. k - 1
      OBVIOUS
  <2>2. Max(1 .. k) \in 1 .. k /\ \A x \in 1 .. k : x <= Max(1 .. k)
      BY <2>1, LargestPart
  <2>3. Max(1 .. k) = k
      BY <2>1, <2>2
  <2> QED BY <1>1, <2>1, <2>3
<1> QED BY <1>1, <1>2, <1>3

\* Where a walk is after each component of a path.
Goes(at, walk, parts) ==
    /\ at[0] = Start(walk)
    /\ \A k \in 1 .. Len(parts) : at[k] = Step(walk, at[k - 1], parts[k])

LEMMA Walked ==
    ASSUME NEW walk, NEW parts \in Seq(Part), NEW it,
           it = CHOOSE f : Folds(f, walk, parts, DOMAIN parts)
    PROVE  \E at : Goes(at, walk, parts) /\ at[Len(parts)] = it[DOMAIN parts]
<1> DEFINE size == Len(parts)
           at == [k \in 0 .. size |-> it[1 .. k]]
<1>1. size \in Nat /\ DOMAIN parts = 1 .. size
    OBVIOUS
<1> HIDE DEF size
<1>2. Folds(it, walk, parts, 1 .. size)
  <2>1. \E f : Folds(f, walk, parts, 1 .. size)
      BY <1>1, PathFolds
  <2> QED BY <1>1, <2>1
<1>3. /\ it[1 .. 0] = Start(walk)
      /\ \A k \in 1 .. size : it[1 .. k] = Step(walk, it[1 .. k - 1], parts[k])
    BY <1>1, <1>2, PathSteps
<1>4. at[0] = Start(walk) /\ at[size] = it[1 .. size]
    BY <1>1, <1>3
<1>5. ASSUME NEW k \in 1 .. size PROVE at[k] = Step(walk, at[k - 1], parts[k])
  <2>1. k \in 0 .. size /\ k - 1 \in 0 .. size
      BY <1>1
  <2> QED BY <1>3, <2>1
<1> HIDE DEF at
<1>6. Goes(at, walk, parts)
    BY <1>4, <1>5 DEF Goes, size
<1> QED BY <1>1, <1>4, <1>6 DEF size

LEMMA FollowGoes ==
    ASSUME NEW parts \in Seq(Part)
    PROVE  \E at : Goes(at, "follow", parts) /\ at[Len(parts)] = Follow(parts)
BY Walked, FollowFolds

LEMMA NormaliseGoes ==
    ASSUME NEW parts \in Seq(Part)
    PROVE  \E at : Goes(at, "normalise", parts) /\ at[Len(parts)] = Normalise(parts)
BY Walked, NormaliseFolds

Named == Part \ {".", ".."}
Climbed(names) == <<"..">> \o names
Place(up, names) == [up |-> up, names |-> names]

\* Normalise has kept the names taken, below the one `..` if the path climbs.
KeepsUp(at, out) ==
    \E up \in Nat, names \in Seq(Named) :
        /\ at = Place(up, names)
        /\ up = 0 => out = names
        /\ up = 1 => out = Climbed(names)

LEMMA StepsFollow ==
    ASSUME NEW up \in Nat, NEW names \in Seq(Named)
    PROVE  /\ FollowStep(Place(up, names), ".") = Place(up, names)
           /\ \A part \in Named : FollowStep(Place(up, names), part) = Place(up, Append(names, part))
           /\ names # <<>> => FollowStep(Place(up, names), "..") = Place(up, Front(names))
           /\ FollowStep(Place(up, <<>>), "..") = Place(up + 1, <<>>)
<1>1. "." # ".."
    OBVIOUS
<1>2. FollowStep(Place(up, names), ".") = Place(up, names)
    BY DEF FollowStep
<1>3. ASSUME NEW part \in Named PROVE FollowStep(Place(up, names), part) = Place(up, Append(names, part))
  <2>1. part # "." /\ part # ".."
      BY DEF Named
  <2> QED BY <2>1 DEF FollowStep, Place
<1>4. ASSUME names # <<>> PROVE FollowStep(Place(up, names), "..") = Place(up, Front(names))
    BY <1>1, <1>4 DEF FollowStep, Place
<1>5. FollowStep(Place(up, <<>>), "..") = Place(up + 1, <<>>)
    BY <1>1 DEF FollowStep, Place
<1> QED BY <1>2, <1>3, <1>4, <1>5

LEMMA NamesAbove ==
    ASSUME NEW names \in Seq(Named)
    PROVE  /\ Climbed(names) # <<>> /\ Climbed(names) \in Seq(Part)
           /\ Len(Climbed(names)) = Len(names) + 1
           /\ Climbed(names)[1] = ".." /\ \A i \in 1 .. Len(names) : Climbed(names)[i + 1] = names[i]
           /\ \A part \in Named : Append(Climbed(names), part) = Climbed(Append(names, part))
           /\ names # <<>> => Front(names) \in Seq(Named) /\ Front(Climbed(names)) = Climbed(Front(names))
           /\ Front(Climbed(<<>>)) = <<>> /\ Climbed(<<>>) = <<"..">>
<1>1. <<"..">> \in Seq(Part) /\ names \in Seq(Part) /\ ".." \in Part
    BY DEF Part, Named
<1>2. /\ Climbed(names) \in Seq(Part) /\ Len(Climbed(names)) = Len(names) + 1 /\ Len(names) \in Nat
      /\ Climbed(names)[1] = ".." /\ \A i \in 1 .. Len(names) : Climbed(names)[i + 1] = names[i]
    BY <1>1 DEF Climbed
<1>3. Climbed(names) # <<>>
    BY <1>2
<1>4. ASSUME NEW part \in Named PROVE Append(Climbed(names), part) = Climbed(Append(names, part))
  <2>1. part \in Part
      BY DEF Named
  <2>2. Append(names, part) = names \o <<part>> /\ <<part>> \in Seq(Part)
      BY <1>1, <2>1, AppendIsConcat
  <2>3. Append(Climbed(names), part) = Climbed(names) \o <<part>>
      BY <1>2, <2>1, AppendIsConcat
  <2> QED BY <1>1, <2>2, <2>3, ConcatAssociative DEF Climbed
<1>5. ASSUME names # <<>>
      PROVE  Front(names) \in Seq(Named) /\ Front(Climbed(names)) = Climbed(Front(names))
  <2> DEFINE less == Front(names)
  <2>1. Len(names) # 0
      BY <1>5, EmptySeq
  <2>2. less \in Seq(Named) /\ Len(less) = Len(names) - 1 /\ \A i \in 1 .. Len(names) - 1 : less[i] = names[i]
      BY <2>1, FrontIs
  <2>3. less \in Seq(Part)
      BY <2>2 DEF Named
  <2>4. /\ Front(Climbed(names)) \in Seq(Part) /\ Len(Front(Climbed(names))) = Len(names)
        /\ \A i \in 1 .. Len(names) : Front(Climbed(names))[i] = Climbed(names)[i]
      BY <1>2, FrontIs
  <2> HIDE DEF less
  <2>5. Climbed(less) \in Seq(Part) /\ Len(Climbed(less)) = Len(names)
        /\ Climbed(less)[1] = ".." /\ \A i \in 1 .. Len(less) : Climbed(less)[i + 1] = less[i]
      BY <1>1, <1>2, <2>2, <2>3 DEF Climbed
  <2>6. ASSUME NEW i \in 1 .. Len(names) PROVE Front(Climbed(names))[i] = Climbed(less)[i]
    <3>1. CASE i = 1
        BY <1>2, <2>4, <2>5, <3>1
    <3>2. CASE i # 1
      <4>1. i - 1 \in 1 .. Len(names) /\ i - 1 \in 1 .. Len(less) /\ i - 1 \in 1 .. Len(names) - 1 /\ (i - 1) + 1 = i
          BY <1>2, <2>2, <3>2
      <4>2. Climbed(names)[i] = names[i - 1] /\ Climbed(less)[i] = less[i - 1]
          BY <1>2, <2>5, <4>1
      <4> QED BY <2>2, <2>4, <4>1, <4>2
    <3> QED BY <3>1, <3>2
  <2>7. Front(Climbed(names)) = Climbed(less)
      BY <2>4, <2>5, <2>6, SeqEqual
  <2> QED BY <2>2, <2>7 DEF less
<1>6. Climbed(<<>>) = <<"..">>
    BY <1>1 DEF Climbed
<1>7. Front(Climbed(<<>>)) = <<>>
  <2>1. Climbed(<<>>) \in Seq(Part) /\ Len(Climbed(<<>>)) # 0 /\ Len(Climbed(<<>>)) - 1 = 0
    <3>1. Len(<<"..">>) = 1
        OBVIOUS
    <3>2. Len(Climbed(<<>>)) = 1
        BY <1>6, <3>1
    <3>3. Climbed(<<>>) \in Seq(Part)
        BY <1>1, <1>6
    <3>4. 1 # 0 /\ 1 - 1 = 0
        OBVIOUS
    <3> QED BY <3>2, <3>3, <3>4
  <2>2. Front(Climbed(<<>>)) \in Seq(Part) /\ Len(Front(Climbed(<<>>))) = 0
      BY <2>1, FrontIs
  <2> QED BY <2>2, EmptySeq
<1> QED BY <1>2, <1>3, <1>4, <1>5, <1>6, <1>7

LEMMA NormalisesOne ==
    ASSUME NEW at, NEW out, KeepsUp(at, out), NEW part \in Part
    PROVE  KeepsUp(FollowStep(at, part), NormaliseStep(out, part))
<1>1. PICK up \in Nat, names \in Seq(Named) : /\ at = Place(up, names) /\ (up = 0 => out = names)
                                              /\ (up = 1 => out = Climbed(names))
    BY DEF KeepsUp
<1>2. "." # ".." /\ <<>> \in Seq(Named)
    OBVIOUS
<1>3. CASE part = "."
  <2>1. FollowStep(at, part) = at /\ NormaliseStep(out, part) = out
      BY <1>1, <1>3, StepsFollow DEF NormaliseStep
  <2> QED BY <2>1
<1>4. CASE part \in Named
  <2>1. FollowStep(at, part) = Place(up, Append(names, part)) /\ Append(names, part) \in Seq(Named)
      BY <1>1, <1>4, StepsFollow
  <2>2. NormaliseStep(out, part) = Append(out, part)
      BY <1>4 DEF NormaliseStep, Named
  <2>3. Append(Climbed(names), part) = Climbed(Append(names, part))
      BY <1>4, NamesAbove
  <2> QED BY <1>1, <2>1, <2>2, <2>3 DEF KeepsUp
<1>5. CASE part = ".." /\ names # <<>>
  <2>1. FollowStep(at, part) = Place(up, Front(names)) /\ Front(names) \in Seq(Named)
      BY <1>1, <1>5, StepsFollow, NamesAbove
  <2>2. NormaliseStep(out, part) = ParentDir(out)
      BY <1>2, <1>5 DEF NormaliseStep
  <2>3. up = 0 => ParentDir(out) = Front(names)
      BY <1>1, <1>5 DEF ParentDir
  <2>4. up = 1 => ParentDir(out) = Climbed(Front(names))
      BY <1>1, <1>5, NamesAbove DEF ParentDir
  <2> QED BY <1>1, <2>1, <2>2, <2>3, <2>4 DEF KeepsUp
<1>6. CASE part = ".." /\ names = <<>>
  <2>1. FollowStep(at, part) = Place(up + 1, <<>>) /\ up + 1 \in Nat /\ up + 1 # 0
    <3>1. at = Place(up, <<>>)
        BY <1>1, <1>6
    <3>2. FollowStep(Place(up, <<>>), "..") = Place(up + 1, <<>>)
        BY <1>2, StepsFollow
    <3>3. up + 1 \in Nat /\ up + 1 # 0
        OBVIOUS
    <3> QED BY <1>6, <3>1, <3>2, <3>3
  <2>2. NormaliseStep(out, part) = ParentDir(out)
      BY <1>2, <1>6 DEF NormaliseStep
  <2>3. up + 1 = 1 => up = 0
      BY <1>1
  <2>4. up = 0 => ParentDir(out) = Climbed(<<>>)
      BY <1>1, <1>2, <1>6, NamesAbove DEF ParentDir
  <2> QED BY <1>2, <2>1, <2>2, <2>3, <2>4 DEF KeepsUp
<1> QED BY <1>3, <1>4, <1>5, <1>6 DEF Named, Part

LEMMA NormalisesAll ==
    ASSUME NEW parts \in Seq(Part)
    PROVE  KeepsUp(Follow(parts), Normalise(parts))
<1>1. PICK at : Goes(at, "follow", parts) /\ at[Len(parts)] = Follow(parts)
    BY FollowGoes
<1>2. PICK out : Goes(out, "normalise", parts) /\ out[Len(parts)] = Normalise(parts)
    BY NormaliseGoes
<1> DEFINE S == {k \in Nat : k <= Len(parts) => KeepsUp(at[k], out[k])}
<1>3. 0 \in S
  <2>1. at[0] = Place(0, <<>>) /\ out[0] = <<>>
      BY <1>1, <1>2 DEF Goes, Start, Place
  <2>2. <<>> \in Seq(Named) /\ 0 \in Nat /\ 0 # 1
      OBVIOUS
  <2>3. KeepsUp(at[0], out[0])
      BY <2>1, <2>2 DEF KeepsUp
  <2> QED BY <2>3
<1>4. ASSUME NEW k \in Nat, k \in S PROVE k + 1 \in S
  <2> SUFFICES ASSUME k + 1 <= Len(parts) PROVE KeepsUp(at[k + 1], out[k + 1])
      OBVIOUS
  <2>1. k + 1 \in 1 .. Len(parts) /\ (k + 1) - 1 = k /\ k <= Len(parts)
      OBVIOUS
  <2>2. KeepsUp(at[k], out[k])
      BY <1>4, <2>1
  <2>3. parts[k + 1] \in Part
      BY <2>1
  <2>4. at[k + 1] = FollowStep(at[k], parts[k + 1])
      BY <1>1, <2>1 DEF Goes, Step
  <2>5. out[k + 1] = NormaliseStep(out[k], parts[k + 1])
      BY <1>2, <2>1 DEF Goes, Step
  <2> QED BY <2>2, <2>3, <2>4, <2>5, NormalisesOne
<1> HIDE DEF S
<1>5. Nat \subseteq S
    BY <1>3, <1>4, Upwards
<1>6. Len(parts) \in S /\ Len(parts) <= Len(parts)
    BY <1>5
<1> QED BY <1>1, <1>2, <1>6 DEF S

\* Names alone, below one `..` or none, lead down from where they begin.
LEMMA FollowsNames ==
    ASSUME NEW up \in {0, 1}, NEW names \in Seq(Named), NEW parts \in Seq(Part),
           Len(parts) = up + Len(names), up = 1 => parts[1] = "..",
           \A i \in 1 .. Len(names) : parts[up + i] = names[i]
    PROVE  Follow(parts) = Place(up, names)
<1>1. PICK at : Goes(at, "follow", parts) /\ at[Len(parts)] = Follow(parts)
    BY FollowGoes
<1> DEFINE taken(k) == SubSeq(names, 1, k)
           S == {k \in Nat : k <= Len(names) => at[up + k] = Place(up, taken(k))}
<1>2. \A k \in 0 .. Len(names) : taken(k) \in Seq(Named) /\ Len(taken(k)) = k /\ \A i \in 1 .. k : taken(k)[i] = names[i]
    BY PrefixIs
<1>3. taken(0) = <<>> /\ taken(Len(names)) = names
  <2>1. Len(names) \in Nat /\ 0 \in 0 .. Len(names) /\ Len(names) \in 0 .. Len(names)
      OBVIOUS
  <2>2. taken(0) = <<>>
      BY <1>2, <2>1, EmptySeq
  <2>3. taken(Len(names)) = names
      BY <1>2, <2>1, SeqEqual
  <2> QED BY <2>2, <2>3
<1> HIDE DEF taken
<1>4. at[0] = Place(0, <<>>)
    BY <1>1 DEF Goes, Start, Place
<1>5. \A k \in 1 .. Len(parts) : at[k] = FollowStep(at[k - 1], parts[k])
    BY <1>1 DEF Goes, Step
<1>6. 0 \in S
  <2>1. CASE up = 0
      BY <1>3, <1>4, <2>1
  <2>2. CASE up = 1
    <3>1. 1 \in 1 .. Len(parts) /\ 1 - 1 = 0 /\ 0 + 1 = 1 /\ up + 0 = 1
        BY <2>2
    <3>2. at[1] = FollowStep(at[0], "..")
        BY <1>5, <2>2, <3>1
    <3>3. FollowStep(Place(0, <<>>), "..") = Place(0 + 1, <<>>)
        BY StepsFollow
    <3> QED BY <1>3, <1>4, <2>2, <3>1, <3>2, <3>3
  <2> QED BY <2>1, <2>2
<1>7. ASSUME NEW k \in Nat, k \in S PROVE k + 1 \in S
  <2> SUFFICES ASSUME k + 1 <= Len(names) PROVE at[up + (k + 1)] = Place(up, taken(k + 1))
      OBVIOUS
  <2>1. /\ k + 1 \in 1 .. Len(names) /\ k \in 0 .. Len(names) /\ k + 1 \in 0 .. Len(names) /\ k <= Len(names)
        /\ up + (k + 1) \in 1 .. Len(parts) /\ (up + (k + 1)) - 1 = up + k
      OBVIOUS
  <2>2. at[up + k] = Place(up, taken(k))
      BY <1>7, <2>1
  <2>3. names[k + 1] \in Named /\ parts[up + (k + 1)] = names[k + 1]
      BY <2>1
  <2>4. at[up + (k + 1)] = FollowStep(Place(up, taken(k)), names[k + 1])
      BY <1>5, <2>1, <2>2, <2>3
  <2>5. taken(k) \in Seq(Named) /\ up \in Nat
      BY <1>2, <2>1
  <2>6. FollowStep(Place(up, taken(k)), names[k + 1]) = Place(up, Append(taken(k), names[k + 1]))
      BY <2>3, <2>5, StepsFollow
  <2>7. Append(taken(k), names[k + 1]) = taken(k + 1)
    <3> DEFINE more == Append(taken(k), names[k + 1])
    <3>1. Len(taken(k)) = k /\ \A i \in 1 .. k : taken(k)[i] = names[i]
        BY <1>2, <2>1
    <3>2. /\ more \in Seq(Named) /\ Len(more) = k + 1 /\ more[k + 1] = names[k + 1]
          /\ \A i \in 1 .. k : more[i] = taken(k)[i]
        BY <2>3, <2>5, <3>1
    <3>3. taken(k + 1) \in Seq(Named) /\ Len(taken(k + 1)) = k + 1 /\ \A i \in 1 .. k + 1 : taken(k + 1)[i] = names[i]
        BY <1>2, <2>1
    <3> HIDE DEF more
    <3>4. \A i \in 1 .. k + 1 : i = k + 1 \/ i \in 1 .. k
        OBVIOUS
    <3>5. \A i \in 1 .. k + 1 : more[i] = taken(k + 1)[i]
        BY <3>1, <3>2, <3>3, <3>4
    <3> QED BY <3>2, <3>3, <3>5, SeqEqual DEF more
  <2> QED BY <2>4, <2>6, <2>7
<1> HIDE DEF S
<1>8. Nat \subseteq S
    BY <1>6, <1>7, Upwards
<1>9. at[up + Len(names)] = Place(up, taken(Len(names)))
    BY <1>8 DEF S
<1> QED BY <1>1, <1>3, <1>9

\* A path that climbs one directory at most leads where its normal form leads:
\* what load_file skips, because its key was seen, is a file that was read.
THEOREM NormalisedIsTheSame ==
    ASSUME NEW parts \in Seq(Part), Follow(parts).up <= 1
    PROVE  Follow(Normalise(parts)) = Follow(parts)
<1>1. PICK up \in Nat, names \in Seq(Named) : /\ Follow(parts) = Place(up, names)
                                              /\ (up = 0 => Normalise(parts) = names)
                                              /\ (up = 1 => Normalise(parts) = Climbed(names))
    BY NormalisesAll DEF KeepsUp
<1>2. up \in {0, 1}
  <2>1. Place(up, names).up = up
      BY DEF Place
  <2> QED BY <1>1, <2>1
<1>3. CASE up = 0
  <2>1. names \in Seq(Part) /\ Len(names) = 0 + Len(names) /\ \A i \in 1 .. Len(names) : names[0 + i] = names[i]
      BY DEF Named
  <2>2. Follow(names) = Place(0, names)
      BY <2>1, FollowsNames
  <2> QED BY <1>1, <1>3, <2>2
<1>4. CASE up = 1
  <2>1. /\ Climbed(names) \in Seq(Part) /\ Len(Climbed(names)) = 1 + Len(names) /\ Climbed(names)[1] = ".."
        /\ \A i \in 1 .. Len(names) : Climbed(names)[1 + i] = names[i]
    <3>1. \A i \in 1 .. Len(names) : 1 + i = i + 1
        OBVIOUS
    <3> QED BY <3>1, NamesAbove
  <2>2. Follow(Climbed(names)) = Place(1, names)
      BY <2>1, FollowsNames
  <2> QED BY <1>1, <1>4, <2>2
<1> QED BY <1>2, <1>3, <1>4

\* As run `tools` checks it.  Two levels up, PathBuf::pop takes the first `..`
\* for the second (src/src/loader.rs:340), and the theorem is false.
THEOREM PathsAlwaysKept == ASSUME MaxClimb <= 1 PROVE LSpec => []NormaliseKeepsTheFile
<1> DEFINE Fine == path \in Seq(Part) /\ Follow(path).up <= 1
<1>1. LInit => Fine
  <2> SUFFICES ASSUME LInit PROVE Fine
      OBVIOUS
  <2>1. PICK n \in 0 .. MaxParts : path \in [1 .. n -> Part]
      BY DEF LInit
  <2>2. n \in Nat
      BY LoaderAssumption
  <2>3. path \in Seq(Part)
      BY <2>1, <2>2
  <2>4. Follow(path).up \in Nat
    <3>1. PICK up \in Nat, names \in Seq(Named) : Follow(path) = Place(up, names)
        BY <2>3, NormalisesAll DEF KeepsUp
    <3> QED BY <3>1 DEF Place
  <2>5. Follow(path).up <= MaxClimb /\ MaxClimb \in Nat
      BY LoaderAssumption DEF LInit
  <2> QED BY <2>3, <2>4, <2>5
<1>2. Fine /\ [LNext]_loaderVars => Fine'
  <2> SUFFICES ASSUME Fine, [LNext]_loaderVars PROVE Fine'
      OBVIOUS
  <2>1. path' = path
      BY DEF LNext, Load, ImportSeen, ImportNew, EndFile, loaderVars
  <2> QED BY <2>1 DEF Follow, FoldLeft, MapThenFoldSet
<1>3. Fine => NormaliseKeepsTheFile
    BY NormalisedIsTheSame DEF NormaliseKeepsTheFile
<1> QED BY <1>1, <1>2, <1>3, PTL DEF LSpec

--------------------------------------------------------------------------------
(* Fetching.                                                               *)

(* The invariant, in parts.                                                *)

HeadOf(d) == clone[job.at][d.name].head

\* A fetch resolves one tag for a name, and what it resolved is checked out.
OneVersion == \A d, e \in job.resolved : d.name = e.name => d = e
CheckedOut == \A d \in job.resolved : clone[job.at][d.name] # None /\ HeadOf(d) \in Commits

\* Unless one failed, what a resolved dependency wants in turn is resolved or
\* still on the list.
NothingForgotten ==
    ~job.failed => \A d \in job.resolved :
                       Wants[d.name][HeadOf(d)] \subseteq job.resolved \union Range(job.queue)

FetchInv ==
    /\ FTypeOK /\ LockIsClosed
    /\ job # None => OneVersion /\ CheckedOut /\ NothingForgotten
--------------------------------------------------------------------------------
(* Sequences of dependencies.                                              *)

\* SetToSeq lists a finite set, each element once.
LEMMA ListsTheSet ==
    ASSUME NEW S, IsFiniteSet(S)
    PROVE  SetToSeq(S) \in Seq(S) /\ Range(SetToSeq(S)) = S
<1> DEFINE n == Cardinality(S)
           f == SetToSeq(S)
<1>1. n \in Nat /\ ExistsBijection(1 .. n, S)
    BY FS_CardinalityType
<1>2. \E g \in [1 .. n -> S] : IsInjective(g)
    BY <1>1 DEF ExistsBijection, Bijection, Injection, IsInjective
<1>3. f \in [1 .. n -> S] /\ IsInjective(f)
    BY <1>2 DEF SetToSeq
<1>4. f \in Injection(1 .. n, S)
    BY <1>3 DEF Injection, IsInjective
<1>5. Cardinality(1 .. n) = n
    BY <1>1, FS_Interval
<1>6. f \in Surjection(1 .. n, S)
    BY <1>4, <1>5, FS_Injection
<1> HIDE DEF n, f
<1>7. Range(f) = S
    BY <1>6 DEF Surjection, Range
<1>8. f \in Seq(S)
    BY <1>1, <1>3
<1> QED BY <1>7, <1>8 DEF f

LEMMA RangeOfConcat ==
    ASSUME NEW S, NEW s \in Seq(S), NEW t \in Seq(S)
    PROVE  s \o t \in Seq(S) /\ Range(s \o t) = Range(s) \union Range(t)
<1>1. /\ s \o t \in Seq(S) /\ Len(s \o t) = Len(s) + Len(t)
      /\ \A i \in 1 .. Len(s) : (s \o t)[i] = s[i]
      /\ \A i \in 1 .. Len(t) : (s \o t)[Len(s) + i] = t[i]
    OBVIOUS
<1>2. Range(s \o t) \subseteq Range(s) \union Range(t)
    <2> SUFFICES ASSUME NEW i \in 1 .. Len(s) + Len(t)
                 PROVE  (s \o t)[i] \in Range(s) \union Range(t)
        BY <1>1 DEF Range
    <2>1. CASE i \in 1 .. Len(s)
        BY <1>1, <2>1 DEF Range
    <2>2. CASE i \notin 1 .. Len(s)
        <3>1. i - Len(s) \in 1 .. Len(t) /\ i = Len(s) + (i - Len(s))
            BY <2>2
        <3> QED BY <1>1, <3>1 DEF Range
    <2> QED BY <2>1, <2>2
<1>3. Range(s) \subseteq Range(s \o t)
    BY <1>1 DEF Range
<1>4. Range(t) \subseteq Range(s \o t)
    <2> SUFFICES ASSUME NEW i \in 1 .. Len(t) PROVE t[i] \in Range(s \o t)
        BY DEF Range
    <2>1. Len(s) + i \in 1 .. Len(s \o t)
        BY <1>1
    <2> QED BY <1>1, <2>1 DEF Range
<1> QED BY <1>1, <1>2, <1>3, <1>4

\* The list is what was popped from its end and the rest.
LEMMA PoppedAndRest ==
    ASSUME NEW S, NEW s \in Seq(S), s # <<>>
    PROVE  /\ Front(s) \in Seq(S) /\ Last(s) \in S
           /\ Range(s) = Range(Front(s)) \union {Last(s)}
<1> DEFINE m == Len(s) - 1
<1>1. m \in Nat /\ Len(s) = m + 1 /\ DOMAIN s = 1 .. m + 1
    <2>1. DOMAIN s = 1 .. Len(s) /\ Len(s) \in Nat \ {0}
        OBVIOUS
    <2> QED BY <2>1
<1> HIDE DEF m
<1>2. Last(s) = s[m + 1] /\ Front(s) = SubSeq(s, 1, m)
    BY <1>1 DEF Last, Front
<1>3. 1 \in Int /\ m \in Int /\ \A i \in 1 .. m : s[i] \in S
    BY <1>1
<1>4. /\ Front(s) \in Seq(S) /\ Len(Front(s)) = IF 1 <= m THEN m - 1 + 1 ELSE 0
      /\ \A i \in 1 .. m - 1 + 1 : Front(s)[i] = s[1 + i - 1]
    BY <1>2, <1>3, SubSeqProperties
<1>5. Len(Front(s)) = m /\ \A i \in 1 .. m : Front(s)[i] = s[i]
    BY <1>1, <1>3, <1>4
<1>6. Range(s) = {s[i] : i \in 1 .. m + 1} /\ Range(Front(s)) = {Front(s)[i] : i \in 1 .. m}
    BY <1>1, <1>4, <1>5 DEF Range
<1>7. {s[i] : i \in 1 .. m + 1} = {s[i] : i \in 1 .. m} \union {s[m + 1]}
    <2>1. \A i \in 1 .. m + 1 : i \in 1 .. m \/ i = m + 1
        BY <1>1
    <2>2. m + 1 \in 1 .. m + 1 /\ \A i \in 1 .. m : i \in 1 .. m + 1
        BY <1>1
    <2> QED BY <2>1, <2>2
<1>8. {Front(s)[i] : i \in 1 .. m} = {s[i] : i \in 1 .. m}
    BY <1>5
<1> QED BY <1>1, <1>2, <1>4, <1>6, <1>7, <1>8
--------------------------------------------------------------------------------
(* The steps.                                                              *)

LEMMA JobIs ==
    ASSUME FTypeOK, job # None
    PROVE  /\ job \in Job /\ job.at \in Checkout /\ job.queue \in Seq(Dep)
           /\ job.resolved \in SUBSET Dep /\ job.failed \in BOOLEAN
           /\ \A d \in Dep : d.name \in Pkg /\ d.at \in Tag
BY DEF FTypeOK, Job, Dep

LEMMA CurrentIs ==
    ASSUME FTypeOK, Working
    PROVE  /\ Current \in Dep /\ Rest \in Seq(Dep)
           /\ Range(job.queue) = Range(Rest) \union {Current}
BY JobIs, PoppedAndRest DEF Working, Current, Rest

LEMMA InitFetches == ASSUME FInit PROVE FetchInv
<1>1. FTypeOK
    BY FetchAssumption DEF FInit, FTypeOK
<1> QED BY <1>1 DEF FInit, FetchInv, LockIsClosed

\* What happens upstream or to the manifest, no fetch sees until it asks.
LEMMA OutsideKeeps ==
    ASSUME FetchInv, UNCHANGED <<lock, clone, job>>, FTypeOK'
    PROVE  FetchInv'
BY DEF FetchInv, LockIsClosed, OneVersion, CheckedOut, NothingForgotten, HeadOf

LEMMA MoveTagKeeps ==
    ASSUME FetchInv, NEW p \in Pkg, NEW t \in Tag, MoveTag(p, t)
    PROVE  FetchInv'
<1>1. upstream'[p] = [upstream[p] EXCEPT ![t] = upstream[p][t] + 1]
    BY DEF FetchInv, FTypeOK, MoveTag
<1>2. upstream[p][t] + 1 \in 0 .. Version /\ upstream[p] \in [Tag -> 0 .. Version]
    BY FetchAssumption DEF FetchInv, FTypeOK, MoveTag
<1>3. upstream' = [upstream EXCEPT ![p] = upstream'[p]]
    BY DEF FetchInv, FTypeOK, MoveTag
<1>4. upstream' \in [Pkg -> [Tag -> 0 .. Version]]
    <2>1. upstream'[p] \in [Tag -> 0 .. Version]
        BY <1>1, <1>2
    <2> QED BY <1>3, <2>1 DEF FetchInv, FTypeOK
<1> QED BY <1>4, OutsideKeeps DEF MoveTag, FetchInv, FTypeOK

LEMMA EditManifestKeeps ==
    ASSUME FetchInv, NEW m \in Manifests, EditManifest(m)
    PROVE  FetchInv'
<1>1. PICK S \in SUBSET Dep : m = SetToSeq(S)
    BY DEF Manifests
<1>2. m \in Seq(Dep)
    BY <1>1, ListsTheSet, FS_Subset, FetchAssumption
<1> QED BY <1>2, OutsideKeeps DEF EditManifest, FetchInv, FTypeOK

LEMMA StartFetchKeeps ==
    ASSUME FetchInv, NEW c \in Checkout, StartFetch(c)
    PROVE  FetchInv'
<1>1. job' \in Job /\ job'.resolved = {}
    BY DEF StartFetch, FetchInv, FTypeOK, Job
<1> QED BY <1>1 DEF StartFetch, FetchInv, FTypeOK, LockIsClosed, OneVersion, CheckedOut,
           NothingForgotten

LEMMA AlreadyThereKeeps ==
    ASSUME FetchInv, AlreadyThere
    PROVE  FetchInv'
<1>1. /\ job # None /\ job \in Job /\ Current \in job.resolved
      /\ job' = [job EXCEPT !.queue = Rest] /\ Rest \in Seq(Dep)
      /\ Range(job.queue) = Range(Rest) \union {Current}
    BY JobIs, CurrentIs DEF FetchInv, AlreadyThere, Working, Done
<1>2. /\ job' \in Job /\ job'.at = job.at /\ job'.resolved = job.resolved /\ job'.failed = job.failed
      /\ job'.queue = Rest
    BY <1>1 DEF Job
<1> HIDE DEF Rest, Current
<1>3. FTypeOK' /\ LockIsClosed'
    BY <1>2 DEF AlreadyThere, FetchInv, FTypeOK, LockIsClosed
<1>4. OneVersion' /\ CheckedOut' /\ NothingForgotten'
    BY <1>1, <1>2 DEF AlreadyThere, FetchInv, OneVersion, CheckedOut, NothingForgotten, HeadOf
<1> QED BY <1>3, <1>4 DEF FetchInv

LEMMA TwoVersionsKeeps ==
    ASSUME FetchInv, TwoVersions
    PROVE  FetchInv'
BY DEF TwoVersions, FetchInv, FTypeOK, LockIsClosed

LEMMA FetchOneKeeps ==
    ASSUME FetchInv, FetchOne
    PROVE  FetchInv'
<1>0. PICK d : d = Current
    OBVIOUS
<1> DEFINE n == upstream[d.name][d.at]
           known == [tags |-> upstream[d.name], head |-> n]
           wants == Queued(d, n)
<1>1. /\ job # None /\ job \in Job /\ job.at \in Checkout /\ job.resolved \in SUBSET Dep
      /\ d \in Dep /\ Rest \in Seq(Dep) /\ Range(job.queue) = Range(Rest) \union {d}
      /\ d.name \in Pkg /\ d.at \in Tag
    BY <1>0, JobIs, CurrentIs DEF FetchInv, FetchOne, Working
<1>2. n # 0 /\ \A e \in job.resolved : e.name # d.name
    BY <1>0 DEF FetchOne, Conflict, Done, Resolved, Found
<1>3. n \in Commits /\ known \in Clone /\ known # None /\ n \in 0 .. Version
    <2>1. upstream[d.name] \in [Tag -> 0 .. Version]
        BY <1>1 DEF FetchInv, FTypeOK
    <2>2. n \in 0 .. Version /\ Version \in Nat
        BY <1>1, <2>1, FetchAssumption
    <2> QED BY <1>2, <2>1, <2>2, FetchAssumption DEF Commits, Clone
<1>4. wants \in Seq(Dep) /\ Range(wants) = Wants[d.name][n]
    <2>1. Wants[d.name][n] \in SUBSET Dep
        BY <1>1, <1>3, FetchAssumption
    <2>2. IsFiniteSet(Wants[d.name][n])
        BY <2>1, FS_Subset, FetchAssumption
    <2> QED BY <2>1, <2>2, ListsTheSet DEF Queued
<1>5. /\ job' = [job EXCEPT !.queue = Rest \o wants, !.resolved = job.resolved \union {d}]
      /\ clone' = [clone EXCEPT ![job.at] = [clone[job.at] EXCEPT ![d.name] = known]]
      /\ UNCHANGED <<upstream, manifest, lock>>
    BY <1>0, <1>1 DEF FetchOne, FetchInv, FTypeOK
<1>6. Rest \o wants \in Seq(Dep) /\ Range(Rest \o wants) = Range(Rest) \union Wants[d.name][n]
    BY <1>1, <1>4, RangeOfConcat
<1> HIDE DEF n, known, wants
<1>7. /\ job' \in Job /\ job'.at = job.at /\ job'.resolved = job.resolved \union {d}
      /\ job'.failed = job.failed /\ job'.queue = Rest \o wants
    BY <1>1, <1>5, <1>6 DEF Job
<1>8. /\ clone' \in [Checkout -> [Pkg -> Clone \union {None}]]
      /\ clone'[job.at][d.name] = known
      /\ \A p \in Pkg : p # d.name => clone'[job.at][p] = clone[job.at][p]
    <2>1. clone[job.at] \in [Pkg -> Clone \union {None}]
        BY <1>1 DEF FetchInv, FTypeOK
    <2>2. [clone[job.at] EXCEPT ![d.name] = known] \in [Pkg -> Clone \union {None}]
        BY <1>1, <1>3, <2>1
    <2> QED BY <1>1, <1>5, <2>1, <2>2 DEF FetchInv, FTypeOK
<1>9. FTypeOK' /\ LockIsClosed'
    BY <1>5, <1>7, <1>8 DEF FetchInv, FTypeOK, LockIsClosed
<1>10. HeadOf(d)' = n /\ \A e \in job.resolved : HeadOf(e)' = HeadOf(e)
    <2>1. \A e \in job.resolved : e.name \in Pkg /\ e.name # d.name
        BY <1>1, <1>2, JobIs DEF FetchInv
    <2>2. known.head = n
        BY DEF known
    <2> QED BY <1>1, <1>7, <1>8, <2>1, <2>2 DEF HeadOf
<1>11. OneVersion'
    BY <1>1, <1>2, <1>7 DEF FetchInv, OneVersion
<1>12. CheckedOut'
    <2>1. \A e \in job.resolved : e.name \in Pkg /\ e.name # d.name
        BY <1>1, <1>2, JobIs DEF FetchInv
    <2>2. clone'[job'.at][d.name] # None /\ HeadOf(d)' \in Commits
        BY <1>3, <1>7, <1>8, <1>10
    <2>3. \A e \in job.resolved : clone'[job'.at][e.name] # None /\ HeadOf(e)' \in Commits
        BY <1>1, <1>7, <1>8, <1>10, <2>1 DEF FetchInv, CheckedOut
    <2> QED BY <1>7, <2>2, <2>3 DEF CheckedOut, Commits
<1>13. NothingForgotten'
    BY <1>1, <1>6, <1>7, <1>10 DEF FetchInv, NothingForgotten
<1> QED BY <1>9, <1>11, <1>12, <1>13 DEF FetchInv

LEMMA FetchOneFailsKeeps ==
    ASSUME FetchInv, FetchOneFails
    PROVE  FetchInv'
<1> DEFINE p == Current.name
           c == job.at
           known == [tags |-> upstream[p], head |-> IF Fresh(c, p) THEN 0 ELSE clone[c][p].head]
<1>1. /\ job # None /\ job \in Job /\ c \in Checkout /\ job.resolved \in SUBSET Dep
      /\ Rest \in Seq(Dep) /\ p \in Pkg
    BY JobIs, CurrentIs DEF FetchInv, FetchOneFails, Working
<1>2. \A e \in job.resolved : e.name # p
    BY DEF FetchOneFails, Conflict, Done, Resolved
<1>3. known \in Clone
    <2>1. clone[c][p] \in Clone \union {None}
        BY <1>1 DEF FetchInv, FTypeOK
    <2>2. (IF Fresh(c, p) THEN 0 ELSE clone[c][p].head) \in 0 .. Version
        BY <2>1, FetchAssumption DEF Fresh, Clone
    <2>3. upstream[p] \in [Tag -> 0 .. Version]
        BY <1>1 DEF FetchInv, FTypeOK
    <2> QED BY <2>2, <2>3 DEF Clone
<1>4. /\ job' = [job EXCEPT !.queue = Rest, !.failed = TRUE]
      /\ clone' = clone \/ clone' = [clone EXCEPT ![c] = [clone[c] EXCEPT ![p] = known]]
      /\ UNCHANGED <<upstream, manifest, lock>>
    BY <1>1 DEF FetchOneFails, FetchInv, FTypeOK
<1> HIDE DEF p, c, known
<1>5. /\ job' \in Job /\ job'.at = job.at /\ job'.resolved = job.resolved /\ job'.failed = TRUE
    BY <1>1, <1>4 DEF Job
<1>6. /\ clone' \in [Checkout -> [Pkg -> Clone \union {None}]]
      /\ \A q \in Pkg : q # p => clone'[c][q] = clone[c][q]
    <2>1. clone[c] \in [Pkg -> Clone \union {None}]
        BY <1>1 DEF FetchInv, FTypeOK
    <2>2. [clone[c] EXCEPT ![p] = known] \in [Pkg -> Clone \union {None}]
        BY <1>1, <1>3, <2>1
    <2> QED BY <1>1, <1>4, <2>1, <2>2 DEF FetchInv, FTypeOK
<1>7. FTypeOK' /\ LockIsClosed'
    BY <1>4, <1>5, <1>6 DEF FetchInv, FTypeOK, LockIsClosed
<1>8. \A e \in job.resolved : e.name \in Pkg /\ clone'[job.at][e.name] = clone[job.at][e.name]
    BY <1>1, <1>2, <1>6, JobIs DEF c, FetchInv
<1>9. OneVersion' /\ CheckedOut' /\ NothingForgotten'
    BY <1>1, <1>5, <1>8 DEF FetchInv, OneVersion, CheckedOut, NothingForgotten, HeadOf
<1> QED BY <1>7, <1>9 DEF FetchInv

\* Nothing failed and nothing is left to look at: what was resolved is closed.
LEMMA WriteLockKeeps ==
    ASSUME FetchInv, WriteLock
    PROVE  FetchInv'
<1>1. job # None /\ job' = None /\ UNCHANGED <<upstream, manifest, clone>> /\ job.queue = <<>>
    BY DEF WriteLock
<1>2. CASE ~Complete
    BY <1>1, <1>2 DEF WriteLock, FetchInv, FTypeOK, LockIsClosed
<1>3. CASE Complete
    <2> DEFINE Of(p) == CHOOSE d \in Resolved(p) : TRUE
               row(p) == [at |-> Of(p).at, commit |-> clone[job.at][p].head]
    <2>1. lock' = [p \in Pkg |-> IF Resolved(p) = {} THEN None ELSE row(p)]
        BY <1>3 DEF WriteLock
    <2>2. ASSUME NEW p \in Pkg, Resolved(p) # {}
          PROVE  /\ Of(p) \in job.resolved /\ Of(p).name = p /\ row(p) \in Row
                 /\ row(p).at = Of(p).at /\ row(p).commit = HeadOf(Of(p))
        <3>1. Of(p) \in Resolved(p)
            BY <2>2
        <3> HIDE DEF Of
        <3>2. Of(p) \in job.resolved /\ Of(p).name = p
            BY <3>1 DEF Resolved
        <3>3. Of(p).at \in Tag
            BY <1>1, <3>2, JobIs DEF FetchInv
        <3>4. HeadOf(Of(p)) \in Commits
            BY <1>1, <3>2 DEF FetchInv, CheckedOut
        <3> QED BY <3>2, <3>3, <3>4 DEF Row, HeadOf
    <2>3. \A p \in Pkg : lock'[p] = IF Resolved(p) = {} THEN None ELSE row(p)
        BY <2>1
    <2> HIDE DEF row, Of
    <2>4. lock' \in [Pkg -> Row \union {None}]
        BY <2>1, <2>2
    <2>5. FTypeOK'
        BY <1>1, <2>4 DEF FetchInv, FTypeOK
    <2>6. LockIsClosed'
        <3> SUFFICES ASSUME NEW p \in Pkg, lock'[p] # None, NEW d \in Wants[p][lock'[p].commit]
                     PROVE  lock'[d.name] # None /\ lock'[d.name].at = d.at
            BY DEF LockIsClosed
        <3>1. Resolved(p) # {} /\ lock'[p] = row(p)
            BY <2>3
        <3>2. Range(job.queue) = {}
            BY <1>1 DEF Range
        <3>3. d \in job.resolved
            BY <1>1, <1>3, <2>2, <3>1, <3>2 DEF FetchInv, NothingForgotten, Complete
        <3>4. d.name \in Pkg /\ d \in Resolved(d.name)
            BY <1>1, <3>3, JobIs DEF FetchInv, Resolved
        <3>5. Of(d.name) \in job.resolved /\ Of(d.name).name = d.name
              /\ row(d.name) \in Row /\ row(d.name).at = Of(d.name).at
            BY <2>2, <3>4
        <3>6. Of(d.name) = d
            BY <1>1, <3>3, <3>5 DEF FetchInv, OneVersion
        <3>7. lock'[d.name] = row(d.name)
            BY <2>3, <3>4
        <3> QED BY <3>5, <3>6, <3>7, FetchAssumption
    <2> QED BY <1>1, <2>5, <2>6 DEF FetchInv
<1> QED BY <1>2, <1>3

LEMMA NextFetches == ASSUME FetchInv, [FNext]_fetchVars PROVE FetchInv'
<1>1. CASE fetchVars' = fetchVars
    BY <1>1, OutsideKeeps DEF fetchVars, FetchInv, FTypeOK
<1>2. CASE FNext
    BY <1>2, MoveTagKeeps, EditManifestKeeps, StartFetchKeeps, AlreadyThereKeeps, TwoVersionsKeeps,
       FetchOneKeeps, FetchOneFailsKeeps, WriteLockKeeps DEF FNext, Sweep
<1> QED BY <1>1, <1>2
--------------------------------------------------------------------------------
\* keal.lock always holds one set of versions: with a package, what the commit
\* it holds of it wants, at the tag it wants it (fetch.rs, run).
THEOREM LockIsAlwaysClosed == FSpec => []LockIsClosed
<1>1. FInit => FetchInv
    BY InitFetches
<1>2. FetchInv /\ [FNext]_fetchVars => FetchInv'
    BY NextFetches
<1>3. FetchInv => LockIsClosed
    BY DEF FetchInv
<1> QED BY <1>1, <1>2, <1>3, PTL DEF FSpec

\* Upstream, manifest, lock, clones and the fetch that runs keep their types: in
\* particular what the lock holds is a commit, never the nothing of a new clone.
THEOREM FetchTypes == FSpec => []FTypeOK
<1>1. FInit => FetchInv
    BY InitFetches
<1>2. FetchInv /\ [FNext]_fetchVars => FetchInv'
    BY NextFetches
<1>3. FetchInv => FTypeOK
    BY DEF FetchInv
<1> QED BY <1>1, <1>2, <1>3, PTL DEF FSpec
================================================================================
