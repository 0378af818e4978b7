----------------------------- MODULE StampProofs -----------------------------
(***************************************************************************)
(* Proofs about PdfaStamp for every file, catalog, profile and metadata:   *)
(* a stamped file is well formed, a reader finds in it all that the file   *)
(* had and the markers, and it can be stamped again.                       *)
(***************************************************************************)
EXTENDS PdfaStamp, FiniteSetTheorems, SequenceTheorems, WellFoundedInduction, TLAPS

\* The greatest element is the one that no other exceeds.
LEMMA MaxIs ==
  ASSUME NEW S, S \subseteq Int, NEW m \in S, \A x \in S : x <= m
  PROVE  Max(S) = m
<1>1. m \in Int /\ \A y \in S : m >= y
  BY SMT
<1>2. \A x \in S : (\A y \in S : x >= y) => x = m
  BY <1>1, SMT
<1> QED
  BY <1>1, <1>2, Zenon DEF Max

\* And the least one is below all.
LEMMA MinIs ==
  ASSUME NEW S, S \subseteq Int, NEW m \in S, \A x \in S : m <= x
  PROVE  Min(S) = m
<1>1. m \in Int /\ \A y \in S : m =< y
  BY SMT
<1>2. \A x \in S : (\A y \in S : x =< y) => x = m
  BY <1>1, SMT
<1> QED
  BY <1>1, <1>2, Zenon DEF Min

\* In a finite set some element has none above it, whatever the strict order.
LEMMA FiniteHasTop ==
  ASSUME NEW S, IsFiniteSet(S), S # {}, NEW R,
         \A x \in S : <<x, x>> \notin R,
         \A x, y, z \in S : <<x, y>> \in R /\ <<y, z>> \in R => <<x, z>> \in R
  PROVE  \E x \in S : \A y \in S : <<x, y>> \notin R
<1> DEFINE above(x) == {y \in S : <<x, y>> \in R}
<1>1. /\ \A x \in S : above(x) \in SUBSET S
      /\ \A x, y \in S : y \in above(x) <=> <<x, y>> \in R
  OBVIOUS
<1> HIDE DEF above
<1> DEFINE T == {above(x) : x \in S}
<1>2. T \subseteq FiniteSubsetsOf(S) /\ T # {}
  <2>1. FiniteSubsetsOf(S) = SUBSET S
    BY FS_FiniteSubsetsOfFinite, Zenon
  <2> QED
    BY <1>1, <2>1
<1>3. PICK x \in S : \A y \in S : <<above(y), above(x)>> \notin StrictSubsetOrdering(S)
  <2>1. PICK u \in T : \A v \in T : <<v, u>> \notin StrictSubsetOrdering(S)
    <3> HIDE DEF T
    <3> QED
      BY <1>2, FS_StrictSubsetOrderingWellFounded, WFMin, Zenon
  <2> QED
    BY <2>1
<1>4. \A y \in S : <<x, y>> \notin R
  <2> SUFFICES ASSUME NEW y \in S, <<x, y>> \in R PROVE FALSE
    OBVIOUS
  <2>1. above(y) \subseteq above(x) /\ y \in above(x) /\ y \notin above(y)
    BY <1>1
  <2> QED
    BY <1>1, <1>3, <2>1 DEF StrictSubsetOrdering
<1> QED
  BY <1>4

\* A finite set that is not empty has a greatest element.
LEMMA MaxExists ==
  ASSUME NEW S, S \subseteq Int, IsFiniteSet(S), S # {}
  PROVE  Max(S) \in S /\ \A x \in S : x <= Max(S)
<1> DEFINE R == {p \in S \X S : p[1] < p[2]}
<1>1. \A x, y \in S : <<x, y>> \in R <=> x < y
  OBVIOUS
<1> HIDE DEF R
<1>2. /\ \A x \in S : <<x, x>> \notin R
      /\ \A x, y, z \in S : <<x, y>> \in R /\ <<y, z>> \in R => <<x, z>> \in R
  <2>1. \A x, y, z \in S : ~(x < x) /\ (x < y /\ y < z => x < z)
    BY SMT
  <2> QED
    BY <1>1, <2>1, Zenon
<1>3. PICK m \in S : \A y \in S : <<m, y>> \notin R
  BY <1>2, FiniteHasTop
<1>4. \A y \in S : y <= m
  <2>1. \A y \in S : ~(m < y)
    BY <1>1, <1>3
  <2> QED
    BY <2>1, SMT
<1> QED
  BY <1>4, MaxIs

\* And a least one.
LEMMA MinExists ==
  ASSUME NEW S, S \subseteq Int, IsFiniteSet(S), S # {}
  PROVE  Min(S) \in S /\ \A x \in S : Min(S) <= x
<1> DEFINE R == {p \in S \X S : p[2] < p[1]}
<1>1. \A x, y \in S : <<x, y>> \in R <=> y < x
  OBVIOUS
<1> HIDE DEF R
<1>2. /\ \A x \in S : <<x, x>> \notin R
      /\ \A x, y, z \in S : <<x, y>> \in R /\ <<y, z>> \in R => <<x, z>> \in R
  <2>1. \A x, y, z \in S : ~(x < x) /\ (y < x /\ z < y => z < x)
    BY SMT
  <2> QED
    BY <1>1, <2>1, Zenon
<1>3. PICK m \in S : \A y \in S : <<m, y>> \notin R
  BY <1>2, FiniteHasTop
<1>4. \A y \in S : m <= y
  <2>1. \A y \in S : ~(y < m)
    BY <1>1, <1>3
  <2> QED
    BY <2>1, SMT
<1> QED
  BY <1>4, MinIs

-----------------------------------------------------------------------------
(* The catalog *)

\* A line starts at the last head before a position, and there only.
LEMMA LineStarts ==
  ASSUME NEW D, IsText(D), DOMAIN D # {}, D[Min(DOMAIN D)].head, NEW p \in DOMAIN D
  PROVE  /\ LineStart(D, p) \in DOMAIN D /\ LineStart(D, p) <= p /\ D[LineStart(D, p)].head
         /\ \A q \in DOMAIN D : q <= p /\ D[q].head => q <= LineStart(D, p)
<1> DEFINE H == {q \in DOMAIN D : q <= p /\ D[q].head}
<1>1. DOMAIN D \subseteq Int /\ IsFiniteSet(DOMAIN D)
  BY DEF IsText
<1>2. Min(DOMAIN D) \in H
  BY <1>1, MinExists
<1>3. H \subseteq Int /\ IsFiniteSet(H)
  BY <1>1, FS_Subset
<1>4. Max(H) \in H /\ \A x \in H : x <= Max(H)
  BY <1>2, <1>3, MaxExists
<1> QED
  BY <1>4 DEF LineStart

\* A head starts its own line.
LEMMA HeadStarts ==
  ASSUME NEW D, IsText(D), NEW p \in DOMAIN D, D[p].head
  PROVE  LineStart(D, p) = p
<1> DEFINE H == {q \in DOMAIN D : q <= p /\ D[q].head}
<1>1. H \subseteq Int /\ p \in H /\ \A x \in H : x <= p
  BY SMT DEF IsText
<1>2. Max(H) = p
  BY <1>1, MaxIs
<1> QED
  BY <1>2 DEF LineStart

\* Taking whole lines out leaves the others.
LEMMA LinesStay ==
  ASSUME NEW D, IsText(D), DOMAIN D # {}, D[Min(DOMAIN D)].head, NEW key,
         NEW p \in DOMAIN D \ Lines(D, key)
  PROVE  LineStart(removeDictKey(D, key), p) = LineStart(D, p)
<1> DEFINE E == removeDictKey(D, key)
           s == LineStart(D, p)
           H == {q \in DOMAIN E : q <= p /\ E[q].head}
<1>1. DOMAIN E = DOMAIN D \ Lines(D, key) /\ \A q \in DOMAIN E : E[q] = D[q]
  BY DEF removeDictKey, Restrict
<1>2. /\ s \in DOMAIN D /\ s <= p /\ D[s].head
      /\ \A q \in DOMAIN D : q <= p /\ D[q].head => q <= s
  BY LineStarts
<1>3. LineStart(D, s) = s
  BY <1>2, HeadStarts
<1>4. s \notin Lines(D, key)
  BY <1>3 DEF Lines
<1> HIDE DEF E, s
<1>5. s \in H
  BY <1>1, <1>2, <1>4
<1>6. H \subseteq Int /\ \A q \in H : q <= s
  BY <1>1, <1>2 DEF IsText
<1>7. Max(H) = s
  BY <1>5, <1>6, MaxIs
<1> QED
  BY <1>7 DEF LineStart, E, s

\* So the two removals take out the lines of both markers.
LEMMA BothRemoved ==
  ASSUME NEW D, IsText(D), DOMAIN D # {}, D[Min(DOMAIN D)].head
  PROVE  removeDictKey(removeDictKey(D, "Metadata"), "OutputIntents")
           = [p \in DOMAIN D \ Removed(D) |-> D[p]]
<1> DEFINE E == removeDictKey(D, "Metadata")
<1>1. DOMAIN E = DOMAIN D \ Lines(D, "Metadata") /\ \A q \in DOMAIN E : E[q] = D[q]
  BY DEF removeDictKey, Restrict
<1>2. \A p \in DOMAIN E : LineStart(E, p) = LineStart(D, p)
  BY <1>1, LinesStay
<1>3. \A p \in DOMAIN E : E[LineStart(E, p)] = D[LineStart(D, p)]
  <2> SUFFICES ASSUME NEW p \in DOMAIN E PROVE D[LineStart(D, p)] = E[LineStart(D, p)]
    BY <1>2
  <2> DEFINE s == LineStart(D, p)
  <2>1. p \in DOMAIN D /\ p \notin Lines(D, "Metadata")
    BY <1>1
  <2>2. s \in DOMAIN D /\ D[s].head
    BY <2>1, LineStarts
  <2>3. LineStart(D, s) = s
    BY <2>2, HeadStarts
  <2>4. s \notin Lines(D, "Metadata")
    BY <2>1, <2>3 DEF Lines
  <2> QED
    BY <1>1, <2>2, <2>4
<1>4. Lines(E, "OutputIntents") = DOMAIN E \cap Lines(D, "OutputIntents")
  BY <1>1, <1>3 DEF Lines
<1>5. DOMAIN E \ Lines(E, "OutputIntents") = DOMAIN D \ Removed(D)
  BY <1>1, <1>4 DEF Removed
<1> HIDE DEF E
<1>6. removeDictKey(E, "OutputIntents") = [p \in DOMAIN D \ Removed(D) |-> D[p]]
  BY <1>1, <1>5 DEF removeDictKey, Restrict
<1> QED
  BY <1>6 DEF E

\* The first position of a dictionary, the last, and those between that a stamp leaves.
First(D) == Min(DOMAIN D)
End1(D)  == Max(DOMAIN D)
Inner(D) == DOMAIN D \ (Removed(D) \cup {First(D), End1(D)})
Place(D) == Max((DOMAIN D \ Removed(D)) \cup {0})
Upto(D, p, kind) == {q \in DOMAIN D : q <= p /\ D[q].kind = kind}

\* The brackets up to a position can be counted.
LEMMA UptoFinite ==
  ASSUME NEW D, IsText(D), NEW p, NEW kind
  PROVE  IsFiniteSet(Upto(D, p, kind)) /\ Cardinality(Upto(D, p, kind)) \in Nat
<1>1. Upto(D, p, kind) \in SUBSET DOMAIN D /\ IsFiniteSet(DOMAIN D)
  BY DEF Upto, IsText
<1> QED
  BY <1>1, FS_Subset, FS_CardinalityType

\* The depth is a difference of counts.
LEMMA DepthIs ==
  ASSUME NEW D, NEW p
  PROVE  Depth(D, p) = Cardinality(Upto(D, p, "open")) - Cardinality(Upto(D, p, "close"))
BY Zenon DEF Depth, Upto

\* A dictionary begins with a bracket and ends with another.
LEMMA DictEnds ==
  ASSUME NEW D, IsText(D), IsDict(D)
  PROVE  /\ First(D) \in DOMAIN D /\ End1(D) \in DOMAIN D /\ First(D) < End1(D)
         /\ \A p \in DOMAIN D : First(D) <= p /\ p <= End1(D)
         /\ D[First(D)].kind = "open" /\ D[End1(D)].kind = "close"
<1> DEFINE m == First(D)
           e == End1(D)
<1>1. DOMAIN D \subseteq Nat /\ DOMAIN D \subseteq Int /\ IsFiniteSet(DOMAIN D) /\ DOMAIN D # {}
  BY SMT DEF IsText, IsDict
<1>2. m \in DOMAIN D /\ e \in DOMAIN D /\ \A p \in DOMAIN D : m <= p /\ p <= e
  BY <1>1, MinExists, MaxExists DEF First, End1
<1>3. /\ D[e].kind = "close" /\ Depth(D, e) = 0
      /\ \A p \in DOMAIN D \ {e} : Depth(D, p) > 0
  BY DEF IsDict, End1
<1> HIDE DEF m, e
<1>4. PICK q \in DOMAIN D : D[q].kind = "open"
  <2>1. Cardinality(Upto(D, e, "open")) = Cardinality(Upto(D, e, "close"))
    BY <1>3, UptoFinite, DepthIs, SMT
  <2>2. e \in Upto(D, e, "close")
    BY <1>1, <1>2, <1>3, SMT DEF Upto
  <2>3. Cardinality(Upto(D, e, "close")) # 0
    BY <2>2, UptoFinite, FS_EmptySet
  <2>4. Upto(D, e, "open") # {}
    BY <2>1, <2>3, FS_EmptySet
  <2> QED
    BY <2>4 DEF Upto
<1>5. q # e
  BY <1>3, <1>4
<1>6. m # e /\ m < e
  <2>1. m \in Nat /\ e \in Nat /\ q \in Nat /\ m <= q /\ q <= e
    BY <1>1, <1>2, <1>4
  <2> QED
    BY <1>5, <2>1, SMT
<1>7. D[m].kind = "open"
  <2>1. Depth(D, m) > 0
    BY <1>2, <1>3, <1>6
  <2>2. Upto(D, m, "open") # {}
    <3>1. Cardinality(Upto(D, m, "open")) # 0
      BY <2>1, UptoFinite, DepthIs, SMT
    <3> QED
      BY <3>1, FS_EmptySet
  <2>3. PICK k \in DOMAIN D : k <= m /\ D[k].kind = "open"
    BY <2>2 DEF Upto
  <2>4. k = m
    BY <1>1, <1>2, <2>3, SMT
  <2> QED
    BY <2>3, <2>4
<1> QED
  BY <1>2, <1>3, <1>6, <1>7 DEF m, e

\* What the two removals take out of a catalog.
LEMMA RemovedIs ==
  ASSUME NEW D, IsText(D), IsDict(D), Replaceable(D)
  PROVE  /\ D[First(D)].head /\ First(D) \notin Removed(D) /\ Removed(D) \subseteq DOMAIN D
         /\ \A p \in Removed(D) : p \in Own(D, Markers) \/ p = End1(D)
         /\ End1(D) \in Removed(D) => D[Max(DOMAIN D \ Removed(D))].kind # "close"
         /\ Own(D, Markers) \subseteq Removed(D)
<1>1. D[First(D)].head /\ First(D) \in DOMAIN D
  BY DictEnds DEF Replaceable, First
<1>2. First(D) \notin Removed(D)
  <2>1. LineStart(D, First(D)) = First(D)
    BY <1>1, HeadStarts
  <2> QED
    BY <2>1, DictEnds DEF Removed, Lines, IsEntry
<1>3. Removed(D) \subseteq DOMAIN D
  BY DEF Removed, Lines
<1>4. \A p \in Removed(D) : p \in Own(D, Markers) \/ p = End1(D)
  BY DEF Replaceable, End1
<1>5. End1(D) \in Removed(D) => D[Max(DOMAIN D \ Removed(D))].kind # "close"
  <2>1. End1(D) \notin Own(D, Markers)
    BY DictEnds DEF Own, Entries
  <2> QED
    BY <2>1 DEF Replaceable, End1
<1>6. ASSUME NEW p \in Own(D, Markers) PROVE p \in Removed(D)
  <2>1. p \in DOMAIN D /\ D[p].kind = "entry" /\ D[p].key \in Markers /\ D[p].head
    BY DEF Own, Entries, Replaceable
  <2>2. LineStart(D, p) = p
    BY <2>1, HeadStarts
  <2> QED
    BY <2>1, <2>2 DEF Removed, Lines, IsEntry, Markers
<1> QED
  BY <1>1, <1>2, <1>3, <1>4, <1>5, <1>6

\* What a stamp adds to a catalog is made of tokens.
LEMMA NewTokens ==
  /\ Open(TRUE) \in Token /\ Close(TRUE) \in Token
  /\ \A key \in Markers, ref \in Nat : Entry(key, ref, TRUE) \in Token
<1>1. Open(TRUE) \in Token /\ Close(TRUE) \in Token
  BY DEF Open, Close, Token
<1>2. ASSUME NEW key \in Markers, NEW ref \in Nat PROVE Entry(key, ref, TRUE) \in Token
  BY DEF Entry, Token
<1> QED
  BY <1>1, <1>2

\* A token that may have come to follow the first bracket on its line.
Led(D, p) == [D[p] EXCEPT !.head = D[p].head /\ p # Min(Inner(D))]

\* It is the same token, but perhaps not the first of its line.
LEMMA LedIs ==
  ASSUME NEW D, IsText(D), NEW p \in DOMAIN D
  PROVE  /\ Led(D, p) \in Token /\ Led(D, p).kind = D[p].kind
         /\ Led(D, p).key = D[p].key /\ Led(D, p).ref = D[p].ref
         /\ Led(D, p).head => D[p].head
<1> DEFINE t == D[p]
           h == D[p].head /\ p # Min(Inner(D))
<1>1. t \in Token /\ h \in BOOLEAN /\ (h => t.head) /\ Led(D, p) = [t EXCEPT !.head = h]
  BY DEF IsText, Led
<1> HIDE DEF t, h
<1>2. Led(D, p) \in Token /\ Led(D, p).kind = t.kind /\ Led(D, p).head = h
  BY <1>1 DEF Token
<1>3. Led(D, p).key = t.key /\ Led(D, p).ref = t.ref
  BY <1>1 DEF Token
<1> QED
  BY <1>1, <1>2, <1>3 DEF t

\* So the patched catalog is the old one without those lines and without its last
\* bracket, and three tokens more.
LEMMA Patched ==
  ASSUME NEW D, IsText(D), IsDict(D), Replaceable(D), NEW x, NEW i
  PROVE  LET N == patchCatalog(D, x, i)
             last == Place(D)
         IN  /\ last \in Nat /\ First(D) <= last /\ \A p \in Inner(D) : First(D) < p /\ p <= last
             /\ DOMAIN N = {First(D)} \cup Inner(D) \cup {last + 1, last + 2, last + 3}
             /\ N[First(D)] = Open(TRUE)
             /\ \A p \in Inner(D) : N[p] = Led(D, p)
             /\ N[last + 1] = Entry("Metadata", x, TRUE)
             /\ N[last + 2] = Entry("OutputIntents", i, TRUE)
             /\ N[last + 3] = Close(TRUE)
<1> DEFINE all   == DOMAIN D \ Removed(D)
           T     == [p \in all |-> D[p]]
           m     == First(D)
           e     == End1(D)
           I     == Inner(D)
           last  == Place(D)
           rest  == all \ {m}
<1>1. DOMAIN D \subseteq Nat /\ IsFiniteSet(DOMAIN D) /\ DOMAIN D # {}
  BY DictEnds DEF IsText
<1>2. /\ m \in all /\ all \subseteq DOMAIN D /\ all \subseteq Int /\ IsFiniteSet(all)
      /\ \A p \in all : m <= p
  <2>1. m \in all /\ all \subseteq DOMAIN D /\ \A p \in all : m <= p
    BY DictEnds, RemovedIs
  <2> HIDE DEF all
  <2>2. all \subseteq Int
    BY <1>1, <2>1, SMT
  <2> QED
    BY <1>1, <2>1, <2>2, FS_Subset
<1>3. Min(all) = m
  BY <1>2, MinIs
<1>4. last \in Nat /\ \A p \in all : p <= last
  <2> DEFINE A == all \cup {0}
  <2>1. IsFiniteSet(A) /\ A # {}
    BY <1>2, FS_AddElement
  <2>2. A \subseteq Int /\ A \subseteq Nat
    BY <1>1, <1>2
  <2>3. Max(A) \in A /\ \A p \in A : p <= Max(A)
    BY <2>1, <2>2, MaxExists
  <2>4. last = Max(A)
    BY DEF Place
  <2> HIDE DEF last
  <2> QED
    BY <2>2, <2>3, <2>4
<1>5. T[m].kind = "open"
  BY <1>2, DictEnds
<1>6. IF rest # {} /\ T[Max(rest)].kind = "close" THEN rest \ {Max(rest)} = I ELSE rest = I
  <2>1. CASE e \in all
    <3>1. e \in rest
      BY <2>1, DictEnds
    <3>2. Max(rest) = e
      BY <1>2, <3>1, DictEnds, MaxIs
    <3>3. T[e].kind = "close"
      BY <2>1, DictEnds
    <3>4. rest \ {e} = I
      BY DEF Inner
    <3> QED
      BY <3>1, <3>2, <3>3, <3>4
  <2>2. CASE e \notin all
    <3>1. e \in Removed(D) /\ rest = I
      BY <2>2, DictEnds DEF Inner
    <3>2. D[Max(all)].kind # "close"
      BY <3>1, RemovedIs
    <3>3. rest # {} => Max(rest) = Max(all) /\ Max(all) \in all
      <4> SUFFICES ASSUME rest # {} PROVE Max(rest) = Max(all) /\ Max(all) \in all
        OBVIOUS
      <4>1. Max(all) \in all /\ \A p \in all : p <= Max(all)
        BY <1>2, MaxExists
      <4>2. Max(all) # m
        <5>1. PICK p \in rest : TRUE
          OBVIOUS
        <5>2. p \in all /\ p # m /\ m <= p /\ p <= Max(all) /\ p \in Int /\ m \in Int /\ Max(all) \in Int
          BY <1>2, <4>1
        <5> QED
          BY <5>2, SMT
      <4>3. Max(all) \in rest
        BY <4>1, <4>2
      <4> QED
        BY <1>2, <4>1, <4>3, MaxIs
    <3> QED
      BY <3>1, <3>2, <3>3
  <2> QED
    BY <2>1, <2>2
<1> HIDE DEF T
<1>7. DOMAIN T = all /\ all # {}
  BY <1>2 DEF T
<1> DEFINE new == <<Entry("Metadata", x, TRUE), Entry("OutputIntents", i, TRUE), Close(TRUE)>>
           N   == [p \in {m} \cup I \cup (last + 1) .. (last + 3) |->
                     CASE p = m -> Open(TRUE)
                       [] p \in I -> [T[p] EXCEPT !.head = @ /\ p # Min(I)]
                       [] OTHER -> new[p - last]]
<1>8. Inject(T, x, i) = N
  <2> HIDE DEF all, m, I
  <2>1. Max(DOMAIN T \cup {0}) = last
    BY <1>7 DEF Place, all
  <2> HIDE DEF last
  <2> QED
    BY <1>3, <1>5, <1>6, <1>7, <2>1, Zenon DEF Inject
<1>9. patchCatalog(D, x, i) = N
  <2>1. removeDictKey(removeDictKey(D, "Metadata"), "OutputIntents") = T
    BY <1>1, BothRemoved, RemovedIs DEF T, First
  <2> HIDE DEF N
  <2> QED
    BY <1>8, <2>1 DEF patchCatalog
<1>10. I \subseteq all /\ m \notin I /\ \A p \in I : m < p /\ p <= last
  <2>1. I \subseteq all /\ m \notin I
    BY DEF Inner
  <2>2. ASSUME NEW p \in I PROVE m < p /\ p <= last
    <3>1. p \in all /\ p # m /\ m \in all
      BY <1>2, <2>1
    <3> HIDE DEF all, m, last
    <3> QED
      BY <1>2, <1>4, <3>1, SMT
  <2> QED
    BY <2>1, <2>2
<1>11. m <= last /\ m \in Nat
  BY <1>1, <1>2, <1>4
<1>12. \A p \in I : T[p] = D[p]
  BY <1>10 DEF T
<1>13. (last + 1) .. (last + 3) = {last + 1, last + 2, last + 3}
  <2> HIDE DEF last
  <2> QED
    BY <1>4, SMT
<1> HIDE DEF m, e, I, last, all
<1>14. /\ last + 1 \notin {m} \cup I /\ last + 2 \notin {m} \cup I /\ last + 3 \notin {m} \cup I
  BY <1>1, <1>2, <1>4, <1>10, <1>11, SMT
<1>15. /\ N[m] = Open(TRUE)
       /\ \A p \in I : N[p] = [D[p] EXCEPT !.head = D[p].head /\ p # Min(I)]
  BY <1>10, <1>12
<1>16. N[last + 1] = new[1] /\ N[last + 2] = new[2] /\ N[last + 3] = new[3]
  <2>1. (last + 1) - last = 1 /\ (last + 2) - last = 2 /\ (last + 3) - last = 3
    BY <1>4, SMT
  <2> HIDE DEF new
  <2>2. \A p \in {last + 1, last + 2, last + 3} : N[p] = new[p - last]
    <3> SUFFICES ASSUME NEW p \in {last + 1, last + 2, last + 3} PROVE N[p] = new[p - last]
      OBVIOUS
    <3>1. p \in (last + 1) .. (last + 3) /\ p # m /\ p \notin I
      BY <1>13, <1>14
    <3> QED
      BY <3>1
  <2> HIDE DEF N
  <2>3. N[last + 1] = new[1]
    BY <2>1, <2>2, last + 1 \in {last + 1, last + 2, last + 3}, Zenon
  <2>4. N[last + 2] = new[2]
    BY <2>1, <2>2, last + 2 \in {last + 1, last + 2, last + 3}, Zenon
  <2>5. N[last + 3] = new[3]
    BY <2>1, <2>2, last + 3 \in {last + 1, last + 2, last + 3}, Zenon
  <2> QED
    BY <2>3, <2>4, <2>5
<1>17. DOMAIN N = {m} \cup I \cup {last + 1, last + 2, last + 3}
  BY <1>13
<1> HIDE DEF N
<1> QED
  BY <1>4, <1>9, <1>10, <1>11, <1>15, <1>16, <1>17 DEF m, I, last, Led

\* The brackets of the patched catalog are the old ones, but for the last.
LEMMA BracketsStay ==
  ASSUME NEW D, IsText(D), IsDict(D), Replaceable(D), NEW x \in Nat, NEW i \in Nat
  PROVE  LET N == patchCatalog(D, x, i)
             last == Place(D)
         IN  /\ IsText(N) /\ Min(DOMAIN N) = First(D) /\ Max(DOMAIN N) = last + 3
             /\ \A p \in {First(D)} \cup Inner(D), kind \in {"open", "close"} :
                  Upto(N, p, kind) = Upto(D, p, kind)
             /\ \A p \in {last + 1, last + 2, last + 3} :
                  Upto(N, p, "open") = Upto(D, End1(D), "open")
             /\ \A p \in {last + 1, last + 2} :
                  Upto(N, p, "close") = Upto(D, End1(D), "close") \ {End1(D)}
             /\ Upto(N, last + 3, "close")
                  = (Upto(D, End1(D), "close") \ {End1(D)}) \cup {last + 3}
<1> DEFINE N == patchCatalog(D, x, i)
           last == Place(D)
           m == First(D)
           e == End1(D)
           I == Inner(D)
<1>1. /\ last \in Nat /\ m <= last /\ \A p \in I : m < p /\ p <= last
      /\ DOMAIN N = {m} \cup I \cup {last + 1, last + 2, last + 3}
      /\ N[m] = Open(TRUE)
      /\ \A p \in I : N[p] = Led(D, p)
      /\ N[last + 1] = Entry("Metadata", x, TRUE)
      /\ N[last + 2] = Entry("OutputIntents", i, TRUE)
      /\ N[last + 3] = Close(TRUE)
  BY Patched
<1>2. /\ DOMAIN D \subseteq Nat /\ IsFiniteSet(DOMAIN D) /\ m \in DOMAIN D /\ e \in DOMAIN D /\ m < e
      /\ \A p \in DOMAIN D : m <= p /\ p <= e
      /\ D[m].kind = "open" /\ D[e].kind = "close"
  BY DictEnds DEF IsText
<1>3. I \subseteq DOMAIN D /\ e \notin I /\ m \notin I
  BY DEF Inner
<1>4. \A q \in DOMAIN D : D[q].kind \in {"open", "close"} => q \in {m} \cup I \cup {e}
  BY RemovedIs DEF Inner, Own, Entries
<1>5. /\ N[m].kind = "open" /\ \A p \in I : N[p].kind = D[p].kind /\ N[p] \in Token
      /\ N[last + 1].kind = "entry" /\ N[last + 2].kind = "entry" /\ N[last + 3].kind = "close"
      /\ N[m].head = TRUE /\ N[last + 1].head = TRUE /\ N[last + 2].head = TRUE /\ N[last + 3].head = TRUE
  <2>1. \A p \in I : N[p].kind = D[p].kind /\ N[p] \in Token
    BY <1>1, <1>3, LedIs
  <2> QED
    BY <1>1, <2>1 DEF Open, Close, Entry
<1> HIDE DEF N, last, m, e, I
<1>6. m \in Nat /\ e \in Nat /\ I \subseteq Nat /\ \A q \in I : q <= e
  BY <1>2, <1>3
<1>7. DOMAIN N \subseteq Nat /\ DOMAIN N \subseteq Int
  BY <1>1, <1>6, SMT
<1>a. /\ m \in Nat /\ last \in Nat /\ m <= last
      /\ \A q \in {m} \cup I : q \in Nat /\ m <= q /\ q <= last
  BY <1>1, <1>6, SMT
<1>8. \A q \in DOMAIN N : m <= q /\ q <= last + 3
  <2>1. \A q \in {m} \cup I : m <= q /\ q <= last + 3
    BY <1>a, SMT
  <2>2. \A q \in {last + 1, last + 2, last + 3} : m <= q /\ q <= last + 3
    BY <1>a, SMT
  <2> QED
    BY <1>1, <2>1, <2>2
<1>9. Min(DOMAIN N) = m /\ Max(DOMAIN N) = last + 3
  BY <1>1, <1>7, <1>8, MinIs, MaxIs
<1>10. IsText(N)
  <2>1. IsFiniteSet(DOMAIN N)
    BY <1>1, <1>7, <1>8, FS_BoundedSetOfNaturals
  <2>2. /\ N[m] \in Token /\ N[last + 1] \in Token /\ N[last + 2] \in Token
        /\ N[last + 3] \in Token
    <3>1. "Metadata" \in Markers /\ "OutputIntents" \in Markers
      BY DEF Markers
    <3> QED
      BY <1>1, <3>1, NewTokens
  <2>3. \A p \in DOMAIN N : N[p] \in Token
    BY <1>1, <1>5, <2>2
  <2> QED
    BY <1>7, <2>1, <2>3 DEF IsText
<1>11. ASSUME NEW p \in {m} \cup I, NEW kind \in {"open", "close"}
       PROVE  Upto(N, p, kind) = Upto(D, p, kind)
  <2>1. ASSUME NEW q \in Upto(N, p, kind) PROVE q \in Upto(D, p, kind)
    <3>1. q \in DOMAIN N /\ q <= p /\ N[q].kind = kind
      BY <2>1 DEF Upto
    <3>2. p <= last /\ p \in Nat
      BY <1>1, <1>6
    <3>3. q \in {m} \cup I
      BY <1>1, <3>1, <3>2, SMT
    <3>4. D[q].kind = kind /\ q \in DOMAIN D
      BY <1>2, <1>3, <1>5, <3>1, <3>3
    <3> QED
      BY <3>1, <3>4 DEF Upto
  <2>2. ASSUME NEW q \in Upto(D, p, kind) PROVE q \in Upto(N, p, kind)
    <3>1. q \in DOMAIN D /\ q <= p /\ D[q].kind = kind
      BY <2>2 DEF Upto
    <3>2. p < e
      <4>1. p # e /\ p <= e /\ p \in Nat
        BY <1>2, <1>3, <1>6
      <4> QED
        BY <4>1, <1>6, SMT
    <3>3. q # e
      <4>1. q \in Nat /\ p \in Nat /\ e \in Nat
        BY <1>2, <1>6, <3>1
      <4> QED
        BY <3>1, <3>2, <4>1, SMT
    <3>4. q \in {m} \cup I
      BY <1>4, <3>1, <3>3
    <3>5. N[q].kind = kind /\ q \in DOMAIN N
      BY <1>1, <1>2, <1>5, <3>1, <3>4
    <3> QED
      BY <3>1, <3>5 DEF Upto
  <2> QED
    BY <2>1, <2>2
<1>12. ASSUME NEW p \in {last + 1, last + 2, last + 3}
       PROVE  \A q \in {m} \cup I : q <= p
  BY <1>a, SMT
<1>13. ASSUME NEW p \in {last + 1, last + 2, last + 3}
       PROVE  Upto(N, p, "open") = Upto(D, e, "open")
  <2>1. ASSUME NEW q \in Upto(N, p, "open") PROVE q \in Upto(D, e, "open")
    <3>1. q \in DOMAIN N /\ N[q].kind = "open"
      BY <2>1 DEF Upto
    <3>2. q \in {m} \cup I
      BY <1>1, <1>5, <3>1
    <3>3. q \in DOMAIN D /\ D[q].kind = "open"
      BY <1>2, <1>3, <1>5, <3>1, <3>2
    <3> QED
      BY <1>2, <3>3 DEF Upto
  <2>2. ASSUME NEW q \in Upto(D, e, "open") PROVE q \in Upto(N, p, "open")
    <3>1. q \in DOMAIN D /\ D[q].kind = "open"
      BY <2>2 DEF Upto
    <3>2. q \in {m} \cup I
      BY <1>2, <1>4, <3>1
    <3>3. q \in DOMAIN N /\ N[q].kind = "open" /\ q <= p
      BY <1>1, <1>5, <1>12, <3>1, <3>2
    <3> QED
      BY <3>3 DEF Upto
  <2> QED
    BY <2>1, <2>2
<1>14. ASSUME NEW p \in {last + 1, last + 2}
       PROVE  Upto(N, p, "close") = Upto(D, e, "close") \ {e}
  <2>1. ASSUME NEW q \in Upto(N, p, "close") PROVE q \in Upto(D, e, "close") \ {e}
    <3>1. q \in DOMAIN N /\ N[q].kind = "close" /\ q <= p
      BY <2>1 DEF Upto
    <3>2. q \in I
      <4>1. q # last + 3
        BY <1>1, <3>1, SMT
      <4> QED
        BY <1>1, <1>5, <3>1, <4>1
    <3>3. q \in DOMAIN D /\ D[q].kind = "close" /\ q # e
      BY <1>2, <1>3, <1>5, <3>1, <3>2
    <3> QED
      BY <1>2, <3>3 DEF Upto
  <2>2. ASSUME NEW q \in Upto(D, e, "close") \ {e} PROVE q \in Upto(N, p, "close")
    <3>1. q \in DOMAIN D /\ D[q].kind = "close" /\ q # e
      BY <2>2 DEF Upto
    <3>2. q \in I
      BY <1>2, <1>4, <3>1
    <3>3. q \in DOMAIN N /\ N[q].kind = "close" /\ q <= p
      BY <1>1, <1>5, <1>12, <3>1, <3>2
    <3> QED
      BY <3>3 DEF Upto
  <2> QED
    BY <2>1, <2>2
<1>15. Upto(N, last + 3, "close") = Upto(N, last + 2, "close") \cup {last + 3}
  <2>1. last + 3 <= last + 3 /\ \A q \in {m} \cup I \cup {last + 1, last + 2} : q <= last + 2
    BY <1>1, <1>6, SMT
  <2>2. \A q \in DOMAIN N : q <= last + 3
    BY <1>8
  <2>3. ~(last + 3 <= last + 2)
    BY <1>1, SMT
  <2> QED
    BY <1>1, <1>5, <2>1, <2>2, <2>3 DEF Upto
<1> QED
  BY <1>9, <1>10, <1>11, <1>13, <1>14, <1>15 DEF N, last, m, e, I

\* So what stays of a catalog stays at its depth, and the markers are the catalog's own.
LEMMA DepthsStay ==
  ASSUME NEW D, IsText(D), IsDict(D), Replaceable(D), NEW x \in Nat, NEW i \in Nat
  PROVE  LET N == patchCatalog(D, x, i)
             last == Place(D)
         IN  /\ \A p \in {First(D)} \cup Inner(D) : Depth(N, p) = Depth(D, p) /\ Depth(N, p) > 0
             /\ Depth(N, last + 1) = 1 /\ Depth(N, last + 2) = 1 /\ Depth(N, last + 3) = 0
<1> DEFINE N == patchCatalog(D, x, i)
           last == Place(D)
           e == End1(D)
           O == Upto(D, e, "open")
           C == Upto(D, e, "close")
<1>1. /\ \A p \in {First(D)} \cup Inner(D), kind \in {"open", "close"} : Upto(N, p, kind) = Upto(D, p, kind)
      /\ \A p \in {last + 1, last + 2, last + 3} : Upto(N, p, "open") = O
      /\ \A p \in {last + 1, last + 2} : Upto(N, p, "close") = C \ {e}
      /\ Upto(N, last + 3, "close") = (C \ {e}) \cup {last + 3}
  BY BracketsStay
<1>2. IsFiniteSet(C) /\ Cardinality(C) \in Nat /\ IsFiniteSet(O) /\ Cardinality(O) \in Nat
  BY UptoFinite
<1>3. Cardinality(O) = Cardinality(C)
  <2>1. Depth(D, e) = 0
    BY DEF IsDict, End1
  <2> QED
    BY <1>2, <2>1, DepthIs, SMT
<1>4. e \in C
  <2>1. e \in DOMAIN D /\ D[e].kind = "close" /\ e <= e
    BY DictEnds
  <2> QED
    BY <2>1 DEF Upto
<1>5. last + 3 \notin C \ {e}
  <2>1. /\ last \in Nat /\ \A p \in {First(D)} \cup Inner(D) : p <= last
    BY Patched
  <2>2. C \ {e} \subseteq {First(D)} \cup Inner(D)
    BY RemovedIs DEF Inner, Own, Entries, Upto
  <2>3. \A p \in C \ {e} : p <= last
    BY <2>1, <2>2
  <2>4. ~(last + 3 <= last)
    BY <2>1, SMT
  <2> QED
    BY <2>3, <2>4
<1> HIDE DEF N, last, C, O, e
<1>6. /\ IsFiniteSet(C \ {e}) /\ Cardinality(C \ {e}) = Cardinality(C) - 1
      /\ Cardinality((C \ {e}) \cup {last + 3}) = Cardinality(C)
  <2>1. IsFiniteSet(C \ {e}) /\ Cardinality(C \ {e}) = Cardinality(C) - 1
    BY <1>2, <1>4, FS_RemoveElement
  <2>2. Cardinality((C \ {e}) \cup {last + 3}) = Cardinality(C \ {e}) + 1
    BY <1>5, <2>1, FS_AddElement
  <2> QED
    BY <1>2, <2>1, <2>2, SMT
<1>7. \A p \in {last + 1, last + 2, last + 3} :
        Depth(N, p) = Cardinality(O) - Cardinality(Upto(N, p, "close"))
  BY <1>1, DepthIs
<1>8. Depth(N, last + 1) = 1 /\ Depth(N, last + 2) = 1 /\ Depth(N, last + 3) = 0
  <2>1. /\ Depth(N, last + 1) = Cardinality(O) - Cardinality(C \ {e})
        /\ Depth(N, last + 2) = Cardinality(O) - Cardinality(C \ {e})
        /\ Depth(N, last + 3) = Cardinality(O) - Cardinality((C \ {e}) \cup {last + 3})
    BY <1>1, <1>7
  <2> QED
    BY <1>2, <1>3, <1>6, <2>1, SMT
<1>9. ASSUME NEW p \in {First(D)} \cup Inner(D) PROVE Depth(N, p) = Depth(D, p) /\ Depth(D, p) > 0
  <2>1. Depth(N, p) = Depth(D, p)
    BY <1>1, DepthIs
  <2>2. p \in DOMAIN D \ {End1(D)}
    BY DictEnds DEF Inner
  <2> QED
    BY <2>1, <2>2 DEF IsDict, End1
<1> QED
  BY <1>8, <1>9 DEF N, last

\* The catalog of a stamped file is a dictionary with the old one's entries, at their
\* depths, and one of each marker, and can be stamped again (patchCatalog).
THEOREM CatalogIsStamped ==
  ASSUME NEW D, IsText(D), IsDict(D), Replaceable(D), NEW x \in Nat, NEW i \in Nat
  PROVE  LET N == patchCatalog(D, x, i)
             last == Place(D)
         IN  /\ IsText(N) /\ IsDict(N) /\ Replaceable(N) /\ Kept(N) = Kept(D)
             /\ Own(N, {"Metadata"}) = {last + 1} /\ N[last + 1].ref = x
             /\ Own(N, {"OutputIntents"}) = {last + 2} /\ N[last + 2].ref = i
<1> DEFINE N == patchCatalog(D, x, i)
           last == Place(D)
           m == First(D)
           I == Inner(D)
<1>1. /\ last \in Nat /\ m <= last /\ \A p \in I : m < p /\ p <= last
      /\ DOMAIN N = {m} \cup I \cup {last + 1, last + 2, last + 3}
      /\ N[m] = Open(TRUE)
      /\ \A p \in I : N[p] = Led(D, p)
      /\ N[last + 1] = Entry("Metadata", x, TRUE)
      /\ N[last + 2] = Entry("OutputIntents", i, TRUE)
      /\ N[last + 3] = Close(TRUE)
  BY Patched
<1>2. IsText(N) /\ Min(DOMAIN N) = m /\ Max(DOMAIN N) = last + 3
  BY BracketsStay
<1>3. /\ \A p \in {m} \cup I : Depth(N, p) = Depth(D, p) /\ Depth(N, p) > 0
      /\ Depth(N, last + 1) = 1 /\ Depth(N, last + 2) = 1 /\ Depth(N, last + 3) = 0
  BY DepthsStay
<1>4. /\ N[m].kind = "open" /\ N[m].head = TRUE
      /\ N[last + 1].kind = "entry" /\ N[last + 1].key = "Metadata" /\ N[last + 1].ref = x
      /\ N[last + 1].head = TRUE
      /\ N[last + 2].kind = "entry" /\ N[last + 2].key = "OutputIntents" /\ N[last + 2].ref = i
      /\ N[last + 2].head = TRUE
      /\ N[last + 3].kind = "close" /\ N[last + 3].head = TRUE
  BY <1>1 DEF Open, Close, Entry
<1>5. \A p \in I : /\ N[p].kind = D[p].kind /\ N[p].key = D[p].key /\ N[p].ref = D[p].ref
                   /\ N[p].head => D[p].head
  <2>1. I \subseteq DOMAIN D
    BY DEF Inner
  <2> QED
    BY <1>1, <2>1, LedIs
<1>6. /\ I \subseteq DOMAIN D /\ I \cap Removed(D) = {} /\ DOMAIN D \subseteq Nat /\ DOMAIN D # {}
      /\ \A p \in DOMAIN D : D[p].kind = "entry" => p \in I \cup Removed(D)
      /\ D[m].head /\ m = Min(DOMAIN D) /\ m \in DOMAIN D
  BY DictEnds, RemovedIs DEF Inner, IsText, First
<1>7. \A p \in Removed(D) : D[p].kind = "entry" => p \in Own(D, Markers)
  BY RemovedIs, DictEnds
<1>8. \A p \in I : p \notin Own(D, Markers)
  BY <1>6, RemovedIs
<1> HIDE DEF N, last, m, I
<1>9. /\ last + 1 \in DOMAIN N /\ last + 2 \in DOMAIN N /\ last + 3 \in DOMAIN N /\ m \in DOMAIN N
      /\ I \subseteq DOMAIN N
  BY <1>1
<1>10. \A p \in DOMAIN N : \/ p = m \/ p \in I \/ p = last + 1 \/ p = last + 2 \/ p = last + 3
  BY <1>1
<1>11. IsDict(N)
  <2>1. \A p \in DOMAIN N \ {last + 3} : Depth(N, p) > 0
    <3>1. Depth(N, last + 1) > 0 /\ Depth(N, last + 2) > 0
      BY <1>3, SMT
    <3> QED
      BY <1>3, <1>10, <3>1
  <2> QED
    BY <1>2, <1>3, <1>4, <1>9, <2>1 DEF IsDict
<1>12. ASSUME NEW p \in I PROVE p \notin Own(N, Markers)
  <2>1. p \in Own(N, Markers) => p \in Own(D, Markers)
    BY <1>3, <1>5, <1>6 DEF Own, Entries
  <2> QED
    BY <1>8, <2>1
<1>13. /\ Own(N, {"Metadata"}) = {last + 1} /\ Own(N, {"OutputIntents"}) = {last + 2}
       /\ Own(N, Markers) = {last + 1, last + 2}
  <2>1. Own(N, Markers) \subseteq {last + 1, last + 2}
    BY <1>4, <1>10, <1>12 DEF Own, Entries
  <2>2. last + 1 \in Own(N, {"Metadata"}) /\ last + 2 \in Own(N, {"OutputIntents"})
    BY <1>3, <1>4, <1>9 DEF Own, Entries
  <2>3. /\ Own(N, {"Metadata"}) \subseteq Own(N, Markers) /\ Own(N, {"OutputIntents"}) \subseteq Own(N, Markers)
    BY DEF Own, Markers
  <2>4. last + 2 \notin Own(N, {"Metadata"}) /\ last + 1 \notin Own(N, {"OutputIntents"})
    BY <1>4 DEF Own
  <2> QED
    BY <2>1, <2>2, <2>3, <2>4
<1>14. Kept(N) = Kept(D)
  <2>1. Entries(N) \ Own(N, Markers) = {p \in I : D[p].kind = "entry"}
    <3>1. \A p \in I : p \in Entries(N) <=> D[p].kind = "entry"
      BY <1>5, <1>9 DEF Entries
    <3>2. \A p \in Entries(N) \ Own(N, Markers) : p \in I
      BY <1>4, <1>10, <1>13 DEF Entries
    <3> QED
      BY <1>12, <3>1, <3>2
  <2>2. Entries(D) \ Own(D, Markers) = {p \in I : D[p].kind = "entry"}
    BY <1>6, <1>7, <1>8 DEF Entries
  <2>3. \A p \in I : <<N[p].key, N[p].ref, Depth(N, p)>> = <<D[p].key, D[p].ref, Depth(D, p)>>
    BY <1>3, <1>5
  <2> DEFINE J == {p \in I : D[p].kind = "entry"}
  <2>4. J \subseteq I
    OBVIOUS
  <2> HIDE DEF J
  <2>5. {<<N[p].key, N[p].ref, Depth(N, p)>> : p \in J} = {<<D[p].key, D[p].ref, Depth(D, p)>> : p \in J}
    BY <2>3, <2>4
  <2> QED
    BY <2>1, <2>2, <2>5 DEF Kept, J
<1>15. Removed(N) \subseteq {last + 1, last + 2}
  <2> SUFFICES ASSUME NEW p \in Removed(N) PROVE p \in {last + 1, last + 2}
    OBVIOUS
  <2>1. p \in DOMAIN N
    BY DEF Removed, Lines
  <2> DEFINE s == LineStart(N, p)
  <2>2. s \in DOMAIN N /\ s <= p /\ N[s].head
    BY <1>2, <1>4, <1>9, <2>1, LineStarts
  <2>3. N[s].kind = "entry" /\ N[s].key \in Markers
    BY DEF Removed, Lines, IsEntry, Markers
  <2> HIDE DEF s
  <2>4. s \notin I
    <3> SUFFICES ASSUME s \in I PROVE FALSE
      OBVIOUS
    <3>1. D[s].kind = "entry" /\ D[s].key \in Markers /\ D[s].head /\ s \in DOMAIN D
      BY <1>5, <1>6, <2>2, <2>3
    <3>2. LineStart(D, s) = s
      BY <3>1, HeadStarts
    <3>3. s \in Removed(D)
      BY <3>1, <3>2 DEF Removed, Lines, IsEntry, Markers
    <3> QED
      BY <1>6, <3>3
  <2>5. s = last + 1 \/ s = last + 2
    BY <1>4, <1>10, <2>2, <2>3, <2>4
  <2>6. p \in {last + 1, last + 2, last + 3}
    <3>1. p # m /\ p \notin I
      <4>1. \A q \in {m} \cup I : q <= last /\ q \in Nat
        BY <1>1, <1>6
      <4>2. ~(last + 1 <= last) /\ ~(last + 2 <= last)
        BY <1>1, SMT
      <4>3. \A q \in Nat : last + 1 <= q \/ last + 2 <= q => ~(q <= last)
        BY <1>1, SMT
      <4> QED
        BY <2>2, <2>5, <4>1, <4>3
    <3> QED
      BY <1>10, <2>1, <3>1
  <2>7. p # last + 3
    <3> SUFFICES ASSUME p = last + 3 PROVE FALSE
      OBVIOUS
    <3>1. s = last + 3
      BY <1>2, <1>4, <1>9, HeadStarts DEF s
    <3> QED
      BY <1>4, <2>3, <3>1
  <2> QED
    BY <2>6, <2>7
<1>16. Replaceable(N)
  <2>1. \A p \in Own(N, Markers) : N[p].head
    BY <1>4, <1>13
  <2>2. \A p \in Removed(N) : p \in Own(N, Markers)
    BY <1>13, <1>15
  <2> QED
    BY <1>2, <1>4, <2>1, <2>2 DEF Replaceable
<1> QED
  BY <1>2, <1>4, <1>11, <1>13, <1>14, <1>16 DEF N, last

-----------------------------------------------------------------------------
(* The file *)

\* The parts of a file lie in the order of their offsets, and all before its end.
LEMMA LaidInOrder ==
  ASSUME NEW f, IsLaid(f)
  PROVE  /\ Len(f) \in Nat \ {0} /\ DOMAIN f = 1 .. Len(f)
         /\ \A i, k \in 1 .. Len(f) : i < k => f[i].off < f[k].off
         /\ \A i \in 1 .. Len(f) : f[i].off < Bytes(f) /\ End(f[i]) <= Bytes(f)
         /\ Bytes(f) \in Nat
<1>1. Len(f) \in Nat /\ DOMAIN f = 1 .. Len(f) /\ f # << >>
  BY LenProperties DEF IsLaid
<1>2. Len(f) # 0
  BY <1>1, EmptySeq DEF IsLaid
<1> DEFINE n == Len(f)
<1>3. n \in Nat \ {0}
  BY <1>1, <1>2
<1>4. /\ \A i \in 1 .. n : f[i].off \in Nat \ {0} /\ f[i].size \in Nat \ {0}
      /\ \A i, k \in 1 .. n : i < k => f[i].off + f[i].size <= f[k].off
  BY DEF IsLaid, End
<1>5. Bytes(f) = f[n].off + f[n].size
  BY DEF Bytes, Last, End
<1> HIDE DEF n
<1>6. \A i, k \in 1 .. n : i < k => f[i].off < f[k].off
  <2> SUFFICES ASSUME NEW i \in 1 .. n, NEW k \in 1 .. n, i < k PROVE f[i].off < f[k].off
    OBVIOUS
  <2>1. /\ f[i].off \in Nat \ {0} /\ f[i].size \in Nat \ {0} /\ f[k].off \in Nat \ {0}
        /\ f[i].off + f[i].size <= f[k].off
    BY <1>4
  <2> QED
    BY <2>1, SMT
<1>7. ASSUME NEW i \in 1 .. n PROVE f[i].off < Bytes(f) /\ f[i].off + f[i].size <= Bytes(f)
  <2>1. n \in 1 .. n /\ (i < n \/ i = n)
    BY <1>3, SMT
  <2>2. f[i].off \in Nat \ {0} /\ f[i].size \in Nat \ {0} /\ f[n].off \in Nat \ {0} /\ f[n].size \in Nat \ {0}
    BY <1>4, <2>1
  <2>3. i < n => f[i].off + f[i].size <= f[n].off
    BY <1>4, <2>1
  <2> QED
    BY <1>5, <2>1, <2>2, <2>3, SMT
<1>8. Bytes(f) \in Nat
  <2>1. n \in 1 .. n
    BY <1>3, SMT
  <2>2. f[n].off \in Nat /\ f[n].size \in Nat
    BY <1>4, <2>1
  <2> QED
    BY <1>5, <2>2, SMT
<1> QED
  BY <1>1, <1>3, <1>6, <1>7, <1>8 DEF n, End

\* No two parts lie at an offset.
LEMMA OneLies ==
  ASSUME NEW f, IsLaid(f), NEW k \in 1 .. Len(f)
  PROVE  At(f, f[k].off, f[k].kind) = {k}
<1>1. \A i \in 1 .. Len(f) : f[i].off = f[k].off => i = k
  <2> SUFFICES ASSUME NEW i \in 1 .. Len(f), f[i].off = f[k].off, i # k PROVE FALSE
    OBVIOUS
  <2>1. f[i].off \in Nat /\ f[k].off \in Nat
    BY DEF IsLaid
  <2>2. i < k => f[i].off < f[k].off
    BY LaidInOrder
  <2>3. k < i => f[k].off < f[i].off
    BY LaidInOrder
  <2>4. i < k \/ k < i
    BY LaidInOrder, SMT
  <2> QED
    BY <2>1, <2>2, <2>3, <2>4, SMT
<1> QED
  BY <1>1 DEF At, Places

\* Any set of places in a file has a first and a last.
LEMMA PlacesFinite ==
  ASSUME NEW f, IsLaid(f), NEW S, S \subseteq 1 .. Len(f)
  PROVE  IsFiniteSet(S) /\ S \subseteq Int
<1>1. IsFiniteSet(1 .. Len(f)) /\ Len(f) \in Nat
  BY LaidInOrder, FS_Interval
<1>2. IsFiniteSet(S)
  BY <1>1, FS_Subset
<1> QED
  BY <1>1, <1>2, SMT

\* A file ends with a table, its trailer and the startxref that the tail holds.
LEMMA FileEnds ==
  ASSUME NEW f, WellFormed(f), Startxrefs(f) # {}, \A i \in Startxrefs(f) : i = Len(f)
  PROVE  LET n == Len(f)
         IN  /\ n \in Nat /\ n > 2 /\ n - 2 \in 1 .. n /\ n - 1 \in 1 .. n /\ n \in 1 .. n
             /\ f[n].kind = "startxref" /\ f[n - 1].kind = "trailer" /\ f[n - 2].kind = "xref"
             /\ f[n].to = f[n - 2].off
             /\ Max(Places(f, "trailer")) = n - 1 /\ Max(Places(f, "xref")) = n - 2
             /\ LastTrailer(f) = f[n - 1] /\ HasTrailer(f) /\ HasTable(f, f[n - 2].off)
             /\ findTrailer(f) = [dict |-> f[n - 1], xrefStart |-> f[n - 2].off]
             /\ parseXref(f, f[n - 2].off) = f[n - 2].at
<1> DEFINE n == Len(f)
<1>1. IsLaid(f) /\ Chained(f)
  BY DEF WellFormed
<1>2. n \in Nat \ {0} /\ n \in 1 .. n
  BY <1>1, LaidInOrder
<1>3. f[n].kind = "startxref" /\ n \in Places(f, "startxref")
  BY <1>1, <1>2 DEF Chained, Places
<1>4. n > 2 /\ f[n - 2].kind = "xref" /\ f[n].to = f[n - 2].off
  BY <1>1, <1>3 DEF Chained
<1>5. n - 2 \in 1 .. n /\ n - 1 \in 1 .. n
  <2> HIDE DEF n
  <2> QED
    BY <1>2, <1>4, SMT
<1>6. n - 2 \in Places(f, "xref")
  BY <1>4, <1>5 DEF Places
<1>7. f[n - 1].kind = "trailer"
  <2>1. f[(n - 2) + 1].kind = "trailer"
    BY <1>1, <1>6 DEF Chained
  <2>2. (n - 2) + 1 = n - 1
    BY <1>2, SMT
  <2> QED
    BY <2>1, <2>2
<1>8. n - 1 \in Places(f, "trailer")
  BY <1>5, <1>7 DEF Places
<1>9. Places(f, "trailer") \subseteq Int /\ \A i \in Places(f, "trailer") : i <= n - 1
  <2>1. \A i \in Places(f, "trailer") : i \in 1 .. n /\ i # n
    BY <1>3 DEF Places
  <2> HIDE DEF n
  <2> QED
    BY <1>2, <2>1, SMT
<1>10. Places(f, "xref") \subseteq Int /\ \A i \in Places(f, "xref") : i <= n - 2
  <2>1. \A i \in Places(f, "xref") : i \in 1 .. n /\ i # n /\ i # n - 1
    BY <1>3, <1>7 DEF Places
  <2> HIDE DEF n
  <2> QED
    BY <1>2, <2>1, SMT
<1>11. Max(Places(f, "trailer")) = n - 1 /\ Max(Places(f, "xref")) = n - 2
  BY <1>6, <1>8, <1>9, <1>10, MaxIs
<1>12. Startxrefs(f) = {n}
  OBVIOUS
<1>13. Min(Startxrefs(f)) = n
  <2>1. {n} \subseteq Int /\ n \in {n} /\ \A i \in {n} : n <= i
    BY <1>2
  <2> QED
    BY <1>12, <2>1, MinIs
<1>14. findTrailer(f) = [dict |-> f[n - 1], xrefStart |-> f[n - 2].off]
  BY <1>4, <1>11, <1>13 DEF findTrailer
<1>15. At(f, f[n - 2].off, "xref") = {n - 2}
  BY <1>1, <1>4, <1>5, OneLies
<1>16. parseXref(f, f[n - 2].off) = f[n - 2].at /\ HasTable(f, f[n - 2].off)
  BY <1>15 DEF parseXref, HasTable
<1>17. LastTrailer(f) = f[n - 1] /\ HasTrailer(f)
  BY <1>8, <1>11 DEF LastTrailer, HasTrailer
<1> QED
  BY <1>2, <1>3, <1>4, <1>5, <1>7, <1>11, <1>14, <1>16, <1>17

\* What begins at the offset the table has for an object is that object.
LEMMA FirstAt ==
  ASSUME NEW f, IsLaid(f), NEW num, Objects(f, num) # {}
  PROVE  \E j \in 1 .. Len(f) :
           /\ f[j].kind = "obj" /\ f[j].num = num /\ f[j].off = Offset(f, num)
           /\ Objects(f, num) = {j} /\ Body(f, num) = f[j].body
           /\ j \in Marked(f, Offset(f, num), num)
           /\ readObjectBody(f, Offset(f, num), num) = f[j].body
<1> DEFINE o == Offset(f, num)
<1>1. PICK j \in Objects(f, num) : TRUE
  OBVIOUS
<1>2. j \in 1 .. Len(f) /\ f[j].kind = "obj" /\ f[j].off = o /\ f[j].num = num
  BY <1>1 DEF Objects, At, Places
<1>3. At(f, o, "obj") = {j}
  BY <1>2, OneLies
<1>4. Objects(f, num) = {j}
  BY <1>2, <1>3 DEF Objects
<1>5. j \in Int /\ f[j].off \in Nat
  BY <1>2 DEF IsLaid
<1> HIDE DEF o
<1>6. Min({j}) = j
  <2>1. {j} \subseteq Int /\ j \in {j} /\ \A i \in {j} : j <= i
    BY <1>5
  <2> QED
    BY <2>1, MinIs
<1>7. j \in Marked(f, o, num)
  BY <1>2, <1>5 DEF Marked, Marks, Places
<1>8. Marked(f, o, num) \subseteq Int /\ \A i \in Marked(f, o, num) : j <= i
  <2> SUFFICES ASSUME NEW i \in Marked(f, o, num) PROVE i \in Int /\ j <= i
    OBVIOUS
  <2>1. i \in 1 .. Len(f) /\ f[i].off >= f[j].off
    BY <1>2 DEF Marked, Places
  <2>2. i \in Int /\ f[i].off \in Nat
    BY <2>1 DEF IsLaid
  <2>3. i < j => f[i].off < f[j].off
    BY <1>2, <2>1, LaidInOrder
  <2> QED
    BY <1>5, <2>1, <2>2, <2>3, SMT
<1>9. Min(Marked(f, o, num)) = j
  BY <1>7, <1>8, MinIs
<1> QED
  BY <1>2, <1>4, <1>6, <1>7, <1>9 DEF Body, readObjectBody, o

\* The catalog that Stamp patches is the one that a reader finds.
LEMMA CatalogIsFound ==
  ASSUME NEW f, WellFormed(f), Stampable(f), Plain(f)
  PROVE  LET root == LastTrailer(f).Root
         IN  Catalog(f) = Body(f, root) /\ Offset(f, root) = f[Len(f) - 2].at[root]
<1> DEFINE n == Len(f)
           root == LastTrailer(f).Root
<1>1. Startxrefs(f) # {} /\ \A i \in Startxrefs(f) : i = n
  BY DEF Stampable, HasTrailer, Plain
<1>2. /\ n - 2 \in 1 .. n /\ f[n - 2].kind = "xref" /\ Max(Places(f, "xref")) = n - 2
      /\ LastTrailer(f) = f[n - 1] /\ findTrailer(f) = [dict |-> f[n - 1], xrefStart |-> f[n - 2].off]
      /\ parseXref(f, f[n - 2].off) = f[n - 2].at
  BY <1>1, FileEnds
<1>3. findTrailer(f).dict.Root = root /\ parseXref(f, findTrailer(f).xrefStart) = f[n - 2].at
  BY <1>2
<1>4. root \in DOMAIN f[n - 2].at
  BY <1>3 DEF Stampable
<1>5. Offset(f, root) = f[n - 2].at[root]
  <2> DEFINE S == {i \in Places(f, "xref") : root \in DOMAIN f[i].at}
  <2>1. n - 2 \in S
    BY <1>2, <1>4 DEF Places
  <2>2. IsFiniteSet(Places(f, "xref")) /\ Places(f, "xref") \subseteq Int /\ Places(f, "xref") # {}
    BY <2>1, PlacesFinite DEF Places, WellFormed
  <2>3. \A i \in Places(f, "xref") : i <= n - 2
    BY <1>2, <2>2, MaxExists
  <2>4. S \subseteq Int /\ \A i \in S : i <= n - 2
    BY <2>2, <2>3
  <2>5. Max(S) = n - 2
    BY <2>1, <2>4, MaxIs
  <2> QED
    BY <2>5 DEF Offset
<1>6. Objects(f, root) # {} /\ IsLaid(f)
  BY DEF WellFormed
<1>7. readObjectBody(f, Offset(f, root), root) = Body(f, root)
  BY <1>6, FirstAt
<1> QED
  BY <1>3, <1>5, <1>7 DEF Catalog

IsSequence(g) == g \in Seq({g[i] : i \in 1 .. Len(g)})
Moved(part, by) == [part EXCEPT !.off = part.off + by]

\* g is f and an update of six parts, the catalog among them of some size.
Grown(f, g, size) ==
  LET n    == Len(f)
      b    == Bytes(f)
      Size == LastTrailer(f).Size
      Root == LastTrailer(f).Root
      at   == [m \in {Size, Size + 1, Root} |->
                 IF m = Root THEN b + XmpSize + IccSize
                 ELSE IF m = Size THEN b ELSE b + XmpSize]
      mid  == b + XmpSize + IccSize + size
      long == 15 + 20 * Cardinality({Size, Size + 1, Root})
  IN  /\ IsSequence(g) /\ Len(g) = n + 6
      /\ \A i \in 1 .. n : g[i] = f[i]
      /\ g[n + 1] = Obj(b, Size, Stream("xmp"), XmpSize)
      /\ g[n + 2] = Obj(b + XmpSize, Size + 1, Stream("icc"), IccSize)
      /\ g[n + 3] = Obj(b + XmpSize + IccSize, Root,
                        patchCatalog(Body(f, Root), Size, Size + 1), size)
      /\ g[n + 4] = [kind |-> "xref", off |-> mid, at |-> at, size |-> long]
      /\ g[n + 5] = Trailer(mid + long, Size + 2, Root, f[n - 2].off)
      /\ g[n + 6] = StartXref(mid + long + 60, mid)

\* Three objects at most are in the update's table.
LEMMA ThreeAreFinite ==
  ASSUME NEW a, NEW b, NEW c
  PROVE  IsFiniteSet({a, b, c}) /\ Cardinality({a, b, c}) \in Nat
<1>1. IsFiniteSet({})
  BY FS_EmptySet
<1>2. IsFiniteSet({} \cup {a})
  BY <1>1, FS_AddElement
<1>3. IsFiniteSet(({} \cup {a}) \cup {b})
  BY <1>2, FS_AddElement
<1>4. IsFiniteSet((({} \cup {a}) \cup {b}) \cup {c})
  BY <1>3, FS_AddElement
<1>5. (({} \cup {a}) \cup {b}) \cup {c} = {a, b, c}
  OBVIOUS
<1> QED
  BY <1>4, <1>5, FS_CardinalityType

\* The update, its offsets reckoned from its first part (Update).
LEMMA UpdateIs ==
  ASSUME NEW base \in Nat, NEW prev, NEW dict, NEW catalog, dict.Size \in Nat,
         dict.Root # dict.Size, dict.Root # dict.Size + 1,
         NEW size \in Nat,
         size = 40 * Cardinality(DOMAIN patchCatalog(catalog, dict.Size, dict.Size + 1))
  PROVE  LET at   == [m \in {dict.Size, dict.Size + 1, dict.Root} |->
                        IF m = dict.Root THEN base + XmpSize + IccSize
                        ELSE IF m = dict.Size THEN base ELSE base + XmpSize]
             mid  == XmpSize + IccSize + size
             long == 15 + 20 * Cardinality({dict.Size, dict.Size + 1, dict.Root})
         IN  Update(base, prev, dict, catalog) =
               <<Obj(0, dict.Size, Stream("xmp"), XmpSize),
                 Obj(XmpSize, dict.Size + 1, Stream("icc"), IccSize),
                 Obj(XmpSize + IccSize, dict.Root,
                     patchCatalog(catalog, dict.Size, dict.Size + 1), size),
                 [kind |-> "xref", off |-> mid, at |-> at, size |-> long],
                 Trailer(mid + long, dict.Size + 2, dict.Root, prev),
                 StartXref(mid + long + 60, base + mid)>>
<1> DEFINE S == dict.Size
           R == dict.Root
           N == {S, S + 1, R}
           c == patchCatalog(catalog, S, S + 1)
           X == Stream("xmp")
           I == Stream("icc")
           at == [m \in N |-> IF m = R THEN base + XmpSize + IccSize
                              ELSE IF m = S THEN base ELSE base + XmpSize]
           long == 15 + 20 * Cardinality(N)
           mid == XmpSize + IccSize + size
           xmp  == Obj(0, S, X, XmpSize)
           icc  == Obj(End(xmp), S + 1, I, IccSize)
           root == Obj(End(icc), R, c, 40 * Cardinality(DOMAIN c))
           newOffsets == [m \in N |-> base + (CASE m = R -> root.off [] m = S -> xmp.off
                                                [] OTHER -> icc.off)]
           table == Table(End(root), newOffsets)
           trailer == Trailer(End(table), S + 2, R, prev)
           last == StartXref(End(trailer), base + table.off)
<1>1. XmpSize \in Nat /\ IccSize \in Nat
  BY StampAssumption
<1>2. Cardinality(N) \in Nat /\ R # S
  BY ThreeAreFinite
<1>3. Update(base, prev, dict, catalog) = <<xmp, icc, root, table, trailer, last>>
  BY Zenon DEF Update
<1> HIDE DEF S, R, c, X, I
<1>4. xmp.off = 0 /\ icc = Obj(XmpSize, S + 1, I, IccSize) /\ icc.off = XmpSize
  <2>1. xmp.off = 0 /\ xmp.size = XmpSize
    BY DEF Obj
  <2>2. End(xmp) = XmpSize
    BY <1>1, <2>1 DEF End
  <2> QED
    BY <2>1, <2>2 DEF Obj
<1>5. root = Obj(XmpSize + IccSize, R, c, size) /\ root.off = XmpSize + IccSize /\ root.size = size
  <2>1. icc.size = IccSize
    BY DEF Obj
  <2>2. End(icc) = XmpSize + IccSize
    BY <1>4, <2>1 DEF End
  <2>3. root = Obj(XmpSize + IccSize, R, c, size)
    BY <2>2 DEF c, S
  <2> QED
    BY <2>3 DEF Obj
<1>6. newOffsets = at
  <2> DEFINE A(m) == base + (CASE m = R -> root.off [] m = S -> xmp.off [] OTHER -> icc.off)
             B(m) == IF m = R THEN base + XmpSize + IccSize
                     ELSE IF m = S THEN base ELSE base + XmpSize
  <2>1. base + (XmpSize + IccSize) = base + XmpSize + IccSize /\ base + 0 = base
    BY <1>1, SMT
  <2>2. xmp.off = 0 /\ icc.off = XmpSize /\ root.off = XmpSize + IccSize
    BY <1>4, <1>5
  <2> HIDE DEF xmp, icc, root, N
  <2>3. ASSUME NEW m \in N PROVE A(m) = B(m)
    <3>1. CASE m = R
      BY <1>2, <2>1, <2>2, <3>1
    <3>2. CASE m # R /\ m = S
      BY <2>1, <2>2, <3>2
    <3>3. CASE m # R /\ m # S
      BY <2>1, <2>2, <3>3
    <3> QED
      BY <3>1, <3>2, <3>3
  <2>4. newOffsets = [m \in N |-> A(m)] /\ at = [m \in N |-> B(m)]
    BY Zenon
  <2> HIDE DEF A, B, newOffsets, at
  <2> QED
    BY <2>3, <2>4
<1>7. table = [kind |-> "xref", off |-> mid, at |-> at, size |-> long]
  <2>1. End(root) = mid
    BY <1>5 DEF End
  <2>2. DOMAIN at = N
    OBVIOUS
  <2> HIDE DEF mid, root, newOffsets, at
  <2> QED
    BY <1>6, <2>1, <2>2 DEF Table
<1>8. table.off = mid /\ End(table) = mid + long
  <2> HIDE DEF mid, long, at, table
  <2>1. table.off = mid /\ table.size = long
    BY <1>7
  <2> QED
    BY <2>1 DEF End
<1>9. trailer = Trailer(mid + long, S + 2, R, prev) /\ End(trailer) = mid + long + 60
  <2>1. trailer = Trailer(mid + long, S + 2, R, prev)
    BY <1>8
  <2>2. trailer.off = mid + long /\ trailer.size = 60
    <3> HIDE DEF mid, long
    <3> QED
      BY <2>1 DEF Trailer
  <2> QED
    BY <2>1, <2>2 DEF End
<1>10. last = StartXref(mid + long + 60, base + mid)
  BY <1>8, <1>9
<1> HIDE DEF xmp, icc, root, table, trailer, last, mid, long, at, newOffsets, N
<1>11. Update(base, prev, dict, catalog) =
          <<Obj(0, S, X, XmpSize), Obj(XmpSize, S + 1, I, IccSize), Obj(XmpSize + IccSize, R, c, size),
            [kind |-> "xref", off |-> mid, at |-> at, size |-> long],
            Trailer(mid + long, S + 2, R, prev), StartXref(mid + long + 60, base + mid)>>
  <2>1. xmp = Obj(0, S, X, XmpSize)
    BY DEF xmp
  <2> QED
    BY <1>3, <1>4, <1>5, <1>7, <1>9, <1>10, <2>1
<1> QED
  BY <1>11, Zenon DEF S, R, X, I, c, mid, long, at, N

\* Two sequences on the same positions are as long.
LEMMA SameLength ==
  ASSUME NEW a \in Nat, NEW b \in Nat, 1 .. a = 1 .. b
  PROVE  a = b
<1>1. a # 0 => a \in 1 .. a
  BY SMT
<1>2. b # 0 => b \in 1 .. b
  BY SMT
<1>3. a # 0 => a \in 1 .. b
  BY <1>1
<1>4. b # 0 => b \in 1 .. a
  BY <1>2
<1> QED
  BY <1>3, <1>4, SMT

\* A sequence of six.
LEMMA SixLong ==
  ASSUME NEW t1, NEW t2, NEW t3, NEW t4, NEW t5, NEW t6,
         NEW u, u = <<t1, t2, t3, t4, t5, t6>>
  PROVE  /\ \E T : u \in Seq(T)
         /\ Len(u) = 6 /\ u[1] = t1 /\ u[2] = t2 /\ u[3] = t3 /\ u[4] = t4 /\ u[5] = t5 /\ u[6] = t6
<1> DEFINE T == {t1, t2, t3, t4, t5, t6}
<1>1. t1 \in T /\ t2 \in T /\ t3 \in T /\ t4 \in T /\ t5 \in T /\ t6 \in T
  OBVIOUS
<1> HIDE DEF T
<1>2. u \in Seq(T)
  BY <1>1
<1> QED
  BY <1>2

\* Appended leaves the file as it is and moves the update behind it.
LEMMA AppendedIs ==
  ASSUME NEW f, IsLaid(f), NEW T, NEW u \in Seq(T), NEW g, g = Appended(f, u)
  PROVE  /\ IsSequence(g) /\ Len(g) = Len(f) + Len(u)
         /\ \A i \in 1 .. Len(f) : g[i] = f[i]
         /\ \A k \in 1 .. Len(u) : g[Len(f) + k] = Moved(u[k], Bytes(f))
<1> DEFINE n == Len(f)
           k == Len(u)
           F == {f[i] : i \in 1 .. n}
           M(i) == [u[i] EXCEPT !.off = u[i].off + Bytes(f)]
           v == [i \in 1 .. k |-> M(i)]
           V == {M(i) : i \in 1 .. k}
<1>1. g = f \o v
  BY DEF Appended
<1>2. n \in Nat /\ k \in Nat /\ f \in Seq(F)
  BY LenProperties DEF IsLaid
<1>3. v \in [1 .. k -> V]
  OBVIOUS
<1>4. \A i \in 1 .. k : v[i] = M(i)
  OBVIOUS
<1> HIDE DEF v, M, k
<1>5. v \in Seq(V) /\ Len(v) = k
  <2>1. v \in UNION {[1 .. m -> V] : m \in Nat}
    BY <1>2, <1>3
  <2>2. v \in Seq(V)
    BY <2>1, SeqDef, Zenon
  <2>3. DOMAIN v = 1 .. Len(v) /\ Len(v) \in Nat
    BY <2>2, LenProperties
  <2>4. DOMAIN v = 1 .. k
    BY <1>3
  <2>5. Len(v) = k
    BY <1>2, <2>3, <2>4, SameLength
  <2> QED
    BY <2>2, <2>5
<1> DEFINE S == F \cup V
<1>6. f \in Seq(S) /\ v \in Seq(S)
  <2>1. F \subseteq S /\ V \subseteq S
    OBVIOUS
  <2> HIDE DEF S, F, V
  <2> QED
    BY <1>2, <1>5, <2>1, SeqMonotonic
<1> HIDE DEF n, S, F, V
<1>7. /\ g \in Seq(S) /\ Len(g) = n + k
      /\ \A i \in 1 .. n + k : g[i] = IF i <= n THEN f[i] ELSE v[i - n]
  <2>1. /\ f \o v \in Seq(S) /\ Len(f \o v) = Len(f) + Len(v)
        /\ \A i \in 1 .. Len(f) + Len(v) :
             (f \o v)[i] = IF i <= Len(f) THEN f[i] ELSE v[i - Len(f)]
    BY <1>6, ConcatProperties
  <2> QED
    BY <1>1, <1>5, <2>1 DEF n
<1>8. \A i \in 1 .. n : g[i] = f[i]
  <2> SUFFICES ASSUME NEW i \in 1 .. n PROVE g[i] = f[i]
    OBVIOUS
  <2>1. i \in 1 .. n + k /\ i <= n
    BY <1>2, SMT
  <2> QED
    BY <1>7, <2>1
<1>9. \A i \in 1 .. k : g[n + i] = M(i)
  <2> SUFFICES ASSUME NEW i \in 1 .. k PROVE g[n + i] = M(i)
    OBVIOUS
  <2>1. n + i \in 1 .. n + k /\ ~(n + i <= n) /\ (n + i) - n = i
    BY <1>2, SMT
  <2> QED
    BY <1>4, <1>7, <2>1
<1>10. IsSequence(g)
  <2> DEFINE G == {g[i] : i \in 1 .. Len(g)}
  <2>1. g \in [1 .. Len(g) -> S] /\ Len(g) \in Nat
    BY <1>7, LenProperties
  <2>2. g \in [1 .. Len(g) -> G]
    BY <2>1
  <2> HIDE DEF G
  <2>3. g \in UNION {[1 .. m -> G] : m \in Nat}
    BY <2>1, <2>2
  <2>4. g \in Seq(G)
    BY <2>3, SeqDef, Zenon
  <2> QED
    BY <2>4 DEF G, IsSequence
<1> QED
  BY <1>7, <1>8, <1>9, <1>10 DEF n, k, M, Moved

\* So a stamped file is the file and an update at its end.
LEMMA StampIs ==
  ASSUME NEW f, WellFormed(f), Stampable(f), Plain(f), NEW size \in Nat,
         size = 40 * Cardinality(DOMAIN patchCatalog(Body(f, LastTrailer(f).Root),
                                     LastTrailer(f).Size, LastTrailer(f).Size + 1))
  PROVE  Grown(f, Stamp(f), size)
<1> DEFINE n    == Len(f)
           b    == Bytes(f)
           Size == LastTrailer(f).Size
           Root == LastTrailer(f).Root
           N    == {Size, Size + 1, Root}
           long == 15 + 20 * Cardinality(N)
           prev == f[n - 2].off
           dict == f[n - 1]
           c    == patchCatalog(Body(f, Root), Size, Size + 1)
           at   == [m \in N |-> IF m = Root THEN b + XmpSize + IccSize
                                ELSE IF m = Size THEN b ELSE b + XmpSize]
           mid  == XmpSize + IccSize + size
<1>1. Startxrefs(f) # {} /\ \A i \in Startxrefs(f) : i = n
  BY DEF Stampable, HasTrailer, Plain
<1>2. /\ n \in Nat /\ LastTrailer(f) = dict
      /\ findTrailer(f) = [dict |-> dict, xrefStart |-> prev]
  BY <1>1, FileEnds
<1>3. Catalog(f) = Body(f, Root) /\ Size \in Nat /\ IsLaid(f) /\ b \in Nat
  BY CatalogIsFound, LaidInOrder DEF WellFormed
<1>4. Cardinality(N) \in Nat /\ XmpSize \in Nat /\ IccSize \in Nat
  BY ThreeAreFinite, StampAssumption
<1>5. Root # Size /\ Root # Size + 1
  <2>1. Root \in Nat /\ Root < Size
    BY DEF WellFormed
  <2> HIDE DEF Root, Size
  <2> QED
    BY <1>3, <2>1, SMT
<1> DEFINE u == Update(b, prev, dict, Body(f, Root))
           X == Stream("xmp")
           I == Stream("icc")
<1>6. Stamp(f) = Appended(f, u)
  BY <1>2, <1>3 DEF Stamp
<1>7. dict.Size = Size /\ dict.Root = Root
  BY <1>2
<1>8. u = <<Obj(0, Size, X, XmpSize), Obj(XmpSize, Size + 1, I, IccSize),
            Obj(XmpSize + IccSize, Root, c, size),
            [kind |-> "xref", off |-> mid, at |-> at, size |-> long],
            Trailer(mid + long, Size + 2, Root, prev), StartXref(mid + long + 60, b + mid)>>
  <2> HIDE DEF b, prev, dict, Size, Root
  <2>1. dict.Size \in Nat /\ dict.Root # dict.Size /\ dict.Root # dict.Size + 1
    BY <1>3, <1>5, <1>7
  <2>2. size = 40 * Cardinality(DOMAIN patchCatalog(Body(f, Root), dict.Size, dict.Size + 1))
    BY <1>7 DEF Root, Size
  <2> QED
    BY <1>3, <1>7, <2>1, <2>2, UpdateIs
<1> HIDE DEF n, b, Size, Root, N, long, prev, dict, c, at, mid, u, X, I
<1> DEFINE g == Stamp(f)
<1>9. PICK T : u \in Seq(T)
  BY <1>8, SixLong
<1> HIDE DEF g
<1>10. /\ Len(u) = 6 /\ u[1] = Obj(0, Size, X, XmpSize) /\ u[2] = Obj(XmpSize, Size + 1, I, IccSize)
       /\ u[3] = Obj(XmpSize + IccSize, Root, c, size)
       /\ u[4] = [kind |-> "xref", off |-> mid, at |-> at, size |-> long]
       /\ u[5] = Trailer(mid + long, Size + 2, Root, prev)
       /\ u[6] = StartXref(mid + long + 60, b + mid)
  BY <1>8, SixLong
<1>11. /\ IsSequence(g) /\ Len(g) = n + 6
       /\ \A i \in 1 .. n : g[i] = f[i]
       /\ \A k \in 1 .. 6 : g[n + k] = Moved(u[k], b)
  <2>1. /\ IsSequence(g) /\ Len(g) = Len(f) + Len(u)
        /\ \A i \in 1 .. Len(f) : g[i] = f[i]
        /\ \A k \in 1 .. Len(u) : g[Len(f) + k] = Moved(u[k], Bytes(f))
    <3>1. g = Appended(f, u)
      BY <1>6 DEF g
    <3> QED
      BY <1>3, <1>9, <3>1, AppendedIs, Zenon
  <2> QED
    BY <1>10, <2>1 DEF n, b
<1>12. /\ g[n + 1] = [u[1] EXCEPT !.off = u[1].off + b]
       /\ g[n + 2] = [u[2] EXCEPT !.off = u[2].off + b]
       /\ g[n + 3] = [u[3] EXCEPT !.off = u[3].off + b]
       /\ g[n + 4] = [u[4] EXCEPT !.off = u[4].off + b]
       /\ g[n + 5] = [u[5] EXCEPT !.off = u[5].off + b]
       /\ g[n + 6] = [u[6] EXCEPT !.off = u[6].off + b]
  BY <1>11 DEF Moved
<1>13. mid \in Nat /\ long \in Nat /\ b + mid = b + XmpSize + IccSize + size
  BY <1>3, <1>4, SMT DEF mid, long
<1>14. /\ 0 + b = b /\ XmpSize + b = b + XmpSize
       /\ XmpSize + IccSize + b = b + XmpSize + IccSize /\ mid + b = b + mid
       /\ mid + long + b = b + mid + long /\ mid + long + 60 + b = b + mid + long + 60
  BY <1>3, <1>4, <1>13, SMT
<1>15. /\ \A o, m, y, z : Obj(o, m, y, z).off = o /\ [Obj(o, m, y, z) EXCEPT !.off = o + b] = Obj(o + b, m, y, z)
       /\ \A o, s, r, p : Trailer(o, s, r, p).off = o /\ [Trailer(o, s, r, p) EXCEPT !.off = o + b] = Trailer(o + b, s, r, p)
       /\ \A o, t : StartXref(o, t).off = o /\ [StartXref(o, t) EXCEPT !.off = o + b] = StartXref(o + b, t)
  BY DEF Obj, Trailer, StartXref
<1>16. /\ g[n + 1] = Obj(b, Size, X, XmpSize) /\ g[n + 2] = Obj(b + XmpSize, Size + 1, I, IccSize)
       /\ g[n + 3] = Obj(b + XmpSize + IccSize, Root, c, size)
  BY <1>10, <1>12, <1>14, <1>15
<1>17. g[n + 4] = [kind |-> "xref", off |-> b + mid, at |-> at, size |-> long]
  BY <1>10, <1>12, <1>14
<1>18. /\ g[n + 5] = Trailer(b + mid + long, Size + 2, Root, prev)
       /\ g[n + 6] = StartXref(b + mid + long + 60, b + mid)
  BY <1>10, <1>12, <1>14, <1>15
<1> QED
  BY <1>11, <1>13, <1>16, <1>17, <1>18, Zenon DEF Grown, n, b, Size, Root, N, long, prev, c, at, X, I, g

\* Where the new table lies, and how long it is.
TableAt(f, size) == Bytes(f) + XmpSize + IccSize + size
TableSize(f) ==
  15 + 20 * Cardinality({LastTrailer(f).Size, LastTrailer(f).Size + 1, LastTrailer(f).Root})

\* The update's parts, field by field.
LEMMA GrownFields ==
  ASSUME NEW f, IsLaid(f), NEW g, NEW size \in Nat \ {0}, Grown(f, g, size)
  PROVE  LET n    == Len(f)
             b    == Bytes(f)
             Size == LastTrailer(f).Size
             Root == LastTrailer(f).Root
             mid  == TableAt(f, size)
             long == TableSize(f)
         IN  /\ n \in Nat /\ b \in Nat /\ mid \in Nat /\ long \in Nat \ {0}
             /\ IsSequence(g) /\ Len(g) = n + 6
             /\ \A i \in 1 .. n : g[i] = f[i]
             /\ \A i \in 1 .. Len(g) : \/ i \in 1 .. n
                                       \/ i \in {n + 1, n + 2, n + 3, n + 4, n + 5, n + 6}
             /\ \A i \in (1 .. n) \cup {n + 1, n + 2, n + 3, n + 4, n + 5, n + 6} : i \in 1 .. Len(g)
             /\ g[n + 1].kind = "obj" /\ g[n + 1].off = b /\ g[n + 1].size = XmpSize
             /\ g[n + 1].num = Size /\ g[n + 1].body = Stream("xmp")
             /\ g[n + 2].kind = "obj" /\ g[n + 2].off = b + XmpSize /\ g[n + 2].size = IccSize
             /\ g[n + 2].num = Size + 1 /\ g[n + 2].body = Stream("icc")
             /\ g[n + 3].kind = "obj" /\ g[n + 3].off = b + XmpSize + IccSize /\ g[n + 3].size = size
             /\ g[n + 3].num = Root /\ g[n + 3].body = patchCatalog(Body(f, Root), Size, Size + 1)
             /\ g[n + 4].kind = "xref" /\ g[n + 4].off = mid /\ g[n + 4].size = long
             /\ DOMAIN g[n + 4].at = {Size, Size + 1, Root}
             /\ g[n + 5].kind = "trailer" /\ g[n + 5].off = mid + long /\ g[n + 5].size = 60
             /\ g[n + 5].Size = Size + 2 /\ g[n + 5].Root = Root /\ g[n + 5].Prev = f[n - 2].off
             /\ g[n + 6].kind = "startxref" /\ g[n + 6].off = mid + long + 60 /\ g[n + 6].size = 25
             /\ g[n + 6].to = mid
<1> DEFINE n    == Len(f)
           b    == Bytes(f)
           Size == LastTrailer(f).Size
           Root == LastTrailer(f).Root
           mid  == TableAt(f, size)
           long == TableSize(f)
           c    == patchCatalog(Body(f, Root), Size, Size + 1)
           at   == [m \in {Size, Size + 1, Root} |->
                      IF m = Root THEN b + XmpSize + IccSize
                      ELSE IF m = Size THEN b ELSE b + XmpSize]
           prev == f[n - 2].off
           X == Stream("xmp")
           I == Stream("icc")
<1>1. n \in Nat /\ b \in Nat
  BY LaidInOrder
<1>2. XmpSize \in Nat /\ IccSize \in Nat
  BY StampAssumption
<1>3. mid \in Nat
  <2> HIDE DEF b
  <2> QED
    BY <1>1, <1>2 DEF TableAt, b
<1>4. long \in Nat \ {0}
  <2> DEFINE N == Cardinality({LastTrailer(f).Size, LastTrailer(f).Size + 1, LastTrailer(f).Root})
  <2>1. N \in Nat
    BY ThreeAreFinite
  <2>2. long = 15 + 20 * N
    BY DEF TableSize
  <2> HIDE DEF N, long
  <2> QED
    BY <2>1, <2>2, SMT
<1>5. /\ IsSequence(g) /\ Len(g) = n + 6
      /\ \A i \in 1 .. n : g[i] = f[i]
      /\ g[n + 1] = Obj(b, Size, X, XmpSize)
      /\ g[n + 2] = Obj(b + XmpSize, Size + 1, I, IccSize)
      /\ g[n + 3] = Obj(b + XmpSize + IccSize, Root, c, size)
      /\ g[n + 4] = [kind |-> "xref", off |-> mid, at |-> at, size |-> long]
      /\ g[n + 5] = Trailer(mid + long, Size + 2, Root, prev)
      /\ g[n + 6] = StartXref(mid + long + 60, mid)
  BY Zenon DEF Grown, TableAt, TableSize
<1>6. DOMAIN at = {Size, Size + 1, Root}
  OBVIOUS
<1> HIDE DEF n, b, Size, Root, mid, long, c, at, prev, X, I
<1>7. /\ \A i \in 1 .. n + 6 : \/ i \in 1 .. n
                               \/ i \in {n + 1, n + 2, n + 3, n + 4, n + 5, n + 6}
      /\ \A i \in (1 .. n) \cup {n + 1, n + 2, n + 3, n + 4, n + 5, n + 6} : i \in 1 .. n + 6
  BY <1>1, SMT
<1>8. /\ g[n + 1].kind = "obj" /\ g[n + 1].off = b /\ g[n + 1].size = XmpSize
      /\ g[n + 1].num = Size /\ g[n + 1].body = X
      /\ g[n + 2].kind = "obj" /\ g[n + 2].off = b + XmpSize /\ g[n + 2].size = IccSize
      /\ g[n + 2].num = Size + 1 /\ g[n + 2].body = I
      /\ g[n + 3].kind = "obj" /\ g[n + 3].off = b + XmpSize + IccSize /\ g[n + 3].size = size
      /\ g[n + 3].num = Root /\ g[n + 3].body = c
  BY <1>5 DEF Obj
<1>9. /\ g[n + 4].kind = "xref" /\ g[n + 4].off = mid /\ g[n + 4].size = long
      /\ g[n + 4].at = at
  BY <1>5
<1>10. /\ g[n + 5].kind = "trailer" /\ g[n + 5].off = mid + long /\ g[n + 5].size = 60
       /\ g[n + 5].Size = Size + 2 /\ g[n + 5].Root = Root /\ g[n + 5].Prev = prev
       /\ g[n + 6].kind = "startxref" /\ g[n + 6].off = mid + long + 60 /\ g[n + 6].size = 25
       /\ g[n + 6].to = mid
  BY <1>5 DEF Trailer, StartXref
<1> QED
  BY <1>1, <1>3, <1>4, <1>5, <1>6, <1>7, <1>8, <1>9, <1>10, Zenon
    DEF n, b, Size, Root, mid, long, c, prev, X, I

\* The update lies after the file.
LEMMA GrownIsLaid ==
  ASSUME NEW f, IsLaid(f), NEW g, NEW size \in Nat \ {0}, Grown(f, g, size)
  PROVE  /\ IsLaid(g) /\ Bytes(g) = TableAt(f, size) + TableSize(f) + 85
         /\ \A kind : /\ Places(g, kind) \cap 1 .. Len(f) = Places(f, kind)
                      /\ Places(g, kind) \subseteq
                           Places(f, kind) \cup (Places(g, kind) \cap
                             {Len(f) + 1, Len(f) + 2, Len(f) + 3, Len(f) + 4, Len(f) + 5, Len(f) + 6})
<1> DEFINE n    == Len(f)
           b    == Bytes(f)
           mid  == TableAt(f, size)
           long == TableSize(f)
           New  == {n + 1, n + 2, n + 3, n + 4, n + 5, n + 6}
<1>1. /\ n \in Nat /\ b \in Nat /\ mid \in Nat /\ long \in Nat \ {0}
      /\ IsSequence(g) /\ Len(g) = n + 6
      /\ \A i \in 1 .. n : g[i] = f[i]
      /\ \A i \in 1 .. Len(g) : i \in 1 .. n \/ i \in New
      /\ \A i \in (1 .. n) \cup New : i \in 1 .. Len(g)
      /\ g[n + 1].off = b /\ g[n + 1].size = XmpSize
      /\ g[n + 2].off = b + XmpSize /\ g[n + 2].size = IccSize
      /\ g[n + 3].off = b + XmpSize + IccSize /\ g[n + 3].size = size
      /\ g[n + 4].off = mid /\ g[n + 4].size = long
      /\ g[n + 5].off = mid + long /\ g[n + 5].size = 60
      /\ g[n + 6].off = mid + long + 60 /\ g[n + 6].size = 25
  BY GrownFields
<1>2. XmpSize \in Nat \ {0} /\ IccSize \in Nat \ {0}
  BY StampAssumption
<1>3. mid = b + XmpSize + IccSize + size
  BY DEF TableAt
<1>4. \A i \in 1 .. n : f[i].off \in Nat \ {0} /\ f[i].size \in Nat \ {0} /\ f[i].off + f[i].size <= b
  BY LaidInOrder DEF IsLaid, End
<1>5. \A i, k \in 1 .. n : i < k => f[i].off + f[i].size <= f[k].off
  BY DEF IsLaid, End
<1>6. b # 0
  <2>1. n \in 1 .. n
    BY LaidInOrder
  <2>2. f[n].off \in Nat \ {0} /\ f[n].size \in Nat \ {0} /\ f[n].off + f[n].size <= b
    BY <1>4, <2>1
  <2> HIDE DEF b, n
  <2> QED
    BY <1>1, <2>2, SMT
<1>7. g # << >>
  <2>1. 1 \in DOMAIN g
    BY <1>1, LenProperties, SMT DEF IsSequence
  <2> QED
    BY <2>1
<1>8. Bytes(g) = mid + long + 85
  <2>1. Bytes(g) = g[n + 6].off + g[n + 6].size
    BY <1>1 DEF Bytes, Last, End
  <2> HIDE DEF n, b, mid, long
  <2> QED
    BY <1>1, <2>1, SMT
<1> HIDE DEF n, b, mid, long
<1>9. ASSUME NEW i \in New
      PROVE  /\ g[i].off \in Nat \ {0} /\ g[i].size \in Nat \ {0} /\ b <= g[i].off
             /\ \A k \in New : i < k => g[i].off + g[i].size <= g[k].off
  <2>1. \A k \in New : g[k].off \in Nat \ {0} /\ g[k].size \in Nat \ {0} /\ b <= g[k].off
    <3>1. /\ g[n + 1].off \in Nat \ {0} /\ g[n + 1].size \in Nat \ {0} /\ b <= g[n + 1].off
          /\ g[n + 2].off \in Nat \ {0} /\ g[n + 2].size \in Nat \ {0} /\ b <= g[n + 2].off
          /\ g[n + 3].off \in Nat \ {0} /\ g[n + 3].size \in Nat \ {0} /\ b <= g[n + 3].off
      BY <1>1, <1>2, <1>6, SMT
    <3>2. /\ g[n + 4].off \in Nat \ {0} /\ g[n + 4].size \in Nat \ {0} /\ b <= g[n + 4].off
          /\ g[n + 5].off \in Nat \ {0} /\ g[n + 5].size \in Nat \ {0} /\ b <= g[n + 5].off
          /\ g[n + 6].off \in Nat \ {0} /\ g[n + 6].size \in Nat \ {0} /\ b <= g[n + 6].off
      BY <1>1, <1>2, <1>3, <1>6, SMT
    <3> QED
      BY <3>1, <3>2
  <2>2. /\ g[n + 1].off + g[n + 1].size = g[n + 2].off
        /\ g[n + 2].off + g[n + 2].size = g[n + 3].off
        /\ g[n + 3].off + g[n + 3].size = g[n + 4].off
        /\ g[n + 4].off + g[n + 4].size = g[n + 5].off
        /\ g[n + 5].off + g[n + 5].size = g[n + 6].off
    BY <1>1, <1>2, <1>3, SMT
  <2>3. ASSUME NEW k \in New, i < k PROVE g[i].off + g[i].size <= g[k].off
    <3>1. /\ g[n + 2].off <= g[n + 3].off /\ g[n + 3].off <= g[n + 4].off
          /\ g[n + 4].off <= g[n + 5].off /\ g[n + 5].off <= g[n + 6].off
      BY <1>1, <1>2, <1>3, SMT
    <3>2. /\ i = n + 1 => k \in {n + 2, n + 3, n + 4, n + 5, n + 6}
          /\ i = n + 2 => k \in {n + 3, n + 4, n + 5, n + 6}
          /\ i = n + 3 => k \in {n + 4, n + 5, n + 6}
          /\ i = n + 4 => k \in {n + 5, n + 6}
          /\ i = n + 5 => k = n + 6
          /\ i # n + 6
      BY <1>1, <2>3, SMT
    <3>3. g[n + 2].off \in Nat /\ g[n + 3].off \in Nat /\ g[n + 4].off \in Nat /\ g[n + 5].off \in Nat /\ g[n + 6].off \in Nat
      BY <2>1
    <3>4. CASE i = n + 1
      BY <2>2, <3>1, <3>2, <3>3, <3>4, SMT
    <3>5. CASE i = n + 2
      BY <2>2, <3>1, <3>2, <3>3, <3>5, SMT
    <3>6. CASE i = n + 3
      BY <2>2, <3>1, <3>2, <3>3, <3>6, SMT
    <3>7. CASE i = n + 4
      BY <2>2, <3>1, <3>2, <3>3, <3>7, SMT
    <3>8. CASE i = n + 5
      BY <2>2, <3>1, <3>2, <3>3, <3>8, SMT
    <3> QED
      BY <3>2, <3>4, <3>5, <3>6, <3>7, <3>8
  <2> QED
    BY <2>1, <2>3
<1>10. ASSUME NEW i \in 1 .. Len(g), NEW k \in 1 .. Len(g), i < k
       PROVE  g[i].off + g[i].size <= g[k].off
  <2>1. CASE i \in 1 .. n /\ k \in 1 .. n
    BY <1>1, <1>5, <1>10, <2>1
  <2>2. CASE i \in 1 .. n /\ k \in New
    <3>1. g[i].off \in Nat /\ g[i].size \in Nat /\ g[i].off + g[i].size <= b
      BY <1>1, <1>4, <2>2
    <3>2. g[k].off \in Nat /\ b <= g[k].off
      BY <1>9, <2>2
    <3> QED
      BY <1>1, <3>1, <3>2, SMT
  <2>3. CASE i \in New /\ k \in New
    BY <1>9, <1>10, <2>3
  <2>4. ~(i \in New /\ k \in 1 .. n)
    BY <1>1, <1>10, SMT
  <2> QED
    BY <1>1, <2>1, <2>2, <2>3, <2>4
<1>11. \A i \in 1 .. Len(g) : g[i].off \in Nat \ {0} /\ g[i].size \in Nat \ {0}
  BY <1>1, <1>4, <1>9
<1>12. IsLaid(g)
  BY <1>1, <1>7, <1>10, <1>11 DEF IsLaid, IsSequence, End
<1>13. \A kind : /\ Places(g, kind) \cap 1 .. n = Places(f, kind)
                 /\ Places(g, kind) \subseteq Places(f, kind) \cup (Places(g, kind) \cap New)
  <2> HIDE DEF New
  <2> QED
    BY <1>1 DEF Places, n
<1> QED
  BY <1>8, <1>12, <1>13 DEF n, mid, long

\* Where the stamped file has its tables, trailers, startxrefs and objects.
LEMMA GrownPlaces ==
  ASSUME NEW f, IsLaid(f), NEW g, NEW size \in Nat \ {0}, Grown(f, g, size)
  PROVE  LET n == Len(f)
         IN  /\ Places(g, "xref") = Places(f, "xref") \cup {n + 4}
             /\ Places(g, "trailer") = Places(f, "trailer") \cup {n + 5}
             /\ Places(g, "startxref") = Places(f, "startxref") \cup {n + 6}
             /\ Places(g, "obj") = Places(f, "obj") \cup {n + 1, n + 2, n + 3}
<1> DEFINE n == Len(f)
<1>1. /\ n \in Nat /\ n + 1 \in 1 .. Len(g) /\ n + 2 \in 1 .. Len(g) /\ n + 3 \in 1 .. Len(g)
      /\ n + 4 \in 1 .. Len(g) /\ n + 5 \in 1 .. Len(g) /\ n + 6 \in 1 .. Len(g)
      /\ g[n + 1].kind = "obj" /\ g[n + 2].kind = "obj" /\ g[n + 3].kind = "obj"
      /\ g[n + 4].kind = "xref" /\ g[n + 5].kind = "trailer" /\ g[n + 6].kind = "startxref"
  BY GrownFields
<1>2. \A kind : /\ Places(g, kind) \cap 1 .. n = Places(f, kind)
                /\ Places(g, kind) \subseteq
                     Places(f, kind) \cup (Places(g, kind) \cap {n + 1, n + 2, n + 3, n + 4, n + 5, n + 6})
  BY GrownIsLaid
<1> HIDE DEF n
<1>3. \A kind : /\ Places(f, kind) \subseteq Places(g, kind)
                /\ \A i : i \in Places(g, kind) => g[i].kind = kind
                /\ \A i \in 1 .. Len(g) : g[i].kind = kind => i \in Places(g, kind)
  BY <1>2 DEF Places
<1>4. Places(g, "xref") = Places(f, "xref") \cup {n + 4}
  BY <1>1, <1>2, <1>3
<1>5. Places(g, "trailer") = Places(f, "trailer") \cup {n + 5}
  BY <1>1, <1>2, <1>3
<1>6. Places(g, "startxref") = Places(f, "startxref") \cup {n + 6}
  BY <1>1, <1>2, <1>3
<1>7. Places(g, "obj") = Places(f, "obj") \cup {n + 1, n + 2, n + 3}
  BY <1>1, <1>2, <1>3
<1> QED
  BY <1>4, <1>5, <1>6, <1>7 DEF n

\* The new table chains to the old one.
LEMMA GrownIsChained ==
  ASSUME NEW f, WellFormed(f), Stampable(f), Plain(f),
         NEW g, NEW size \in Nat \ {0}, Grown(f, g, size)
  PROVE  Chained(g)
<1> DEFINE n == Len(f)
<1>1. IsLaid(f) /\ Chained(f) /\ Startxrefs(f) # {} /\ \A i \in Startxrefs(f) : i = n
  BY DEF WellFormed, Stampable, HasTrailer, Plain
<1>2. n - 2 \in 1 .. n /\ f[n - 2].kind = "xref" /\ Max(Places(f, "xref")) = n - 2
  BY <1>1, FileEnds
<1>3. /\ n \in Nat /\ Len(g) = n + 6 /\ \A i \in 1 .. n : g[i] = f[i]
      /\ g[n + 4].kind = "xref" /\ g[n + 4].off = TableAt(f, size)
      /\ g[n + 5].kind = "trailer" /\ g[n + 5].Prev = f[n - 2].off
      /\ g[n + 6].kind = "startxref" /\ g[n + 6].to = TableAt(f, size)
  BY <1>1, GrownFields
<1>4. /\ Places(g, "xref") = Places(f, "xref") \cup {n + 4}
      /\ Places(g, "trailer") = Places(f, "trailer") \cup {n + 5}
      /\ Places(g, "startxref") = Places(f, "startxref") \cup {n + 6}
  BY <1>1, GrownPlaces
<1>5. \A kind : Places(f, kind) \subseteq 1 .. n
  BY DEF Places
<1>6. /\ n + 4 > 1 /\ (n + 5) - 1 = n + 4 /\ (n + 6) - 2 = n + 4 /\ n + 5 > 1 /\ n + 6 > 2
      /\ (n + 4) + 1 = n + 5 /\ (n + 4) + 2 = n + 6
  BY <1>3, SMT
<1> HIDE DEF n
<1>7. \A i \in Places(g, "trailer") : i > 1 /\ g[i - 1].kind = "xref"
  <2>1. ASSUME NEW i \in Places(f, "trailer") PROVE i > 1 /\ g[i - 1].kind = "xref"
    <3>1. i > 1 /\ f[i - 1].kind = "xref" /\ i \in 1 .. n
      BY <1>1, <1>5 DEF Chained
    <3>2. i - 1 \in 1 .. n
      BY <1>3, <3>1, SMT
    <3> QED
      BY <1>3, <3>1, <3>2
  <2> QED
    BY <1>3, <1>4, <1>6, <2>1
<1>8. \A i \in Places(g, "startxref") : i > 2 /\ g[i - 2].kind = "xref" /\ g[i].to = g[i - 2].off
  <2>1. ASSUME NEW i \in Places(f, "startxref")
        PROVE  i > 2 /\ g[i - 2].kind = "xref" /\ g[i].to = g[i - 2].off
    <3>1. i > 2 /\ f[i - 2].kind = "xref" /\ f[i].to = f[i - 2].off /\ i \in 1 .. n
      BY <1>1, <1>5 DEF Chained
    <3>2. i - 2 \in 1 .. n
      BY <1>3, <3>1, SMT
    <3> QED
      BY <1>3, <3>1, <3>2
  <2> QED
    BY <1>3, <1>4, <1>6, <2>1
<1> DEFINE before(h, i) == {k \in Places(h, "xref") : k < i}
           linked(h, i) == /\ i + 2 <= Len(h) /\ h[i + 1].kind = "trailer" /\ h[i + 2].kind = "startxref"
                           /\ h[i + 1].Prev = IF before(h, i) = {} THEN 0 ELSE h[Max(before(h, i))].off
<1>9. \A i \in Places(f, "xref") : linked(f, i)
  BY <1>1 DEF Chained
<1>10. ASSUME NEW i \in Places(f, "xref") PROVE linked(g, i)
  <2>1. before(g, i) = before(f, i)
    <3>1. i <= n /\ ~(n + 4 < i)
      BY <1>3, <1>5, SMT
    <3> QED
      BY <1>4, <3>1
  <2>2. /\ i + 2 <= n /\ f[i + 1].kind = "trailer" /\ f[i + 2].kind = "startxref"
        /\ f[i + 1].Prev = IF before(f, i) = {} THEN 0 ELSE f[Max(before(f, i))].off
    BY <1>9 DEF n
  <2>3. i \in 1 .. n /\ i + 1 \in 1 .. n /\ i + 2 \in 1 .. n /\ i + 2 <= n + 6
    BY <1>3, <1>5, <2>2, SMT
  <2>4. before(f, i) # {} => g[Max(before(f, i))] = f[Max(before(f, i))]
    <3> DEFINE B == before(f, i)
    <3>1. B \subseteq 1 .. Len(f)
      BY <1>5 DEF n
    <3> HIDE DEF B
    <3>2. B # {} => Max(B) \in B
      BY <1>1, <3>1, PlacesFinite, MaxExists
    <3>3. B # {} => Max(B) \in 1 .. n
      BY <3>1, <3>2 DEF n
    <3> QED
      BY <1>3, <3>3 DEF B
  <2> HIDE DEF before
  <2> QED
    BY <1>3, <2>1, <2>2, <2>3, <2>4
<1>11. linked(g, n + 4)
  <2>1. before(g, n + 4) = Places(f, "xref")
    <3>1. ~(n + 4 < n + 4) /\ \A k \in 1 .. n : k < n + 4
      BY <1>3, SMT
    <3> QED
      BY <1>4, <1>5, <3>1
  <2>2. before(g, n + 4) # {} /\ Max(before(g, n + 4)) = n - 2
    BY <1>2, <2>1 DEF Places, n
  <2>3. g[n - 2] = f[n - 2]
    BY <1>2, <1>3
  <2> HIDE DEF before
  <2>4. (n + 4) + 2 <= Len(g) /\ g[(n + 4) + 1] = g[n + 5] /\ g[(n + 4) + 2] = g[n + 6]
    BY <1>3, <1>6
  <2> QED
    BY <1>3, <2>2, <2>3, <2>4
<1>12. g[Len(g)].kind = "startxref"
  BY <1>3
<1>13. \A i \in Places(g, "xref") : linked(g, i)
  <2> HIDE DEF linked
  <2> QED
    BY <1>4, <1>10, <1>11
<1> QED
  BY <1>7, <1>8, <1>12, <1>13 DEF Chained

\* Only the last startxref is in the tail, and the last trailer is the new one.
LEMMA GrownTail ==
  ASSUME NEW f, IsLaid(f), NEW g, NEW size \in Nat \ {0}, Grown(f, g, size)
  PROVE  /\ Startxrefs(g) = {Len(f) + 6} /\ LastTrailer(g) = g[Len(f) + 5]
         /\ Max(Places(g, "xref")) = Len(f) + 4
<1> DEFINE n    == Len(f)
           b    == Bytes(f)
           mid  == TableAt(f, size)
           long == TableSize(f)
<1>1. /\ n \in Nat /\ b \in Nat /\ mid \in Nat /\ long \in Nat \ {0}
      /\ \A i \in 1 .. n : g[i] = f[i]
      /\ g[n + 6].off = mid + long + 60
  BY GrownFields
<1>2. /\ Places(g, "xref") = Places(f, "xref") \cup {n + 4}
      /\ Places(g, "trailer") = Places(f, "trailer") \cup {n + 5}
      /\ Places(g, "startxref") = Places(f, "startxref") \cup {n + 6}
  BY GrownPlaces
<1>3. \A kind : Places(f, kind) \subseteq 1 .. n
  BY DEF Places
<1>4. mid = b + XmpSize + IccSize + size /\ Bytes(g) = mid + long + 85
  BY GrownIsLaid DEF TableAt
<1>5. XmpSize \in Nat /\ IccSize \in Nat /\ TailSize \in Nat /\ 25 <= TailSize /\ TailSize <= XmpSize + IccSize
  BY StampAssumption
<1>6. \A i \in 1 .. n : f[i].off \in Nat /\ f[i].off < b
  BY LaidInOrder DEF IsLaid
<1> HIDE DEF n, b, mid, long
<1>7. n + 6 \in Startxrefs(g)
  <2>1. g[n + 6].off >= Bytes(g) - TailSize
    BY <1>1, <1>4, <1>5, SMT
  <2> QED
    BY <1>2, <2>1 DEF Startxrefs
<1>8. ASSUME NEW i \in Startxrefs(g) PROVE i = n + 6
  <2> SUFFICES ASSUME i \in Places(f, "startxref") PROVE FALSE
    BY <1>2 DEF Startxrefs
  <2>1. i \in 1 .. n /\ g[i] = f[i] /\ g[i].off >= Bytes(g) - TailSize
    BY <1>1, <1>3 DEF Startxrefs
  <2>2. f[i].off \in Nat /\ f[i].off < b /\ f[i].off >= Bytes(g) - TailSize
    BY <1>6, <2>1
  <2> QED
    BY <1>1, <1>4, <1>5, <2>2, SMT
<1>9. Max(Places(g, "trailer")) = n + 5
  <2>1. Places(g, "trailer") \subseteq Int /\ \A i \in Places(g, "trailer") : i <= n + 5
    BY <1>1, <1>2, <1>3, SMT
  <2> QED
    BY <1>2, <2>1, MaxIs
<1>10. Max(Places(g, "xref")) = n + 4
  <2>1. Places(g, "xref") \subseteq Int /\ \A i \in Places(g, "xref") : i <= n + 4
    BY <1>1, <1>2, <1>3, SMT
  <2> QED
    BY <1>2, <2>1, MaxIs
<1>11. Startxrefs(g) = {n + 6}
  BY <1>7, <1>8
<1> QED
  BY <1>9, <1>10, <1>11 DEF LastTrailer, n

\* The new table has the new objects.
LEMMA GrownTable ==
  ASSUME NEW f, NEW g, NEW size \in Nat \ {0}, Grown(f, g, size),
         LastTrailer(f).Size \in Nat, LastTrailer(f).Root \in Nat,
         LastTrailer(f).Root < LastTrailer(f).Size
  PROVE  LET b    == Bytes(f)
             at   == g[Len(f) + 4].at
             Size == LastTrailer(f).Size
             Root == LastTrailer(f).Root
         IN  /\ DOMAIN at = {Size, Size + 1, Root} /\ at[Size] = b
             /\ at[Size + 1] = b + XmpSize /\ at[Root] = b + XmpSize + IccSize
             /\ Root # Size /\ Root # Size + 1 /\ Size # Size + 1
<1> DEFINE b    == Bytes(f)
           Size == LastTrailer(f).Size
           Root == LastTrailer(f).Root
           at   == [m \in {Size, Size + 1, Root} |->
                      IF m = Root THEN b + XmpSize + IccSize
                      ELSE IF m = Size THEN b ELSE b + XmpSize]
           mid  == b + XmpSize + IccSize + size
           long == 15 + 20 * Cardinality({Size, Size + 1, Root})
<1>1. g[Len(f) + 4] = [kind |-> "xref", off |-> mid, at |-> at, size |-> long]
  BY Zenon DEF Grown
<1>2. Root # Size /\ Root # Size + 1 /\ Size # Size + 1
  <2>1. Size \in Nat /\ Root \in Nat /\ Root < Size
    OBVIOUS
  <2> HIDE DEF Size, Root
  <2> QED
    BY <2>1, SMT
<1> HIDE DEF b, Size, Root, mid, long
<1>3. /\ DOMAIN at = {Size, Size + 1, Root} /\ at[Size] = b
      /\ at[Size + 1] = b + XmpSize /\ at[Root] = b + XmpSize + IccSize
  BY <1>2
<1> HIDE DEF at
<1>4. g[Len(f) + 4].at = at
  BY <1>1
<1> QED
  BY <1>2, <1>3, <1>4 DEF b, Size, Root

\* A number is looked up in the last table that has it.
LEMMA LastHas ==
  ASSUME NEW h, NEW k \in Places(h, "xref"), NEW num, num \in DOMAIN h[k].at,
         \A i \in Places(h, "xref") : i <= k
  PROVE  Offset(h, num) = h[k].at[num]
<1> DEFINE S == {i \in Places(h, "xref") : num \in DOMAIN h[i].at}
<1>1. k \in S /\ \A i \in S : i <= k
  OBVIOUS
<1>2. S \subseteq Int
  BY DEF Places
<1>3. Max(S) = k
  BY <1>1, <1>2, MaxIs
<1> QED
  BY <1>3 DEF Offset

\* What the file had stays but for the catalog, and the update adds its objects.
LEMMA GrownObjects ==
  ASSUME NEW f, WellFormed(f), NEW g, NEW size \in Nat \ {0}, Grown(f, g, size)
  PROVE  LET n    == Len(f)
             Size == LastTrailer(f).Size
             Root == LastTrailer(f).Root
         IN  /\ Numbers(g) = Numbers(f) \cup {Size, Size + 1, Root}
             /\ \A num \in Numbers(f) \ {Root} :
                  Objects(g, num) # {} /\ Body(g, num) = Body(f, num)
             /\ n + 1 \in Objects(g, Size) /\ Body(g, Size) = Stream("xmp")
             /\ n + 2 \in Objects(g, Size + 1) /\ Body(g, Size + 1) = Stream("icc")
             /\ n + 3 \in Objects(g, Root)
             /\ Body(g, Root) = patchCatalog(Body(f, Root), Size, Size + 1)
<1> DEFINE n    == Len(f)
           b    == Bytes(f)
           Size == LastTrailer(f).Size
           Root == LastTrailer(f).Root
           at   == g[n + 4].at
           c    == patchCatalog(Body(f, Root), Size, Size + 1)
           X    == Stream("xmp")
           I    == Stream("icc")
<1>1. IsLaid(f) /\ Size \in Nat /\ Root \in Numbers(f) /\ Numbers(f) \subseteq Nat
      /\ \A num \in Numbers(f) : num < Size /\ Objects(f, num) # {}
  BY DEF WellFormed
<1>2. /\ n \in Nat /\ \A i \in 1 .. n : g[i] = f[i]
      /\ g[n + 1].off = b /\ g[n + 1].num = Size /\ g[n + 1].body = X
      /\ g[n + 2].off = b + XmpSize /\ g[n + 2].num = Size + 1 /\ g[n + 2].body = I
      /\ g[n + 3].off = b + XmpSize + IccSize /\ g[n + 3].num = Root /\ g[n + 3].body = c
  BY <1>1, GrownFields
<1>3. /\ DOMAIN at = {Size, Size + 1, Root} /\ at[Size] = b
      /\ at[Size + 1] = b + XmpSize /\ at[Root] = b + XmpSize + IccSize
      /\ Root # Size /\ Root # Size + 1 /\ Size # Size + 1
  <2>1. Root \in Nat /\ Root < Size
    BY <1>1
  <2> QED
    BY <1>1, <2>1, GrownTable
<1>4. /\ Places(g, "xref") = Places(f, "xref") \cup {n + 4}
      /\ Places(g, "obj") = Places(f, "obj") \cup {n + 1, n + 2, n + 3}
  BY <1>1, GrownPlaces
<1>5. \A kind : Places(f, kind) \subseteq 1 .. n
  BY DEF Places
<1>6. IsLaid(g) /\ \A i \in Places(g, "xref") : i <= n + 4
  <2>1. \A i \in Places(f, "xref") : i <= n + 4
    <3> HIDE DEF n
    <3> QED
      BY <1>2, <1>5, SMT
  <2>2. n + 4 <= n + 4
    BY <1>2
  <2> QED
    BY <1>1, <1>4, <2>1, <2>2, GrownIsLaid
<1> HIDE DEF n, b, Size, Root, at, c, X, I
<1>7. \A i \in Places(f, "xref") : g[i] = f[i]
  BY <1>2, <1>5
<1>8. Numbers(g) = Numbers(f) \cup {Size, Size + 1, Root}
  BY <1>3, <1>4, <1>7 DEF Numbers, at
<1>9. \A num \in {Size, Size + 1, Root} : Offset(g, num) = at[num]
  BY <1>3, <1>4, <1>6, LastHas DEF at
<1>10. ASSUME NEW num, NEW j \in {n + 1, n + 2, n + 3}, num \in {Size, Size + 1, Root},
              g[j].num = num, g[j].off = at[num]
       PROVE  j \in Objects(g, num) /\ Body(g, num) = g[j].body
  <2>1. j \in Objects(g, num)
    BY <1>4, <1>9, <1>10 DEF Objects, At
  <2>2. PICK k \in 1 .. Len(g) : Objects(g, num) = {k} /\ Body(g, num) = g[k].body
    BY <1>6, <2>1, FirstAt
  <2>3. k = j
    BY <2>1, <2>2
  <2> QED
    BY <2>1, <2>2, <2>3
<1>11. /\ n + 1 \in Objects(g, Size) /\ Body(g, Size) = X
       /\ n + 2 \in Objects(g, Size + 1) /\ Body(g, Size + 1) = I
       /\ n + 3 \in Objects(g, Root) /\ Body(g, Root) = c
  BY <1>2, <1>3, <1>10
<1>12. ASSUME NEW num \in Numbers(f) \ {Root}
       PROVE  Objects(g, num) # {} /\ Body(g, num) = Body(f, num)
  <2>1. num \notin {Size, Size + 1, Root}
    <3>1. num \in Nat /\ num < Size
      BY <1>1
    <3> QED
      BY <1>1, <3>1, SMT
  <2>2. Offset(g, num) = Offset(f, num)
    <3> DEFINE S == {i \in Places(f, "xref") : num \in DOMAIN f[i].at}
    <3>1. {i \in Places(g, "xref") : num \in DOMAIN g[i].at} = S
      BY <1>3, <1>4, <1>7, <2>1 DEF at
    <3>2. S # {} /\ S \subseteq 1 .. Len(f)
      BY DEF Numbers, Places
    <3> HIDE DEF S
    <3>3. Max(S) \in S
      BY <1>1, <3>2, PlacesFinite, MaxExists
    <3>4. g[Max(S)] = f[Max(S)]
      BY <1>2, <3>2, <3>3 DEF n
    <3> QED
      BY <3>1, <3>4 DEF Offset, S
  <2>3. Objects(g, num) = Objects(f, num)
    <3>1. \A i \in Places(f, "obj") : g[i] = f[i]
      BY <1>2, <1>5
    <3> QED
      BY <1>2, <1>4, <2>1, <2>2, <3>1 DEF Objects, At
  <2>4. PICK k \in 1 .. Len(f) : Objects(f, num) = {k} /\ Body(f, num) = f[k].body
    BY <1>1, FirstAt
  <2>5. PICK m \in 1 .. Len(g) : Objects(g, num) = {m} /\ Body(g, num) = g[m].body
    BY <1>6, <2>3, <2>4, FirstAt
  <2>6. m = k
    BY <2>3, <2>4, <2>5
  <2> QED
    BY <1>2, <2>3, <2>4, <2>5, <2>6 DEF n
<1> QED
  BY <1>8, <1>11, <1>12 DEF n, Size, Root, c, X, I

\* A stamped file is well formed, reads as it should, and can be stamped again: for
\* every file that Stamp takes and readers take, whatever its objects, its tables,
\* its earlier updates and its catalog.
THEOREM StampedReads ==
  ASSUME NEW f, WellFormed(f), Stampable(f), Plain(f)
  PROVE  LET g == Stamp(f)
         IN  /\ g # Refused /\ WellFormed(g) /\ Stampable(g) /\ Plain(g)
             /\ Reads(g, f)
<1> DEFINE n    == Len(f)
           Size == LastTrailer(f).Size
           Root == LastTrailer(f).Root
           D    == Body(f, Root)
           c    == patchCatalog(D, Size, Size + 1)
           size == 40 * Cardinality(DOMAIN c)
           g    == Stamp(f)
           last == Place(D)
<1>1. /\ IsLaid(f) /\ Size \in Nat /\ Root \in Numbers(f) /\ Numbers(f) \subseteq Nat
      /\ \A num \in Numbers(f) : num < Size
      /\ IsText(D) /\ IsDict(D) /\ Replaceable(D)
  BY DEF WellFormed, Plain
<1>2. /\ IsText(c) /\ IsDict(c) /\ Replaceable(c) /\ Kept(c) = Kept(D)
      /\ Own(c, {"Metadata"}) = {last + 1} /\ c[last + 1].ref = Size
      /\ Own(c, {"OutputIntents"}) = {last + 2} /\ c[last + 2].ref = Size + 1
  <2>1. Size + 1 \in Nat
    BY <1>1
  <2> HIDE DEF Size, D
  <2> QED
    BY <1>1, <2>1, CatalogIsStamped
<1>3. size \in Nat \ {0}
  <2>1. IsFiniteSet(DOMAIN c) /\ DOMAIN c # {}
    BY <1>2 DEF IsText, IsDict
  <2>2. Cardinality(DOMAIN c) \in Nat /\ Cardinality(DOMAIN c) # 0
    BY <2>1, FS_CardinalityType, FS_EmptySet
  <2> HIDE DEF c
  <2> QED
    BY <2>2, SMT
<1>4. Grown(f, g, size)
  <2> HIDE DEF g
  <2>1. size \in Nat
    BY <1>3
  <2> QED
    BY <2>1, StampIs DEF g
<1> HIDE DEF n, Size, Root, D, c, size, g, last
<1>5. IsLaid(g) /\ Chained(g) /\ Startxrefs(g) = {n + 6} /\ LastTrailer(g) = g[n + 5]
  BY <1>1, <1>3, <1>4, GrownIsLaid, GrownIsChained, GrownTail DEF n
<1>6. /\ n \in Nat /\ Len(g) = n + 6 /\ g[n + 5].Size = Size + 2 /\ g[n + 5].Root = Root
      /\ g[n + 4].off = TableAt(f, size) /\ g[n + 6].to = TableAt(f, size)
      /\ DOMAIN g[n + 4].at = {Size, Size + 1, Root}
  BY <1>1, <1>3, <1>4, GrownFields DEF n, Size, Root
<1>7. /\ Numbers(g) = Numbers(f) \cup {Size, Size + 1, Root}
      /\ \A num \in Numbers(f) \ {Root} : Objects(g, num) # {} /\ Body(g, num) = Body(f, num)
      /\ Objects(g, Size) # {} /\ Body(g, Size) = Stream("xmp")
      /\ Objects(g, Size + 1) # {} /\ Body(g, Size + 1) = Stream("icc")
      /\ Objects(g, Root) # {} /\ Body(g, Root) = c
  <2>1. LET k == Len(f)
            S == LastTrailer(f).Size
            R == LastTrailer(f).Root
        IN  /\ Numbers(g) = Numbers(f) \cup {S, S + 1, R}
            /\ \A num \in Numbers(f) \ {R} : Objects(g, num) # {} /\ Body(g, num) = Body(f, num)
            /\ k + 1 \in Objects(g, S) /\ Body(g, S) = Stream("xmp")
            /\ k + 2 \in Objects(g, S + 1) /\ Body(g, S + 1) = Stream("icc")
            /\ k + 3 \in Objects(g, R)
            /\ Body(g, R) = patchCatalog(Body(f, R), S, S + 1)
    BY <1>3, <1>4, GrownObjects
  <2> QED
    BY <2>1 DEF Size, Root, c, D
<1>8. WellFormed(g)
  <2>1. Size + 2 \in Nat /\ Size + 1 \in Nat
    BY <1>1
  <2>2. \A num \in Numbers(g) : num \in Nat /\ num < Size + 2
    <3>1. \A num \in Numbers(f) : num \in Nat /\ num < Size
      BY <1>1
    <3>2. \A num \in Numbers(f) : num \in Nat /\ num < Size + 2
      BY <1>1, <3>1, SMT
    <3>3. Size < Size + 2 /\ Size + 1 < Size + 2
      BY <1>1, SMT
    <3> QED
      BY <1>1, <1>7, <2>1, <3>2, <3>3
  <2>3. \A num \in Numbers(g) : Objects(g, num) # {}
    BY <1>7
  <2>4. LastTrailer(g).Size = Size + 2 /\ LastTrailer(g).Root = Root
    BY <1>5, <1>6
  <2> QED
    BY <1>2, <1>5, <1>7, <2>1, <2>2, <2>3, <2>4 DEF WellFormed
<1>9. Plain(g)
  <2>1. LastTrailer(g).Root = Root
    BY <1>5, <1>6
  <2> QED
    BY <1>2, <1>5, <1>6, <1>7, <2>1 DEF Plain
<1>10. Stampable(g)
  <2> DEFINE t == findTrailer(g)
  <2>1. (n + 6) - 1 = n + 5 /\ (n + 6) - 2 = n + 4
    BY <1>6, SMT
  <2>2. /\ HasTrailer(g) /\ HasTable(g, g[n + 4].off)
        /\ t = [dict |-> g[n + 5], xrefStart |-> g[n + 4].off]
        /\ parseXref(g, g[n + 4].off) = g[n + 4].at
    <3>1. Startxrefs(g) # {} /\ \A i \in Startxrefs(g) : i = Len(g)
      BY <1>5, <1>6
    <3>2. /\ HasTrailer(g) /\ HasTable(g, g[Len(g) - 2].off)
          /\ t = [dict |-> g[Len(g) - 1], xrefStart |-> g[Len(g) - 2].off]
          /\ parseXref(g, g[Len(g) - 2].off) = g[Len(g) - 2].at
      BY <1>8, <3>1, FileEnds
    <3> QED
      BY <1>6, <2>1, <3>2
  <2>3. t.dict = g[n + 5] /\ t.xrefStart = g[n + 4].off
    BY <2>2
  <2>4. Root \in DOMAIN g[n + 4].at
    BY <1>6
  <2>5. Offset(g, Root) = g[n + 4].at[Root]
    <3>1. n + 4 \in Places(g, "xref") /\ Max(Places(g, "xref")) = n + 4
      BY <1>1, <1>3, <1>4, GrownPlaces, GrownTail DEF n
    <3>2. IsFiniteSet(Places(g, "xref")) /\ Places(g, "xref") \subseteq Int
      BY <1>5, PlacesFinite DEF Places
    <3>3. \A i \in Places(g, "xref") : i <= n + 4
      BY <3>1, <3>2, MaxExists
    <3> QED
      BY <2>4, <3>1, <3>3, LastHas
  <2>6. Marked(g, Offset(g, Root), Root) # {}
    BY <1>5, <1>7, FirstAt
  <2> HIDE DEF t
  <2> QED
    BY <1>6, <2>2, <2>3, <2>4, <2>5, <2>6 DEF Stampable, t
<1>11. Reads(g, f)
  <2>1. LastTrailer(g).Root = Root /\ LastTrailer(f).Root = Root /\ Body(g, Root) = c
    BY <1>5, <1>6, <1>7 DEF Root
  <2>2. RefersTo(g, c, "Metadata", Stream("xmp"))
    <3>1. Cardinality(Own(c, {"Metadata"})) = 1
      BY <1>2, FS_Singleton
    <3>2. \A p \in Own(c, {"Metadata"}) : c[p].ref = Size
      BY <1>2
    <3> QED
      BY <1>7, <3>1, <3>2 DEF RefersTo
  <2>3. RefersTo(g, c, "OutputIntents", Stream("icc"))
    <3>1. Cardinality(Own(c, {"OutputIntents"})) = 1
      BY <1>2, FS_Singleton
    <3>2. \A p \in Own(c, {"OutputIntents"}) : c[p].ref = Size + 1
      BY <1>2
    <3> QED
      BY <1>7, <3>1, <3>2 DEF RefersTo
  <2>4. Numbers(f) \subseteq Numbers(g)
    BY <1>7
  <2>5. \A num \in Numbers(f) \ {Root} : Body(g, num) = Body(f, num)
    BY <1>7
  <2>6. Kept(c) = Kept(Body(f, Root))
    BY <1>2 DEF D
  <2> QED
    BY <1>8, <2>1, <2>2, <2>3, <2>4, <2>5, <2>6, Zenon DEF Reads
<1>12. g # Refused
  <2>1. Len(g) \in Nat \ {0}
    BY <1>5, LaidInOrder
  <2> QED
    BY <2>1 DEF Refused
<1> QED
  BY <1>8, <1>9, <1>10, <1>11, <1>12 DEF g
=============================================================================
