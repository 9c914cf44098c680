--------------------------- MODULE Lexicographic ----------------------------
(***************************************************************************)
(* Lexicographic orders of natural numbers, for proofs that something does *)
(* not go on for ever: a distance that every step makes less.  Distances   *)
(* of more than two numbers are nested pairs.                              *)
(***************************************************************************)
EXTENDS Naturals, WellFoundedInduction, TLAPS

Less == OpToRel(<, Nat)
Less2 == LexPairOrdering(Less, Less, Nat, Nat)
Less3 == LexPairOrdering(Less, Less2, Nat, Nat \X Nat)
Less4 == LexPairOrdering(Less, Less3, Nat, Nat \X (Nat \X Nat))

\* Less is the order of the numbers.
LEMMA LessIs == \A m, n \in Nat : m < n <=> <<m, n>> \in Less
  BY DEF Less, OpToRel

\* What is less in an order of pairs: the first number, or the rest after it.
LEMMA LessPair ==
  ASSUME NEW R1, NEW R2, NEW S1, NEW S2,
         NEW a \in S1, NEW b \in S2, NEW x \in S1, NEW y \in S2,
         <<a, x>> \in R1 \/ (a = x /\ <<b, y>> \in R2)
  PROVE  <<<<a, b>>, <<x, y>>>> \in LexPairOrdering(R1, R2, S1, S2)
  BY DEF LexPairOrdering

\* Three numbers, from the first one in which they differ.
LEMMA Less3Is ==
  ASSUME NEW b \in Nat, NEW c \in Nat, NEW d \in Nat,
         NEW y \in Nat, NEW z \in Nat, NEW w \in Nat,
         \/ b < y
         \/ b = y /\ c < z
         \/ b = y /\ c = z /\ d < w
  PROVE  <<<<b, <<c, d>>>>, <<y, <<z, w>>>>>> \in Less3
<1>1. (c < z \/ (c = z /\ d < w)) => <<<<c, d>>, <<z, w>>>> \in Less2
  BY LessIs, LessPair DEF Less2
<1>2. <<b, y>> \in Less \/ (b = y /\ <<<<c, d>>, <<z, w>>>> \in Less2)
  BY <1>1, LessIs
<1> QED BY <1>2, LessPair DEF Less3

\* Four numbers.
LEMMA Less4Is ==
  ASSUME NEW a \in Nat, NEW b \in Nat, NEW c \in Nat, NEW d \in Nat,
         NEW x \in Nat, NEW y \in Nat, NEW z \in Nat, NEW w \in Nat,
         \/ a < x
         \/ a = x /\ <<<<b, <<c, d>>>>, <<y, <<z, w>>>>>> \in Less3
  PROVE  <<<<a, <<b, <<c, d>>>>>>, <<x, <<y, <<z, w>>>>>>>> \in Less4
<1>1. <<a, x>> \in Less \/ (a = x /\ <<<<b, <<c, d>>>>, <<y, <<z, w>>>>>> \in Less3)
  BY LessIs
<1> QED BY <1>1, LessPair DEF Less4

\* None of them goes down for ever.
LEMMA LessWellFounded ==
  /\ IsWellFoundedOn(Less, Nat)
  /\ IsWellFoundedOn(Less2, Nat \X Nat)
  /\ IsWellFoundedOn(Less3, Nat \X (Nat \X Nat))
  /\ IsWellFoundedOn(Less4, Nat \X (Nat \X (Nat \X Nat)))
<1>1. IsWellFoundedOn(Less, Nat)
  BY NatLessThanWellFounded DEF Less
<1>2. IsWellFoundedOn(Less2, Nat \X Nat)
  BY <1>1, WFLexPairOrdering DEF Less2
<1>3. IsWellFoundedOn(Less3, Nat \X (Nat \X Nat))
  BY <1>1, <1>2, WFLexPairOrdering DEF Less3
<1>4. IsWellFoundedOn(Less4, Nat \X (Nat \X (Nat \X Nat)))
  BY <1>1, <1>3, WFLexPairOrdering DEF Less4
<1> QED BY <1>1, <1>2, <1>3, <1>4

\* One of any number of things comes first, if each has a rank.
LEMMA FirstOf ==
  ASSUME NEW S, NEW f \in [S -> Nat], NEW T \in SUBSET S, T # {}
  PROVE  \E d \in T : \A e \in T : f[d] <= f[e]
<1> DEFINE Ranks == {f[d] : d \in T}
<1>1. Ranks \subseteq Nat /\ Ranks # {}
  OBVIOUS
<1>2. PICK n \in Ranks : \A m \in Ranks : ~(<<m, n>> \in Less)
  <2> HIDE DEF Ranks
  <2> QED BY <1>1, WFMin, LessWellFounded
<1>3. \A m \in Ranks : n <= m
  <2> SUFFICES ASSUME NEW m \in Ranks PROVE n <= m
    OBVIOUS
  <2> HIDE DEF Ranks
  <2>1. m \in Nat /\ n \in Nat
    BY <1>1
  <2>2. ~(m < n)
    BY <2>1, <1>2, LessIs, Zenon
  <2> QED BY <2>1, <2>2
<1>4. PICK d \in T : n = f[d]
  BY <1>2
<1>5. \A e \in T : f[e] \in Ranks
  OBVIOUS
<1> QED BY <1>3, <1>4, <1>5
=============================================================================
