--------------------------- MODULE NaturalLemmas ---------------------------
(***************************************************************************)
(* Facts about natural numbers that the proofs keep needing: the least     *)
(* element of a set, and so the largest of a set of versions (Max of       *)
(* FiniteSetsExt is a CHOOSE), and a sum over a single element.            *)
(***************************************************************************)
EXTENDS Integers, FiniteSetsExt, WellFoundedInduction, TLAPS

(* A nonempty set of natural numbers has a least element.                  *)
LEMMA LeastNat ==
    ASSUME NEW T \in SUBSET Nat, T # {}
    PROVE  \E m \in T : \A y \in T : m <= y
<1> DEFINE R == {ss \in Nat \X Nat : ss[1] < ss[2]}
<1>1. IsWellFoundedOn(R, Nat)
  BY NatLessThanWellFounded DEF OpToRel
<1>2. PICK x \in T : \A y \in T : ~ (<<y, x>> \in R)
  BY <1>1, WFMin, Zenon
<1>3. ASSUME NEW y \in T PROVE x <= y
  <2>1. <<y, x>> \in Nat \X Nat
    OBVIOUS
  <2>2. ~(y < x)
    BY <1>2, <2>1
  <2> QED BY <2>1, <2>2
<1> QED BY <1>3

(* Max of a nonempty set of versions is a member and a bound of it.        *)
LEMMA MaxOfVersions ==
    ASSUME NEW n \in Nat, NEW S \in SUBSET (1 .. n), S # {}
    PROVE  Max(S) \in S /\ \A y \in S : y <= Max(S)
<1> DEFINE T == {n - s : s \in S}
<1>1. \A s \in S : s \in Int /\ n - s \in Nat
  OBVIOUS
<1>2. PICK m \in T : \A y \in T : m <= y
  <2>1. T \in SUBSET Nat /\ T # {}
    BY <1>1
  <2> HIDE DEF T
  <2> QED BY <2>1, LeastNat
<1>3. PICK a \in S : m = n - a
  BY <1>2
<1>4. ASSUME NEW y \in S PROVE a >= y
  <2>1. m <= n - y
    BY <1>2
  <2> QED BY <2>1, <1>1, <1>3
<1> DEFINE IsMax(x) == x \in S /\ \A y \in S : x >= y
<1>5. IsMax(a)
  BY <1>4
<1>6. IsMax(CHOOSE x : IsMax(x))
  BY <1>5, Zenon
<1>7. Max(S) = CHOOSE x : IsMax(x)
  BY Zenon DEF Max
<1>8. IsMax(Max(S))
  BY <1>6, <1>7
<1> QED BY <1>8, <1>1

(* The sum over one element is its value (MapThenSumSet folds over a       *)
(* function that FiniteSetsExt only says to be a fixpoint).                *)
LEMMA SumOfOne ==
    ASSUME NEW chain, NEW a, chain[a] \in Nat, NEW S, S = {a}
    PROVE  MapThenSumSet(LAMBDA t : chain[t], S) = chain[a]
<1> DEFINE F(i) == [s \in SUBSET S |->
                      IF s = {} THEN 0
                      ELSE chain[CHOOSE x \in s : TRUE] + i[s \ {CHOOSE x \in s : TRUE}]]
           g == [s \in SUBSET S |-> IF s = {} THEN 0 ELSE chain[a]]
           iter == CHOOSE i : i = F(i)
<1>1. MapThenSumSet(LAMBDA t : chain[t], S) = iter[S]
  BY DEF MapThenSumSet, MapThenFoldSet
<1>2. g = F(g)
  <2>1. ASSUME NEW s \in SUBSET S, s # {}
        PROVE  chain[CHOOSE x \in s : TRUE] + g[s \ {CHOOSE x \in s : TRUE}] = chain[a]
    <3>1. s = {a} /\ (CHOOSE x \in s : TRUE) = a /\ s \ {a} = {}
      BY <2>1
    <3>2. g[{}] = 0
      OBVIOUS
    <3> QED BY <3>1, <3>2
  <2> QED BY <2>1
<1>3. iter = F(iter)
  <2> HIDE DEF F, g
  <2> QED BY <1>2, Zenon
<1>4. iter[S] = chain[a]
  <2>1. iter[{}] = 0
    BY <1>3
  <2>2. iter[S] = chain[CHOOSE x \in S : TRUE] + iter[S \ {CHOOSE x \in S : TRUE}]
    <3> HIDE DEF iter
    <3> QED BY <1>3
  <2>3. (CHOOSE x \in S : TRUE) = a /\ S \ {a} = {}
    OBVIOUS
  <2> HIDE DEF iter
  <2> QED BY <2>1, <2>2, <2>3
<1> QED BY <1>1, <1>4
=============================================================================
