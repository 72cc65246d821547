----------------------------- MODULE FoldFacts -----------------------------
(***************************************************************************)
(* What FoldLeft computes.  The facts of the libraries about induction and *)
(* folds take operators as parameters; here the operator that is folded is *)
(* a constant of the module, so a proof about the loops of a component     *)
(* instantiates the module with the step of each of them.                  *)
(*                                                                         *)
(* A loop's body is Step(p, x, e): from x and the element e, where p is    *)
(* whatever else it looks at.                                              *)
(***************************************************************************)
EXTENDS Integers, SequencesExt, FiniteSetTheorems, WellFoundedInduction, TLAPS

CONSTANT Step(_, _, _)

Run(p, b, s) == FoldLeft(LAMBDA x, e : Step(p, x, e), b, s)

-----------------------------------------------------------------------------
(* Induction over the natural numbers.                                      *)

(* A set of natural numbers has a least one.                                *)
LEMMA LeastNumber ==
  ASSUME NEW S \in SUBSET Nat, S # {}
  PROVE  \E m \in S : \A k \in S : m <= k
<1> DEFINE R == OpToRel(<, Nat)
<1>1. \A a, b \in Nat : << a, b >> \in R <=> a < b
  BY Zenon DEF OpToRel
<1>2. IsWellFoundedOn(R, Nat)
  BY NatLessThanWellFounded
<1> HIDE DEF R
<1>3. PICK m \in S : \A k \in S : ~ (<< k, m >> \in R)
  BY <1>2, WFMin
<1>4. \A k \in S : ~ (k < m)
  BY <1>1, <1>3, Zenon
<1> QED
  BY <1>4

(* A set that has 0, and with a number the next one, has them all.          *)
LEMMA NumbersReached ==
  ASSUME NEW T, 0 \in T, \A n \in Nat : n \in T => n + 1 \in T
  PROVE  Nat \subseteq T
<1> SUFFICES ASSUME Nat \ T # {} PROVE FALSE
  OBVIOUS
<1>1. PICK x \in Nat \ T : \A y \in Nat \ T : x <= y
  BY LeastNumber
<1>2. x # 0 /\ x - 1 \in Nat
  BY <1>1
<1>3. x - 1 \in T
  BY <1>1, <1>2
<1>4. (x - 1) + 1 = x
  BY <1>1
<1> QED
  BY <1>1, <1>2, <1>3, <1>4

(* Max() of a set with a greatest element is that element.                  *)
LEMMA GreatestIs ==
  ASSUME NEW s \in SUBSET Int, NEW x \in s, \A y \in s : y <= x
  PROVE  Max(s) = x
<1>1. \A z \in s : (\A y \in s : z >= y) => z = x
  OBVIOUS
<1>2. \E z \in s : \A y \in s : z >= y
  OBVIOUS
<1> QED
  BY <1>1, <1>2 DEF Max

-----------------------------------------------------------------------------
(* The function FoldLeft is defined by: for a set of positions, what the loop  *)
(* has computed after it went through these, the greatest last.                *)

Computes(h, p, b, s, m) ==
  \A t \in SUBSET (1 .. m) :
    h[t] = IF t = {} THEN b ELSE Step(p, h[t \ {Max(t)}], s[Max(t)])

Solves(h, p, b, s, D) ==
  h = [t \in SUBSET D |-> IF t = {} THEN b ELSE Step(p, h[t \ {Max(t)}], s[Max(t)])]

(* There is such a function, so the one that is chosen is one.              *)
LEMMA Computed ==
  ASSUME NEW p, NEW b, NEW s, NEW n \in Nat
  PROVE  \E h : Solves(h, p, b, s, 1 .. n)
<1> DEFINE Fun(h, m) == h = [t \in SUBSET (1 .. m) |-> h[t]]
           T == { m \in Nat : \E h : Fun(h, m) /\ Computes(h, p, b, s, m) }
<1>1. 0 \in T
  <2> DEFINE h == [t \in SUBSET (1 .. 0) |-> b]
  <2>1. Fun(h, 0) /\ \A t \in SUBSET (1 .. 0) : t = {}
    OBVIOUS
  <2>2. Computes(h, p, b, s, 0)
    BY <2>1 DEF Computes
  <2> QED
    BY <2>1, <2>2
<1>2. ASSUME NEW m \in Nat, NEW g, Fun(g, m), Computes(g, p, b, s, m)
      PROVE  \E h : Fun(h, m + 1) /\ Computes(h, p, b, s, m + 1)
  <2> DEFINE h == [t \in SUBSET (1 .. m + 1) |->
                     IF m + 1 \in t THEN Step(p, g[t \ {m + 1}], s[m + 1]) ELSE g[t]]
  <2>1. \A t \in SUBSET (1 .. m + 1) : m + 1 \notin t => t \in SUBSET (1 .. m)
    OBVIOUS
  <2>2. ASSUME NEW t \in SUBSET (1 .. m + 1)
        PROVE  h[t] = IF t = {} THEN b ELSE Step(p, h[t \ {Max(t)}], s[Max(t)])
    <3>1. CASE m + 1 \in t
      <4>1. Max(t) = m + 1
        BY <3>1, GreatestIs
      <4>2. t \ {m + 1} \in SUBSET (1 .. m + 1) /\ m + 1 \notin t \ {m + 1}
        OBVIOUS
      <4>3. h[t \ {m + 1}] = g[t \ {m + 1}]
        BY <4>2
      <4>4. h[t] = Step(p, g[t \ {m + 1}], s[m + 1])
        BY <3>1
      <4> QED
        BY <3>1, <4>1, <4>3, <4>4
    <3>2. CASE m + 1 \notin t
      <4>1. t \in SUBSET (1 .. m)
        BY <3>2, <2>1
      <4>2. h[t] = g[t]
        BY <3>2
      <4>3. g[t] = IF t = {} THEN b ELSE Step(p, g[t \ {Max(t)}], s[Max(t)])
        BY <1>2, <4>1 DEF Computes
      <4>4. \A x : t \ {x} \in SUBSET (1 .. m + 1) /\ m + 1 \notin t \ {x}
        BY <3>2
      <4>5. \A x : h[t \ {x}] = g[t \ {x}]
        BY <4>4
      <4> QED
        BY <4>2, <4>3, <4>5
    <3> QED
      BY <3>1, <3>2
  <2>3. Fun(h, m + 1)
    OBVIOUS
  <2>4. Computes(h, p, b, s, m + 1)
    BY <2>2 DEF Computes
  <2> HIDE DEF h, Fun
  <2> QED
    BY <2>3, <2>4
<1>3. \A m \in Nat : m \in T => m + 1 \in T
  <2>1. \A m \in Nat : m + 1 \in Nat
    OBVIOUS
  <2> HIDE DEF Fun
  <2> QED
    BY <1>2, <2>1, Zenon
<1> HIDE DEF T
<1>4. n \in T
  BY <1>1, <1>3, NumbersReached
<1>5. PICK h : Fun(h, n) /\ Computes(h, p, b, s, n)
  BY <1>4, Zenon DEF T
<1> QED
  BY <1>5 DEF Computes, Solves

(* y is what remains after the n elements of s, one after the other.        *)
Stepwise(p, b, s, n, y) ==
  \E after : /\ after[0] = b
             /\ \A i \in 1 .. n : after[i] = Step(p, after[i - 1], s[i])
             /\ after[n] = y

(* A fold goes through the elements from the first to the last.             *)
THEOREM RunIsStepwise ==
  ASSUME NEW p, NEW b, NEW n \in Nat, NEW s, DOMAIN s = 1 .. n
  PROVE  Stepwise(p, b, s, n, Run(p, b, s))
<1> DEFINE g == CHOOSE h : Solves(h, p, b, s, DOMAIN s)
<1>1. Solves(g, p, b, s, DOMAIN s)
  <2>1. \E h : Solves(h, p, b, s, 1 .. n)
    BY Computed, Zenon
  <2> QED
    BY <2>1, Zenon
<1>2. Run(p, b, s) = g[DOMAIN s]
  BY Zenon DEF Run, Solves, FoldLeft, MapThenFoldSet
<1> HIDE DEF g
<1> DEFINE after == [i \in 0 .. n |-> g[1 .. i]]
<1>3. g[{}] = b
  BY <1>1 DEF Solves
<1>4. ASSUME NEW i \in 1 .. n
      PROVE  g[1 .. i] = Step(p, g[1 .. i - 1], s[i])
  <2>1. 1 .. i \in SUBSET (1 .. n) /\ 1 .. i # {}
    OBVIOUS
  <2>4. (1 .. i) \ {i} = 1 .. i - 1
    OBVIOUS
  <2>2. Max(1 .. i) = i
    <3>1. 1 .. i \in SUBSET Int /\ i \in 1 .. i /\ \A y \in 1 .. i : y <= i
      OBVIOUS
    <3> QED
      BY <3>1, GreatestIs, Zenon
  <2>3. \A t \in SUBSET (1 .. n) :
          g[t] = IF t = {} THEN b ELSE Step(p, g[t \ {Max(t)}], s[Max(t)])
    BY <1>1 DEF Solves
  <2> QED
    BY <2>1, <2>2, <2>3, <2>4
<1>5. after[0] = b
  <2>1. 1 .. 0 = {} /\ 0 \in 0 .. n
    OBVIOUS
  <2> QED
    BY <1>3, <2>1
<1>6. \A i \in 1 .. n : after[i] = Step(p, after[i - 1], s[i])
  BY <1>4
<1>7. after[n] = Run(p, b, s)
  BY <1>2
<1> HIDE DEF after
<1> QED
  BY <1>5, <1>6, <1>7 DEF Stepwise

(* What holds at first, and with every element goes on to hold, holds at the    *)
(* end; I pairs what may have been computed with how many elements it took.     *)
LEMMA RunKeeps ==
  ASSUME NEW p, NEW b, NEW n \in Nat, NEW s, DOMAIN s = 1 .. n,
         NEW I, << 0, b >> \in I,
         \A i \in 1 .. n : \A x : << i - 1, x >> \in I => << i, Step(p, x, s[i]) >> \in I
  PROVE  << n, Run(p, b, s) >> \in I
<1>1. PICK after : /\ after[0] = b
                   /\ \A i \in 1 .. n : after[i] = Step(p, after[i - 1], s[i])
                   /\ after[n] = Run(p, b, s)
  BY RunIsStepwise DEF Stepwise
<1> DEFINE T == { i \in Nat : i <= n => << i, after[i] >> \in I }
<1>2. 0 \in T
  BY <1>1
<1>3. \A i \in Nat : i \in T => i + 1 \in T
  <2> SUFFICES ASSUME NEW i \in Nat, i + 1 <= n, << i, after[i] >> \in I
               PROVE  << i + 1, after[i + 1] >> \in I
    <3>1. \A m \in Nat : m + 1 \in Nat /\ (m + 1 <= n => m <= n)
      OBVIOUS
    <3> QED
      BY <3>1, Zenon
  <2>1. i + 1 \in 1 .. n /\ (i + 1) - 1 = i
    OBVIOUS
  <2> QED
    BY <1>1, <2>1
<1> HIDE DEF T
<1>4. n \in T
  BY <1>2, <1>3, NumbersReached
<1>5. << n, after[n] >> \in I
  <2>1. n <= n
    OBVIOUS
  <2> QED
    BY <1>4, <2>1, Zenon DEF T
<1> QED
  BY <1>1, <1>5

=============================================================================
