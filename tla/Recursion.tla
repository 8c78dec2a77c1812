----------------------------- MODULE Recursion ------------------------------
(***************************************************************************)
(* A function that is defined by recursion satisfies its equation.         *)
(*                                                                         *)
(* f[v \in D] == Body(f, v) stands for CHOOSE f : f = [v \in D |-> ...].   *)
(* If Body looks at f only where the rank is smaller, then there is such   *)
(* an f.  The library's theorem on this, and its induction rules, take an  *)
(* operator as a parameter; here the body and the rank are constants, to   *)
(* be instantiated, and induction is about a set.                          *)
(***************************************************************************)
EXTENDS Integers, WellFoundedInduction, TLAPS

CONSTANTS
    D,          \* the domain
    Rank(_),    \* what becomes smaller in each call
    Body(_, _)  \* Body(f, v): what f is at v

\* The order of the natural numbers.
Less == {p \in Nat \X Nat : p[1] < p[2]}

\* It is well-founded.
LEMMA LessWellFounded == IsWellFoundedOn(Less, Nat)
  BY NatLessThanWellFounded DEF OpToRel, Less

\* A set of natural numbers has a least element.
LEMMA Least ==
    ASSUME NEW S \in SUBSET Nat, S # {}
    PROVE  \E x \in S : \A y \in S : x <= y
<1> DEFINE T == S
<1>0. T \subseteq Nat /\ T # {}
  OBVIOUS
<1> HIDE DEF T
<1>1. PICK x \in T : \A y \in T : ~(<<y, x>> \in Less)
  BY <1>0, LessWellFounded, WFMin
<1>2. ASSUME NEW y \in T PROVE x <= y
  <2>1. x \in Nat /\ y \in Nat
    BY <1>0
  <2>2. y < x => <<y, x>> \in Less
    BY <2>1 DEF Less
  <2>3. ~(y < x)
    BY <1>1, <2>2
  <2> QED BY <2>1, <2>3
<1>3. \E z \in T : \A y \in T : z <= y
  BY <1>2
<1> QED BY <1>3 DEF T

\* Induction: a set with 0 and every successor of its elements holds all natural numbers.
LEMMA SetInduction ==
    ASSUME NEW S, 0 \in S, \A n \in Nat : n \in S => n + 1 \in S
    PROVE  Nat \subseteq S
<1> DEFINE T == Nat \ S
<1> SUFFICES ASSUME T # {} PROVE FALSE
  OBVIOUS
<1>1. PICK x \in T : \A y \in T : ~(<<y, x>> \in Less)
  <2>1. T \subseteq Nat
     OBVIOUS
  <2> HIDE DEF T
  <2> QED BY LessWellFounded, WFMin, <2>1
<1>2. x # 0 /\ x \in Nat
  OBVIOUS
<1>3. x - 1 \in Nat
  BY <1>2
<1>4. x - 1 \in T
  BY <1>3, <1>2
<1>5. <<x-1, x>> \in Less
  BY <1>2, <1>3 DEF Less
<1> QED BY <1>1, <1>4, <1>5

-----------------------------------------------------------------------------
\* The values of a rank below n.
Below(n) == {v \in D : Rank(v) < n}

\* Ranks are natural numbers.
Ranked == \A v \in D : Rank(v) \in Nat

\* Body looks at f only where the rank is smaller.
Descends ==
  \A v \in D : \A g, h : (\A w \in D : Rank(w) < Rank(v) => g[w] = h[w]) => Body(g, v) = Body(h, v)

\* g satisfies the equation on the values of a rank below n.
Approx(g, n) == g = [v \in Below(n) |-> Body(g, v)]

\* Two such functions agree where both are defined.
LEMMA Unique ==
  ASSUME Ranked, Descends, NEW n \in Nat, NEW m \in Nat, NEW g, NEW h, Approx(g, n), Approx(h, m),
         NEW v \in D, Rank(v) < n, Rank(v) < m
  PROVE g[v] = h[v]
<1> DEFINE S == {k \in Nat : \A w \in D : Rank(w) < k /\ Rank(w) < n /\ Rank(w) < m => g[w] = h[w]}
<1>1. 0 \in S
  BY DEF Ranked
<1>2. ASSUME NEW k \in Nat, k \in S PROVE k + 1 \in S
  <2> SUFFICES ASSUME NEW w \in D, Rank(w) < k + 1, Rank(w) < n, Rank(w) < m PROVE g[w] = h[w]
    OBVIOUS
  <2>0. Rank(w) \in Nat
    BY DEF Ranked
  <2>1. \A u \in D : Rank(u) < Rank(w) => g[u] = h[u]
    BY <1>2, <2>0 DEF Ranked
  <2>2. Body(g, w) = Body(h, w)
    BY <2>1 DEF Descends
  <2>3. w \in Below(n) /\ w \in Below(m)
    BY DEF Below
  <2> QED BY <2>2, <2>3 DEF Approx
<1> HIDE DEF S
<1>3. Nat \subseteq S
  BY <1>1, <1>2, SetInduction
<1> QED BY <1>3 DEF S, Ranked

\* There is one for every n.
LEMMA Approximated ==
  ASSUME Ranked, Descends, NEW n \in Nat PROVE \E g : Approx(g, n)
<1> DEFINE S == {k \in Nat : \E g : Approx(g, k)}
<1>1. 0 \in S
  <2>1. Below(0) = {}
    BY DEF Below, Ranked
  <2>2. [v \in Below(0) |-> Body(<<>>, v)] = [v \in Below(0) |-> Body([w \in Below(0) |-> Body(<<>>, w)], v)]
    BY <2>1
  <2> QED BY <2>2 DEF Approx
<1>2. ASSUME NEW k \in Nat, k \in S PROVE k + 1 \in S
  <2>1. PICK g : Approx(g, k)
    BY <1>2
  <2> DEFINE h == [v \in Below(k + 1) |-> Body(g, v)]
  <2>2. \A w \in D : Rank(w) < k => w \in Below(k) /\ w \in Below(k + 1)
    BY DEF Below, Ranked
  <2>3. \A w \in D : Rank(w) < k => g[w] = h[w]
    BY <2>1, <2>2 DEF Approx
  <2>4. ASSUME NEW v \in Below(k + 1) PROVE Body(g, v) = Body(h, v)
    <3>1. v \in D /\ \A w \in D : Rank(w) < Rank(v) => Rank(w) < k
      BY DEF Below, Ranked
    <3> HIDE DEF h
    <3> QED BY <2>3, <3>1 DEF Descends
  <2>5. h = [v \in Below(k + 1) |-> Body(h, v)]
    BY <2>4
  <2> HIDE DEF h
  <2> QED BY <2>5 DEF Approx
<1> HIDE DEF S
<1>3. Nat \subseteq S
  BY <1>1, <1>2, SetInduction
<1> QED BY <1>3 DEF S

\* The function that the recursive definition chooses satisfies its equation: it takes each
\* value from one of these functions.
THEOREM Recursion ==
  ASSUME Ranked, Descends
  PROVE LET f == CHOOSE f : f = [v \in D |-> Body(f, v)]
        IN  f = [v \in D |-> Body(f, v)]
<1> DEFINE G(v) == CHOOSE g : Approx(g, Rank(v) + 1)
           f == [v \in D |-> G(v)[v]]
<1>1. ASSUME NEW v \in D PROVE Approx(G(v), Rank(v) + 1)
  BY Approximated DEF Ranked
<1>2. ASSUME NEW v \in D PROVE f[v] = Body(f, v)
  <2>1. Rank(v) \in Nat /\ v \in Below(Rank(v) + 1)
    BY DEF Ranked, Below
  <2>2. f[v] = Body(G(v), v)
    BY <1>1, <2>1 DEF Approx
  <2>3. ASSUME NEW w \in D, Rank(w) < Rank(v) PROVE f[w] = G(v)[w]
    <3>1. Rank(w) \in Nat /\ Rank(w) < Rank(w) + 1 /\ Rank(w) < Rank(v) + 1 /\ Rank(w) + 1 \in Nat /\ Rank(v) + 1 \in Nat
      BY <2>1, <2>3 DEF Ranked
    <3>2. Approx(G(v), Rank(v) + 1) /\ Approx(G(w), Rank(w) + 1)
      BY <1>1
    <3> HIDE DEF G
    <3>3. G(w)[w] = G(v)[w]
      BY <3>1, <3>2, Unique
    <3> QED BY <3>3
  <2> HIDE DEF f, G
  <2>4. Body(f, v) = Body(G(v), v)
    BY <2>3 DEF Descends
  <2> QED BY <2>2, <2>4
<1>3. f = [v \in D |-> Body(f, v)]
  BY <1>2
<1> HIDE DEF f
<1> QED BY <1>3
=============================================================================
