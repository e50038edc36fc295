------------------------------ MODULE SumProofs ------------------------------
(***************************************************************************)
(* What the sums of the models (SumFunction of the community modules) are, *)
(* and what may be done with them: take a summand out, compare and add     *)
(* them term by term, cut off the last one, shift them by a place.         *)
(*                                                                         *)
(* A sum is defined by recursion over sets.  Induction is by the least     *)
(* number, or the smallest set, of which a statement is false.             *)
(***************************************************************************)
EXTENDS Integers, FiniteSets, Functions, FiniteSetTheorems,
        WellFoundedInduction, TLAPS

-----------------------------------------------------------------------------
(* Induction *)

Smaller == {p \in Nat \X Nat : p[1] < p[2]}

LEMMA LeastOf ==
    ASSUME NEW S \in SUBSET Nat, S # {}
    PROVE  \E n \in S : \A m \in S : n <= m
<1>1. IsWellFoundedOn(Smaller, Nat)
  BY NatLessThanWellFounded DEF Smaller, OpToRel
<1>2. PICK n \in S : \A m \in S : ~ (<<m, n>> \in Smaller)
  BY <1>1, WFMin, Zenon
<1>3. \A m \in S : ~ (m < n)
  BY <1>2 DEF Smaller
<1> QED BY <1>1, <1>3

(* What holds of 0, and of a number if of the one before, holds of all.    *)
LEMMA NatSteps ==
    ASSUME NEW Good \in SUBSET Nat, 0 \in Good,
           \A n \in Nat : n \in Good => n + 1 \in Good
    PROVE  Good = Nat
<1> SUFFICES ASSUME Nat \ Good # {} PROVE FALSE
  OBVIOUS
<1>1. PICK n \in Nat \ Good : \A m \in Nat \ Good : n <= m
  BY LeastOf
<1>2. n - 1 \in Good
  BY <1>1
<1> QED BY <1>1, <1>2

(* Of some finite sets one is so small that it is not among them any more  *)
(* once it loses an element.                                               *)
LEMMA SmallestOf ==
    ASSUME NEW S, IsFiniteSet(S), NEW Bad \in SUBSET (SUBSET S), Bad # {}
    PROVE  \E T \in Bad : IsFiniteSet(T) /\ \A x \in T : T \ {x} \notin Bad
<1>1. \A T \in Bad : IsFiniteSet(T) /\ Cardinality(T) \in Nat
  BY FS_Subset, FS_CardinalityType
<1> DEFINE Sizes == {Cardinality(T) : T \in Bad}
<1>2. PICK n \in Sizes : \A m \in Sizes : n <= m
  <2>1. Sizes \in SUBSET Nat
    BY <1>1
  <2>2. Sizes # {}
    OBVIOUS
  <2> HIDE DEF Sizes
  <2> QED BY <2>1, <2>2, LeastOf
<1>3. PICK T \in Bad : Cardinality(T) = n
  BY <1>2
<1>4. ASSUME NEW x \in T, T \ {x} \in Bad PROVE FALSE
  <2>1. Cardinality(T \ {x}) = Cardinality(T) - 1
    BY <1>1, <1>3, FS_RemoveElement
  <2> QED BY <1>1, <1>2, <1>3, <1>4, <2>1
<1> QED BY <1>1, <1>4

-----------------------------------------------------------------------------
(* Products and quotients *)

LEMMA Monotone ==
    ASSUME NEW a \in Nat, NEW b \in Nat, NEW c \in Nat, b <= c
    PROVE  a * b <= a * c
<1>1. PICK d \in Nat : c = b + d
  <2> WITNESS c - b \in Nat
  <2> QED OBVIOUS
<1>2. a * c = a * b + a * d /\ a * d \in Nat /\ a * b \in Nat
  BY <1>1
<1> QED
  BY <1>2

LEMMA Quotient ==
    ASSUME NEW n \in Nat, NEW w \in Nat \ {0}, NEW c \in Nat, n * w <= c
    PROVE  c \div w \in Nat /\ n <= c \div w
<1> DEFINE q == c \div w
<1>1. q \in Nat /\ c < (q + 1) * w
  OBVIOUS
<1> HIDE DEF q
<1>2. CASE q + 1 <= n
  <2>1. w * (q + 1) <= w * n
    BY <1>1, <1>2, Monotone
  <2> QED
    BY <1>1, <2>1
<1> QED
  BY <1>1, <1>2 DEF q

-----------------------------------------------------------------------------
(* The recursion by which a sum is defined *)

Pick(S) == CHOOSE x \in S : TRUE

SumStep(f, s, g) == IF s = {} THEN 0 ELSE f[Pick(s)] + g[s \ {Pick(s)}]

SumEquation(f, D, g) == g = [s \in D |-> SumStep(f, s, g)]

LEMMA SumUnfolds ==
    ASSUME NEW f, NEW S
    PROVE  SumFunctionOnSet(f, S) = (CHOOSE g : SumEquation(f, SUBSET S, g))[S]
BY DEF SumFunctionOnSet, FoldFunctionOnSet, MapThenFoldSet, SumEquation, SumStep,
       Pick

LEMMA PickInside ==
    ASSUME NEW S, S # {}
    PROVE  Pick(S) \in S
BY DEF Pick

(* Sets up to a size: the recursion goes from one size to the one below.   *)
UpTo(S, n) == {s \in SUBSET S : Cardinality(s) <= n}

LEMMA SumExists ==
    ASSUME NEW f, NEW S, IsFiniteSet(S)
    PROVE  \E g : SumEquation(f, SUBSET S, g)
<1> DEFINE Good == {n \in Nat : \E g : SumEquation(f, UpTo(S, n), g)}
<1>1. \A s \in SUBSET S : IsFiniteSet(s) /\ Cardinality(s) \in Nat
  BY FS_Subset, FS_CardinalityType
<1>2. 0 \in Good
  <2>1. \A s \in UpTo(S, 0) : s = {}
    BY <1>1, FS_EmptySet DEF UpTo
  <2>2. SumEquation(f, UpTo(S, 0), [s \in UpTo(S, 0) |-> 0])
    BY <2>1 DEF SumEquation, SumStep
  <2> QED BY <2>2
<1>3. ASSUME NEW n \in Nat, n \in Good PROVE n + 1 \in Good
  <2>1. PICK g : SumEquation(f, UpTo(S, n), g)
    BY <1>3
  <2> DEFINE h == [s \in UpTo(S, n + 1) |-> SumStep(f, s, g)]
  <2>2. ASSUME NEW s \in UpTo(S, n + 1), s # {}
        PROVE  /\ s \ {Pick(s)} \in UpTo(S, n)
               /\ s \ {Pick(s)} \in UpTo(S, n + 1)
    <3>1. Cardinality(s \ {Pick(s)}) = Cardinality(s) - 1
      BY <1>1, <2>2, PickInside, FS_RemoveElement DEF UpTo
    <3> QED BY <1>1, <3>1 DEF UpTo
  <2>3. \A t \in UpTo(S, n) : t \in UpTo(S, n + 1) /\ h[t] = g[t]
    BY <1>1, <2>1 DEF SumEquation, UpTo
  <2>4. \A s \in UpTo(S, n + 1) : SumStep(f, s, g) = SumStep(f, s, h)
    BY <2>2, <2>3 DEF SumStep
  <2>5. SumEquation(f, UpTo(S, n + 1), h)
    BY <2>4 DEF SumEquation
  <2> QED BY <2>5
<1> HIDE DEF Good
<1>4. Good = Nat
  <2>1. Good \in SUBSET Nat
    BY DEF Good
  <2> QED BY <1>2, <1>3, <2>1, NatSteps
<1>5. UpTo(S, Cardinality(S)) = SUBSET S /\ Cardinality(S) \in Nat
  BY <1>1, FS_Subset, FS_CardinalityType DEF UpTo
<1>6. Cardinality(S) \in Good
  BY <1>4, <1>5
<1>7. \E g : SumEquation(f, UpTo(S, Cardinality(S)), g)
  BY <1>6 DEF Good
<1> QED BY <1>5, <1>7

LEMMA SumSatisfies ==
    ASSUME NEW f, NEW S, IsFiniteSet(S)
    PROVE  \E g : /\ SumEquation(f, SUBSET S, g)
                  /\ SumFunctionOnSet(f, S) = g[S]
BY SumUnfolds, SumExists

(* Two solutions agree where both are defined.                             *)
LEMMA SumsAgree ==
    ASSUME NEW f, NEW S, NEW T \in SUBSET S, IsFiniteSet(S), NEW g, NEW h,
           SumEquation(f, SUBSET S, g), SumEquation(f, SUBSET T, h)
    PROVE  g[T] = h[T]
<1> DEFINE Bad == {s \in SUBSET T : g[s] # h[s]}
<1> SUFFICES ASSUME Bad # {} PROVE FALSE
  OBVIOUS
<1>1. PICK s \in Bad : \A x \in s : s \ {x} \notin Bad
  <2>1. IsFiniteSet(T)
    BY FS_Subset
  <2> QED BY <2>1, SmallestOf
<1>2. g[s] = SumStep(f, s, g) /\ h[s] = SumStep(f, s, h)
  BY DEF SumEquation
<1>3. CASE s = {}
  BY <1>1, <1>2, <1>3 DEF SumStep
<1>4. CASE s # {}
  <2>1. g[s \ {Pick(s)}] = h[s \ {Pick(s)}]
    BY <1>1, <1>4, PickInside
  <2> QED BY <1>1, <1>2, <2>1 DEF SumStep
<1> QED BY <1>3, <1>4

LEMMA SumOfNone ==
    ASSUME NEW f
    PROVE  SumFunctionOnSet(f, {}) = 0
<1>1. PICK g : /\ SumEquation(f, SUBSET {}, g)
               /\ SumFunctionOnSet(f, {}) = g[{}]
  BY SumSatisfies, FS_EmptySet
<1> QED BY <1>1 DEF SumEquation, SumStep

LEMMA SumOfSome ==
    ASSUME NEW f, NEW S, IsFiniteSet(S), S # {}
    PROVE  SumFunctionOnSet(f, S) =
             f[Pick(S)] + SumFunctionOnSet(f, S \ {Pick(S)})
<1> DEFINE T == S \ {Pick(S)}
<1>0. T \in SUBSET S /\ IsFiniteSet(T)
  BY FS_Subset
<1>1. PICK g : /\ SumEquation(f, SUBSET S, g)
               /\ SumFunctionOnSet(f, S) = g[S]
  BY SumSatisfies
<1>2. PICK h : /\ SumEquation(f, SUBSET T, h)
               /\ SumFunctionOnSet(f, T) = h[T]
  BY <1>0, SumSatisfies
<1>3. g[T] = h[T]
  <2> HIDE DEF T
  <2> QED BY <1>0, <1>1, <1>2, SumsAgree
<1>4. g[S] = f[Pick(S)] + g[T]
  BY <1>1 DEF SumEquation, SumStep
<1> QED BY <1>1, <1>2, <1>3, <1>4

-----------------------------------------------------------------------------
(* What may be done with a sum *)

LEMMA SumIsInt ==
    ASSUME NEW f, NEW S, IsFiniteSet(S), \A x \in S : f[x] \in Int
    PROVE  SumFunctionOnSet(f, S) \in Int
<1> DEFINE Bad == {T \in SUBSET S : SumFunctionOnSet(f, T) \notin Int}
<1> SUFFICES ASSUME Bad # {} PROVE FALSE
  OBVIOUS
<1>1. PICK T \in Bad : IsFiniteSet(T) /\ \A x \in T : T \ {x} \notin Bad
  BY SmallestOf
<1>2. CASE T = {}
  BY <1>1, <1>2, SumOfNone
<1>3. CASE T # {}
  <2>1. Pick(T) \in T
    BY <1>3, PickInside
  <2>2. SumFunctionOnSet(f, T \ {Pick(T)}) \in Int
    BY <1>1, <2>1
  <2> QED BY <1>1, <1>3, <2>1, <2>2, SumOfSome
<1> QED BY <1>2, <1>3

(* Any summand may be taken out.                                           *)
LEMMA SumWithout ==
    ASSUME NEW f, NEW S, IsFiniteSet(S), \A x \in S : f[x] \in Int,
           NEW y \in S
    PROVE  SumFunctionOnSet(f, S) = f[y] + SumFunctionOnSet(f, S \ {y})
<1> DEFINE Bad == {T \in SUBSET S : \E x \in T :
                     SumFunctionOnSet(f, T) # f[x] + SumFunctionOnSet(f, T \ {x})}
<1> SUFFICES ASSUME Bad # {} PROVE FALSE
  OBVIOUS
<1>1. PICK T \in Bad : IsFiniteSet(T) /\ \A x \in T : T \ {x} \notin Bad
  BY SmallestOf
<1>2. PICK x \in T : SumFunctionOnSet(f, T) # f[x] + SumFunctionOnSet(f, T \ {x})
  BY <1>1
<1> DEFINE p == Pick(T)
<1>3. p \in T
  BY <1>2, PickInside
<1> HIDE DEF p
<1>4. SumFunctionOnSet(f, T) = f[p] + SumFunctionOnSet(f, T \ {p})
  BY <1>1, <1>2, SumOfSome DEF p
<1>5. x # p
  BY <1>2, <1>4
<1>6. SumFunctionOnSet(f, T \ {p}) =
        f[x] + SumFunctionOnSet(f, (T \ {p}) \ {x})
  BY <1>1, <1>2, <1>3, <1>5
<1>7. SumFunctionOnSet(f, T \ {x}) =
        f[p] + SumFunctionOnSet(f, (T \ {x}) \ {p})
  BY <1>1, <1>2, <1>3, <1>5
<1>8. (T \ {p}) \ {x} = (T \ {x}) \ {p}
  OBVIOUS
<1>9. /\ f[x] \in Int /\ f[p] \in Int
      /\ SumFunctionOnSet(f, (T \ {x}) \ {p}) \in Int
  <2>1. (T \ {x}) \ {p} \in SUBSET S /\ IsFiniteSet((T \ {x}) \ {p})
    BY FS_Subset
  <2> QED BY <1>2, <1>3, <2>1, SumIsInt
<1> DEFINE rest == SumFunctionOnSet(f, (T \ {x}) \ {p})
<1>10. SumFunctionOnSet(f, T) = f[p] + (f[x] + rest)
  BY <1>4, <1>6, <1>8
<1>11. SumFunctionOnSet(f, T \ {x}) = f[p] + rest /\ rest \in Int
  BY <1>7, <1>9
<1> HIDE DEF rest
<1>12. SumFunctionOnSet(f, T) = f[x] + SumFunctionOnSet(f, T \ {x})
  BY <1>9, <1>10, <1>11
<1> QED BY <1>2, <1>12

LEMMA SumWith ==
    ASSUME NEW f, NEW S, IsFiniteSet(S), \A x \in S : f[x] \in Int,
           NEW y, y \notin S, f[y] \in Int
    PROVE  SumFunctionOnSet(f, S \cup {y}) = SumFunctionOnSet(f, S) + f[y]
<1>1. IsFiniteSet(S \cup {y}) /\ (S \cup {y}) \ {y} = S
  BY FS_AddElement
<1>2. SumFunctionOnSet(f, S \cup {y}) = f[y] + SumFunctionOnSet(f, S)
  BY <1>1, SumWithout
<1> QED BY <1>2, SumIsInt

(* Sums of the same are the same.                                          *)
LEMMA SumSame ==
    ASSUME NEW f, NEW g, NEW S, IsFiniteSet(S),
           \A x \in S : f[x] \in Int /\ g[x] = f[x]
    PROVE  SumFunctionOnSet(g, S) = SumFunctionOnSet(f, S)
<1> DEFINE Bad == {T \in SUBSET S :
                     SumFunctionOnSet(g, T) # SumFunctionOnSet(f, T)}
<1> SUFFICES ASSUME Bad # {} PROVE FALSE
  OBVIOUS
<1>1. PICK T \in Bad : IsFiniteSet(T) /\ \A x \in T : T \ {x} \notin Bad
  BY SmallestOf
<1>2. CASE T = {}
  BY <1>1, <1>2, SumOfNone
<1>3. CASE T # {}
  <2>1. Pick(T) \in T
    BY <1>3, PickInside
  <2>2. SumFunctionOnSet(g, T \ {Pick(T)}) = SumFunctionOnSet(f, T \ {Pick(T)})
    BY <1>1, <2>1
  <2> QED BY <1>1, <1>3, <2>1, <2>2, SumOfSome
<1> QED BY <1>2, <1>3

(* One summand more of one.                                                *)
LEMMA SumBumped ==
    ASSUME NEW f, NEW S, IsFiniteSet(S), \A x \in S : f[x] \in Int,
           NEW y \in S, NEW g, g[y] = f[y] + 1,
           \A x \in S \ {y} : g[x] = f[x]
    PROVE  SumFunctionOnSet(g, S) = SumFunctionOnSet(f, S) + 1
<1>1. IsFiniteSet(S \ {y})
  BY FS_Subset
<1>2. SumFunctionOnSet(g, S \ {y}) = SumFunctionOnSet(f, S \ {y})
  BY <1>1, SumSame
<1>3. SumFunctionOnSet(f, S) = f[y] + SumFunctionOnSet(f, S \ {y})
  BY SumWithout
<1>4. SumFunctionOnSet(g, S) = g[y] + SumFunctionOnSet(g, S \ {y})
  BY SumWithout
<1>5. SumFunctionOnSet(f, S \ {y}) \in Int
  BY <1>1, SumIsInt
<1> QED BY <1>2, <1>3, <1>4, <1>5

(* Sums compare as their summands do.                                      *)
LEMMA SumMonotone ==
    ASSUME NEW f, NEW g, NEW S, IsFiniteSet(S),
           \A x \in S : f[x] \in Int /\ g[x] \in Int /\ f[x] <= g[x]
    PROVE  SumFunctionOnSet(f, S) <= SumFunctionOnSet(g, S)
<1> DEFINE Bad == {T \in SUBSET S :
                     ~ (SumFunctionOnSet(f, T) <= SumFunctionOnSet(g, T))}
<1> SUFFICES ASSUME Bad # {} PROVE FALSE
  OBVIOUS
<1>1. PICK T \in Bad : IsFiniteSet(T) /\ \A x \in T : T \ {x} \notin Bad
  BY SmallestOf
<1>2. CASE T = {}
  BY <1>1, <1>2, SumOfNone
<1>3. CASE T # {}
  <2> DEFINE p == Pick(T)
  <2>1. p \in T
    BY <1>3, PickInside
  <2>2. /\ SumFunctionOnSet(f, T) = f[p] + SumFunctionOnSet(f, T \ {p})
        /\ SumFunctionOnSet(g, T) = g[p] + SumFunctionOnSet(g, T \ {p})
    BY <1>1, <1>3, SumOfSome
  <2> HIDE DEF p
  <2>3. SumFunctionOnSet(f, T \ {p}) <= SumFunctionOnSet(g, T \ {p})
    BY <1>1, <2>1
  <2>4. IsFiniteSet(T \ {p})
    BY <1>1, FS_Subset
  <2>5. /\ SumFunctionOnSet(f, T \ {p}) \in Int
        /\ SumFunctionOnSet(g, T \ {p}) \in Int
    BY <2>4, SumIsInt
  <2>6. f[p] \in Int /\ g[p] \in Int /\ f[p] <= g[p]
    BY <2>1
  <2>7. SumFunctionOnSet(f, T) <= SumFunctionOnSet(g, T)
    BY <2>2, <2>3, <2>5, <2>6
  <2> QED BY <1>1, <2>7
<1> QED BY <1>2, <1>3

(* A sum that is nowhere negative.                                         *)
LEMMA SumIsNat ==
    ASSUME NEW f, NEW S, IsFiniteSet(S), \A x \in S : f[x] \in Nat
    PROVE  SumFunctionOnSet(f, S) \in Nat
<1> DEFINE Bad == {T \in SUBSET S : SumFunctionOnSet(f, T) \notin Nat}
<1> SUFFICES ASSUME Bad # {} PROVE FALSE
  OBVIOUS
<1>1. PICK T \in Bad : IsFiniteSet(T) /\ \A x \in T : T \ {x} \notin Bad
  BY SmallestOf
<1>2. CASE T = {}
  BY <1>1, <1>2, SumOfNone
<1>3. CASE T # {}
  <2>1. Pick(T) \in T
    BY <1>3, PickInside
  <2>2. SumFunctionOnSet(f, T \ {Pick(T)}) \in Nat
    BY <1>1, <2>1
  <2> QED BY <1>1, <1>3, <2>1, <2>2, SumOfSome
<1> QED BY <1>2, <1>3

LEMMA SumOfZeros ==
    ASSUME NEW f, NEW S, IsFiniteSet(S), \A x \in S : f[x] = 0
    PROVE  SumFunctionOnSet(f, S) = 0
<1> DEFINE Bad == {T \in SUBSET S : SumFunctionOnSet(f, T) # 0}
<1> SUFFICES ASSUME Bad # {} PROVE FALSE
  OBVIOUS
<1>1. PICK T \in Bad : IsFiniteSet(T) /\ \A x \in T : T \ {x} \notin Bad
  BY SmallestOf
<1>2. CASE T = {}
  BY <1>1, <1>2, SumOfNone
<1>3. CASE T # {}
  <2>1. Pick(T) \in T
    BY <1>3, PickInside
  <2>2. SumFunctionOnSet(f, T \ {Pick(T)}) = 0
    BY <1>1, <2>1
  <2> QED BY <1>1, <1>3, <2>1, <2>2, SumOfSome
<1> QED BY <1>2, <1>3

(* The sum of sums.                                                        *)
LEMMA SumPlus ==
    ASSUME NEW f, NEW g, NEW h, NEW S, IsFiniteSet(S),
           \A x \in S : f[x] \in Int /\ g[x] \in Int /\ h[x] = f[x] + g[x]
    PROVE  SumFunctionOnSet(h, S) = SumFunctionOnSet(f, S) + SumFunctionOnSet(g, S)
<1> DEFINE Sum(d, T) == SumFunctionOnSet(d, T)
           Bad == {T \in SUBSET S : Sum(h, T) # Sum(f, T) + Sum(g, T)}
<1> SUFFICES ASSUME Bad # {} PROVE FALSE
  OBVIOUS
<1>1. PICK T \in Bad : IsFiniteSet(T) /\ \A x \in T : T \ {x} \notin Bad
  BY SmallestOf
<1>2. CASE T = {}
  BY <1>1, <1>2, SumOfNone
<1>3. CASE T # {}
  <2> DEFINE p == Pick(T)
             U == T \ {p}
  <2>1. p \in T
    BY <1>3, PickInside
  <2>2. /\ Sum(f, T) = f[p] + Sum(f, U)
        /\ Sum(g, T) = g[p] + Sum(g, U)
        /\ Sum(h, T) = h[p] + Sum(h, U)
    BY <1>1, <1>3, SumOfSome
  <2> HIDE DEF p
  <2>3. Sum(h, U) = Sum(f, U) + Sum(g, U)
    BY <1>1, <2>1
  <2>4. IsFiniteSet(U)
    BY <1>1, FS_Subset
  <2>5. Sum(f, U) \in Int /\ Sum(g, U) \in Int
    BY <2>4, SumIsInt
  <2>6. f[p] \in Int /\ g[p] \in Int /\ h[p] = f[p] + g[p]
    BY <2>1
  <2> HIDE DEF Sum, U
  <2>7. Sum(h, T) = Sum(f, T) + Sum(g, T)
    BY <2>2, <2>3, <2>5, <2>6
  <2> QED BY <1>1, <2>7
<1> QED BY <1>2, <1>3

(* What is zero adds nothing.                                              *)
LEMMA SumWhere ==
    ASSUME NEW f, NEW S, IsFiniteSet(S), NEW R \in SUBSET S,
           \A x \in S : f[x] \in Int /\ (x \notin R => f[x] = 0)
    PROVE  SumFunctionOnSet(f, S) = SumFunctionOnSet(f, R)
<1> DEFINE Sum(T) == SumFunctionOnSet(f, T)
           Bad == {T \in SUBSET S : Sum(T) # Sum(T \cap R)}
<1> SUFFICES ASSUME Bad # {} PROVE FALSE
  <2>1. S \cap R = R
    OBVIOUS
  <2> QED BY <2>1
<1>1. PICK T \in Bad : IsFiniteSet(T) /\ \A x \in T : T \ {x} \notin Bad
  BY SmallestOf
<1>2. PICK x \in T : TRUE
  <2>1. T # {}
    BY <1>1
  <2> QED BY <2>1
<1> DEFINE U == T \ {x}
<1>3. Sum(U) = Sum(U \cap R)
  BY <1>1, <1>2
<1>4. Sum(T) = f[x] + Sum(U)
  BY <1>1, <1>2, SumWithout
<1>5. IsFiniteSet(T \cap R) /\ IsFiniteSet(U)
  BY <1>1, FS_Subset
<1>6. Sum(U) \in Int /\ f[x] \in Int
  BY <1>1, <1>2, <1>5, SumIsInt
<1>7. CASE x \in R
  <2>1. Sum(T \cap R) = f[x] + Sum((T \cap R) \ {x})
    <3>1. x \in T \cap R /\ \A y \in T \cap R : f[y] \in Int
      BY <1>1, <1>2, <1>7
    <3> QED BY <1>5, <3>1, SumWithout
  <2>2. (T \cap R) \ {x} = U \cap R
    OBVIOUS
  <2> QED BY <1>1, <1>3, <1>4, <2>1, <2>2
<1>8. CASE x \notin R
  <2>1. f[x] = 0 /\ T \cap R = U \cap R
    BY <1>1, <1>2, <1>8
  <2>2. Sum(T \cap R) = Sum(U)
    BY <1>3, <2>1
  <2> HIDE DEF U, Sum
  <2>3. Sum(T) = Sum(U)
    BY <1>4, <1>6, <2>1
  <2> QED BY <1>1, <2>2, <2>3 DEF Sum
<1> QED BY <1>7, <1>8

-----------------------------------------------------------------------------
(* Sums over the places 0 .. n *)

LEMMA PrefixOfNone ==
    ASSUME NEW f
    PROVE  SumFunctionOnSet(f, 0 .. -1) = 0
<1>1. 0 .. -1 = {}
  OBVIOUS
<1> QED BY <1>1, SumOfNone

LEMMA PrefixGrows ==
    ASSUME NEW f, NEW n \in Nat, \A x \in 0 .. n : f[x] \in Nat
    PROVE  SumFunctionOnSet(f, 0 .. n) = SumFunctionOnSet(f, 0 .. n - 1) + f[n]
<1>1. 0 .. n = (0 .. n - 1) \cup {n} /\ n \notin 0 .. n - 1
  OBVIOUS
<1>2. IsFiniteSet(0 .. n - 1)
  BY FS_Interval
<1>3. f[n] \in Int /\ \A x \in 0 .. n - 1 : f[x] \in Int
  OBVIOUS
<1> QED BY <1>1, <1>2, <1>3, SumWith

LEMMA PrefixIsNat ==
    ASSUME NEW f, NEW n \in Int, \A x \in 0 .. n : f[x] \in Nat
    PROVE  SumFunctionOnSet(f, 0 .. n) \in Nat
<1>1. IsFiniteSet(0 .. n)
  BY FS_Interval
<1> QED BY <1>1, SumIsNat

(* A longer prefix sums up to no less.                                     *)
LEMMA PrefixMonotone ==
    ASSUME NEW f, NEW n \in Nat, \A x \in 0 .. n : f[x] \in Nat,
           NEW m \in -1 .. n
    PROVE  SumFunctionOnSet(f, 0 .. m) <= SumFunctionOnSet(f, 0 .. n)
<1> DEFINE Good == {k \in Nat : m + k <= n =>
                      SumFunctionOnSet(f, 0 .. m)
                        <= SumFunctionOnSet(f, 0 .. m + k)}
<1>1. 0 \in Good
  <2>1. SumFunctionOnSet(f, 0 .. m) \in Nat /\ m + 0 = m
    BY PrefixIsNat
  <2> QED BY <2>1
<1>2. ASSUME NEW k \in Nat, k \in Good PROVE k + 1 \in Good
  <2> SUFFICES ASSUME m + (k + 1) <= n
               PROVE  SumFunctionOnSet(f, 0 .. m)
                        <= SumFunctionOnSet(f, 0 .. m + (k + 1))
    OBVIOUS
  <2> DEFINE l == m + (k + 1)
  <2>1. l \in Nat /\ l - 1 = m + k /\ \A x \in 0 .. l : f[x] \in Nat
    OBVIOUS
  <2>2. SumFunctionOnSet(f, 0 .. l) = SumFunctionOnSet(f, 0 .. l - 1) + f[l]
    BY <2>1, PrefixGrows
  <2>3. /\ SumFunctionOnSet(f, 0 .. m) \in Nat
        /\ SumFunctionOnSet(f, 0 .. l - 1) \in Nat
        /\ f[l] \in Nat
    BY <2>1, PrefixIsNat
  <2>4. SumFunctionOnSet(f, 0 .. m) <= SumFunctionOnSet(f, 0 .. m + k)
    BY <1>2
  <2> HIDE DEF l
  <2>5. SumFunctionOnSet(f, 0 .. m) <= SumFunctionOnSet(f, 0 .. l)
    BY <2>1, <2>2, <2>3, <2>4
  <2> QED BY <2>5 DEF l
<1> HIDE DEF Good
<1>3. Good = Nat
  <2>1. Good \in SUBSET Nat
    BY DEF Good
  <2> QED BY <1>1, <1>2, <2>1, NatSteps
<1>4. n - m \in Good /\ m + (n - m) = n
  BY <1>3
<1> QED BY <1>4 DEF Good

(* All a place further: the sum up to a place is that up to the one before.*)
LEMMA PrefixShifted ==
    ASSUME NEW f, NEW g, NEW n \in Nat, \A x \in 0 .. n : f[x] \in Nat,
           g[0] = 0, \A x \in 1 .. n : g[x] = f[x - 1]
    PROVE  SumFunctionOnSet(g, 0 .. n) = SumFunctionOnSet(f, 0 .. n - 1)
<1> DEFINE Good == {k \in Nat : k <= n =>
             SumFunctionOnSet(g, 0 .. k) = SumFunctionOnSet(f, 0 .. k - 1)}
<1>0. \A x \in 0 .. n : g[x] \in Nat
  OBVIOUS
<1>1. 0 \in Good
  <2>1. SumFunctionOnSet(g, 0 .. 0) = SumFunctionOnSet(g, 0 .. 0 - 1) + g[0]
    <3>1. \A x \in 0 .. 0 : g[x] \in Nat
      OBVIOUS
    <3> QED BY <3>1, PrefixGrows
  <2> QED BY <2>1, PrefixOfNone
<1>2. ASSUME NEW k \in Nat, k \in Good PROVE k + 1 \in Good
  <2> SUFFICES ASSUME k + 1 <= n
               PROVE  SumFunctionOnSet(g, 0 .. k + 1) = SumFunctionOnSet(f, 0 .. k)
    BY (k + 1) - 1 = k
  <2>1. SumFunctionOnSet(g, 0 .. k + 1) =
          SumFunctionOnSet(g, 0 .. (k + 1) - 1) + g[k + 1]
    <3>1. k + 1 \in Nat /\ \A x \in 0 .. k + 1 : g[x] \in Nat
      BY <1>0
    <3> QED BY <3>1, PrefixGrows
  <2>2. SumFunctionOnSet(f, 0 .. k) = SumFunctionOnSet(f, 0 .. k - 1) + f[k]
    <3>1. \A x \in 0 .. k : f[x] \in Nat
      OBVIOUS
    <3> QED BY <3>1, PrefixGrows
  <2>3. (k + 1) - 1 = k /\ g[k + 1] = f[k]
    OBVIOUS
  <2>4. SumFunctionOnSet(g, 0 .. k) = SumFunctionOnSet(f, 0 .. k - 1)
    BY <1>2
  <2> QED BY <2>1, <2>2, <2>3, <2>4
<1> HIDE DEF Good
<1>3. Good = Nat
  <2>1. Good \in SUBSET Nat
    BY DEF Good
  <2> QED BY <1>1, <1>2, <2>1, NatSteps
<1> QED BY <1>3 DEF Good
=============================================================================
