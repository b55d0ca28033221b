-------------------------- MODULE EvaluatorsProofs --------------------------
(* What the evaluators promise, for inputs of every length and every value: first *)
(* what stands in for induction here, finite sets and sums; then the frame check,   *)
(* the certificate and the verdicts of a live run, its worst-case latency, the HIL  *)
(* and false-data metrics, continual learning, the sessions of the generator, robust *)
(* aggregation, the rankings of two models, the matrix and the percentiles.       *)
EXTENDS Evaluators, TLAPS, FiniteSetTheorems, WellFoundedInduction

(* A nonempty set of numbers has a least one: what stands in for induction here.  *)
LEMMA Least == ASSUME NEW T \in SUBSET Nat, T # {}
               PROVE  \E x \in T : \A y \in T : x <= y
<1>1. PICK x \in T : \A y \in T : ~ (<<y, x>> \in OpToRel(<, Nat))
  <2>1. IsWellFoundedOn(OpToRel(<, Nat), Nat) /\ T \subseteq Nat
    BY NatLessThanWellFounded
  <2> QED
    BY <2>1, WFMin
<1>2. ASSUME NEW y \in T, y < x PROVE FALSE
  <2>1. <<y, x>> \in Nat \X Nat /\ <<y, x>>[1] < <<y, x>>[2]
    BY <1>2
  <2>2. <<y, x>> \in OpToRel(<, Nat)
    BY <2>1 DEF OpToRel
  <2> QED
    BY <1>1, <2>2
<1>3. \A y \in T : x <= y
  <2> TAKE y \in T
  <2>1. x \in Nat /\ y \in Nat /\ ~ (y < x)
    BY <1>2
  <2> QED
    BY <2>1
<1> QED
  BY <1>3

(* Induction up to n, for a set of numbers instead of a predicate. *)
LEMMA UpTo == ASSUME NEW n \in Nat, NEW Good, 0 \in Good,
                     \A k \in 0 .. n - 1 : k \in Good => k + 1 \in Good
              PROVE  n \in Good
<1> DEFINE Bad == {k \in 0 .. n : k \notin Good}
<1> SUFFICES ASSUME n \notin Good PROVE FALSE
  OBVIOUS
<1>1. Bad \in SUBSET Nat /\ Bad # {}
  OBVIOUS
<1>2. PICK k \in Bad : \A j \in Bad : k <= j
  BY <1>1, Least
<1>3. k \in 0 .. n /\ k \notin Good /\ k # 0
  BY <1>2
<1>4. k - 1 \in 0 .. n - 1 /\ ~ (k <= k - 1) /\ k - 1 + 1 = k
  BY <1>3
<1>5. k - 1 \in Good
  BY <1>2, <1>4
<1> QED
  BY <1>3, <1>4, <1>5

LEMMA Smaller == ASSUME NEW S, IsFiniteSet(S), NEW x \in S
                 PROVE  /\ IsFiniteSet(S \ {x}) /\ Cardinality(S \ {x}) = Cardinality(S) - 1
                        /\ Cardinality(S) \in Nat \ {0} /\ Cardinality(S \ {x}) \in Nat
BY FS_RemoveElement, FS_CardinalityType, FS_EmptySet

(* The same for a finite set, one element at a time. *)
LEMMA OneByOne == ASSUME NEW S, IsFiniteSet(S), NEW Good, {} \in Good,
                         \A T \in SUBSET S :
                            T # {} /\ (\A x \in T : T \ {x} \in Good) => T \in Good
                  PROVE  S \in Good
<1> DEFINE Sizes == {k \in Nat : \A T \in SUBSET S : Cardinality(T) = k => T \in Good}
           n == Cardinality(S)
<1>1. n \in Nat
  BY FS_CardinalityType
<1>2. 0 \in Sizes
  <2>1. \A T \in SUBSET S : Cardinality(T) = 0 => T = {}
    BY FS_Subset, FS_EmptySet
  <2> QED
    BY <2>1
<1>3. ASSUME NEW k \in 0 .. n - 1, k \in Sizes PROVE k + 1 \in Sizes
  <2> SUFFICES ASSUME NEW T \in SUBSET S, Cardinality(T) = k + 1 PROVE T \in Good
    BY <1>1
  <2>1. IsFiniteSet(T) /\ T # {}
    BY <1>1, FS_Subset, FS_EmptySet
  <2>2. ASSUME NEW x \in T PROVE T \ {x} \in Good
    <3>1. Cardinality(T \ {x}) = Cardinality(T) - 1
      BY <2>1, Smaller
    <3>2. Cardinality(T \ {x}) = k
      BY <1>1, <3>1
    <3> QED
      BY <1>3, <3>2
  <2> QED
    BY <2>1, <2>2
<1>4. n \in Sizes
  <2> HIDE DEF Sizes, n
  <2> QED
    BY <1>1, <1>2, <1>3, UpTo
<1> QED
  BY <1>4
-----------------------------------------------------------------------------

LEMMA Grown == ASSUME NEW R, NEW s \in Seq(R), NEW e \in R
               PROVE  Append(s, e) \in Seq(R)
OBVIOUS

LEMMA Product == ASSUME NEW a \in Nat, NEW b \in Nat, NEW c \in Nat, b <= c
                 PROVE  a * b \in Nat /\ a * c \in Nat /\ a * b <= a * c
<1>1. PICK d \in Nat : c = b + d
  <2>1. c - b \in Nat /\ c = b + (c - b)
    OBVIOUS
  <2> QED
    BY <2>1
<1>2. a * d \in Nat /\ a * b \in Nat /\ a * c = a * b + a * d
  BY <1>1
<1> QED
  BY <1>2

(* The values of f up to n, and base.                                            *)
Holds(S, n, f, base) == \A x : x \in S <=> x = base \/ \E i \in 1 .. n : x = f[i]

(* A base and finitely many values have a least and a greatest member.           *)
LEMMA LeastValue ==
    ASSUME NEW n \in Nat, NEW base \in Int, NEW f, \A i \in 1 .. n : f[i] \in Int,
           NEW S, Holds(S, n, f, base)
    PROVE  \E m \in S : \A y \in S : m <= y
<1> DEFINE V(k) == {base} \cup {f[i] : i \in 1 .. k}
           Has(k) == \E m \in V(k) : \A y \in V(k) : m <= y
           Bad == {k \in 0 .. n : ~ Has(k)}
<1>1. S = V(n) /\ n \in 0 .. n
  BY DEF Holds
<1>2. Bad = {}
  <2> SUFFICES ASSUME Bad # {} PROVE FALSE
    OBVIOUS
  <2>1. Bad \in SUBSET Nat
    OBVIOUS
  <2> HIDE DEF Bad
  <2>2. PICK k \in Bad : \A j \in Bad : k <= j
    BY <2>1, Least
  <2>3. k \in 0 .. n /\ ~ Has(k)
    BY <2>2 DEF Bad
  <2>4. k # 0
    <3>1. V(0) = {base}
      OBVIOUS
    <3>2. Has(0)
      BY <3>1
    <3> QED
      BY <2>3, <3>2
  <2>5. k - 1 \in 0 .. n /\ ~ (k <= k - 1)
    BY <2>3, <2>4
  <2>6. Has(k - 1)
    BY <2>2, <2>5 DEF Bad
  <2>7. PICK m \in V(k - 1) : \A y \in V(k - 1) : m <= y
    BY <2>6
  <2>8. V(k) = V(k - 1) \cup {f[k]} /\ f[k] \in Int /\ V(k - 1) \in SUBSET Int
    BY <2>3, <2>4, <2>5
  <2> HIDE DEF V
  <2>9. \E p \in V(k - 1) \cup {f[k]} : \A y \in V(k - 1) \cup {f[k]} : p <= y
    <3>1. CASE m <= f[k]
      BY <2>7, <2>8, <3>1
    <3>2. CASE f[k] < m
      BY <2>7, <2>8, <3>2
    <3> QED
      BY <2>7, <2>8, <3>1, <3>2
  <2> QED
    BY <2>3, <2>8, <2>9
<1> QED
  BY <1>1, <1>2

LEMMA GreatestValue ==
    ASSUME NEW n \in Nat, NEW base \in Int, NEW f, \A i \in 1 .. n : f[i] \in Int,
           NEW S, Holds(S, n, f, base)
    PROVE  \E m \in S : \A y \in S : m >= y
<1> DEFINE g == [i \in 1 .. n |-> - f[i]]
           T == {- y : y \in S}
<1>1. S \in SUBSET Int
  BY DEF Holds
<1>2. \A i \in 1 .. n : g[i] \in Int
  OBVIOUS
<1>3. - base \in Int /\ Holds(T, n, g, - base)
  BY <1>1 DEF Holds
<1> HIDE DEF g, T
<1>4. PICK m \in T : \A y \in T : m <= y
  BY <1>2, <1>3, LeastValue
<1>5. \A y \in S : - y \in T
  BY DEF T
<1>6. PICK x \in S : m = - x
  BY <1>4 DEF T
<1>7. \A y \in S : x >= y
  BY <1>1, <1>4, <1>5, <1>6
<1> QED
  BY <1>7
-----------------------------------------------------------------------------
(* Finitely many arguments have finitely many values. *)
LEMMA FiniteValues == ASSUME NEW S, IsFiniteSet(S), NEW f
                      PROVE  IsFiniteSet({f[x] : x \in S})
<1> DEFINE Values(T) == {f[x] : x \in T}
           Good == {T \in SUBSET S : IsFiniteSet(Values(T))}
<1>1. {} \in Good
  <2>1. Values({}) = {}
    OBVIOUS
  <2> QED
    BY <2>1, FS_EmptySet
<1>2. ASSUME NEW T \in SUBSET S, T # {}, \A x \in T : T \ {x} \in Good PROVE T \in Good
  <2>1. PICK x : x \in T
    BY <1>2
  <2>2. Values(T) = Values(T \ {x}) \cup {f[x]}
    BY <2>1
  <2>3. IsFiniteSet(Values(T \ {x}))
    BY <1>2, <2>1
  <2> DEFINE V == Values(T \ {x})
             y == f[x]
  <2>4. IsFiniteSet(V \cup {y})
    <3> HIDE DEF V, y
    <3> QED
      BY <2>3, FS_AddElement DEF V
  <2> QED
    BY <2>2, <2>4
<1>3. S \in Good
  <2> HIDE DEF Good
  <2> QED
    BY <1>1, <1>2, OneByOne
<1> QED
  BY <1>3

(* A finite nonempty set of numbers has a greatest member.              *)
LEMMA FiniteGreatest == ASSUME NEW S, IsFiniteSet(S), S \subseteq Int, S # {}
                        PROVE  \E m \in S : \A y \in S : m >= y
<1> DEFINE Good == {T \in SUBSET S : T # {} => \E m \in T : \A y \in T : m >= y}
<1>1. {} \in Good
  OBVIOUS
<1>2. ASSUME NEW T \in SUBSET S, T # {}, \A x \in T : T \ {x} \in Good PROVE T \in Good
  <2>1. PICK x : x \in T
    BY <1>2
  <2>2. CASE T \ {x} = {}
    <3>1. x >= x /\ \A y \in T : y = x
      BY <2>1, <2>2
    <3> QED
      BY <2>1, <3>1
  <2>3. CASE T \ {x} # {}
    <3>1. PICK m \in T \ {x} : \A y \in T \ {x} : m >= y
      BY <1>2, <2>1, <2>3
    <3>2. CASE m >= x
      BY <3>1, <3>2
    <3>3. CASE ~ (m >= x)
      <4>1. \A y \in T : x >= y
        BY <2>1, <3>1, <3>3
      <4> QED
        BY <2>1, <4>1
    <3> QED
      BY <3>2, <3>3
  <2> QED
    BY <2>2, <2>3
<1>3. S \in Good
  <2> HIDE DEF Good
  <2> QED
    BY <1>1, <1>2, OneByOne
<1> QED
  BY <1>3

(* A finite set has parts of every size up to its own. *)
LEMMA PartOfSize == ASSUME NEW S, IsFiniteSet(S), NEW c \in 0 .. Cardinality(S)
                    PROVE  \E T \in SUBSET S : Cardinality(T) = c
<1> DEFINE Good == {k \in 0 .. c : \E T \in SUBSET S : Cardinality(T) = k}
<1>1. Cardinality(S) \in Nat /\ c \in Nat
  BY FS_CardinalityType
<1>2. 0 \in Good
  BY <1>1, FS_EmptySet
<1>3. ASSUME NEW k \in 0 .. c - 1, k \in Good PROVE k + 1 \in Good
  <2>1. PICK T \in SUBSET S : Cardinality(T) = k
    BY <1>3
  <2>2. k # Cardinality(S)
    BY <1>1
  <2>3. PICK x \in S : x \notin T
    BY <2>1, <2>2
  <2>4. Cardinality(T \cup {x}) = k + 1
    BY <2>1, <2>3, FS_Subset, FS_AddElement
  <2> QED
    BY <1>1, <2>3, <2>4
<1>4. c \in Good
  <2> HIDE DEF Good
  <2> QED
    BY <1>1, <1>2, <1>3, UpTo
<1> QED
  BY <1>4
-----------------------------------------------------------------------------
(* g adds f up over every subset of S, one chosen element after the other. *)
AddUp(f, g, s) == IF s = {} THEN 0
                  ELSE LET x == CHOOSE x \in s : TRUE IN f[x] + g[s \ {x}]

Adds(g, f, S) == g = [s \in SUBSET S |-> AddUp(f, g, s)]

LEMMA AddsDef == ASSUME NEW f, NEW S
                 PROVE  SumFunctionOnSet(f, S) = (CHOOSE g : Adds(g, f, S))[S]
BY DEF SumFunctionOnSet, FoldFunctionOnSet, MapThenFoldSet, Adds, AddUp

LEMMA AddsExists == ASSUME NEW f, NEW S, IsFiniteSet(S)
                    PROVE  \E g : Adds(g, f, S)
<1> DEFINE upTo(g, k) == \A s \in SUBSET S : Cardinality(s) <= k => g[s] = AddUp(f, g, s)
           n == Cardinality(S)
           Good == {k \in 0 .. n : \E g : g = [s \in SUBSET S |-> g[s]] /\ upTo(g, k)}
<1>1. /\ n \in Nat
      /\ \A s \in SUBSET S : IsFiniteSet(s) /\ Cardinality(s) \in 0 .. n
  BY FS_CardinalityType, FS_Subset
<1> HIDE DEF n
<1>2. 0 \in Good
  <2> DEFINE g == [s \in SUBSET S |-> 0]
  <2>1. \A s \in SUBSET S : Cardinality(s) <= 0 => s = {}
    BY <1>1, FS_EmptySet
  <2>2. upTo(g, 0)
    BY <2>1 DEF AddUp
  <2>3. g = [s \in SUBSET S |-> g[s]]
    OBVIOUS
  <2>4. \E h : h = [s \in SUBSET S |-> h[s]] /\ upTo(h, 0)
    <3> HIDE DEF g, upTo
    <3> QED
      BY <2>2, <2>3
  <2>5. 0 \in 0 .. n
    BY <1>1
  <2> HIDE DEF upTo
  <2> QED
    BY <2>4, <2>5
<1>3. ASSUME NEW k \in 0 .. n - 1, k \in Good PROVE k + 1 \in Good
  <2>1. PICK g : g = [s \in SUBSET S |-> g[s]] /\ upTo(g, k)
    BY <1>3
  <2> DEFINE h == [s \in SUBSET S |-> IF Cardinality(s) = k + 1 THEN AddUp(f, g, s) ELSE g[s]]
  <2>2. ASSUME NEW s \in SUBSET S, Cardinality(s) <= k + 1 PROVE h[s] = AddUp(f, h, s)
    <3>1. h[s] = AddUp(f, g, s)
      <4>1. CASE Cardinality(s) = k + 1
        BY <4>1
      <4>2. CASE ~ (Cardinality(s) = k + 1)
        <5>1. Cardinality(s) <= k
          BY <1>1, <2>2, <4>2
        <5> QED
          BY <2>1, <4>2, <5>1
      <4> QED
        BY <4>1, <4>2
    <3>2. CASE s = {}
      BY <3>1, <3>2 DEF AddUp
    <3>3. CASE s # {}
      <4> DEFINE x == CHOOSE x \in s : TRUE
      <4>1. x \in s
        BY <3>3
      <4>2. /\ s \ {x} \in SUBSET S /\ Cardinality(s \ {x}) = Cardinality(s) - 1
            /\ Cardinality(s) \in Nat
        BY <1>1, <4>1, Smaller
      <4>3. ~ (Cardinality(s \ {x}) = k + 1)
        BY <1>1, <2>2, <4>2
      <4>4. h[s \ {x}] = g[s \ {x}]
        BY <4>2, <4>3
      <4> QED
        BY <3>1, <3>3, <4>4 DEF AddUp
    <3> QED
      BY <3>2, <3>3
  <2>3. h = [s \in SUBSET S |-> h[s]]
    OBVIOUS
  <2>4. k + 1 \in 0 .. n
    BY <1>1
  <2> HIDE DEF h
  <2> QED
    BY <2>2, <2>3, <2>4
<1>4. n \in Good
  <2> HIDE DEF Good
  <2> QED
    BY <1>1, <1>2, <1>3, UpTo
<1>5. PICK g : g = [s \in SUBSET S |-> g[s]] /\ upTo(g, n)
  BY <1>4
<1>6. \A s \in SUBSET S : g[s] = AddUp(f, g, s)
  <2>1. upTo(g, n)
    BY <1>5
  <2>2. \A s \in SUBSET S : Cardinality(s) <= n
    BY <1>1
  <2> QED
    BY <2>1, <2>2
<1>7. [s \in SUBSET S |-> g[s]] = [s \in SUBSET S |-> AddUp(f, g, s)]
  BY <1>6
<1> QED
  BY <1>5, <1>7 DEF Adds

LEMMA SumAdds == ASSUME NEW f, NEW S, IsFiniteSet(S), \A i \in S : f[i] \in Int
                 PROVE  \E g : /\ SumFunctionOnSet(f, S) = g[S]
                               /\ Adds(g, f, S)
                               /\ \A T \in SUBSET S : g[T] \in Int
                               /\ \A T \in SUBSET S : \A y \in T : g[T] = f[y] + g[T \ {y}]
<1> DEFINE g == CHOOSE g : Adds(g, f, S)
           Whole == {T \in SUBSET S : g[T] \in Int}
           Any == {T \in SUBSET S : \A y \in T : g[T] = f[y] + g[T \ {y}]}
<1>1. Adds(g, f, S)
  BY AddsExists
<1>2. SumFunctionOnSet(f, S) = g[S]
  BY AddsDef
<1> HIDE DEF g
<1>3. /\ g[{}] = 0
      /\ \A T \in SUBSET S : T # {} => \E x \in T : g[T] = f[x] + g[T \ {x}]
  BY <1>1 DEF Adds, AddUp
<1>4. \A T \in SUBSET S : IsFiniteSet(T)
  BY FS_Subset
<1>5. ASSUME NEW R \in SUBSET S PROVE g[R] \in Int
  <2>1. {} \in Whole
    BY <1>3
  <2>2. ASSUME NEW T \in SUBSET R, T # {}, \A x \in T : T \ {x} \in Whole
        PROVE  T \in Whole
    <3>1. PICK x \in T : g[T] = f[x] + g[T \ {x}]
      BY <1>3, <2>2
    <3>2. f[x] \in Int /\ g[T \ {x}] \in Int
      BY <2>2
    <3> QED
      BY <3>1, <3>2
  <2>3. R \in Whole
    <3> HIDE DEF Whole
    <3> QED
      BY <1>4, <2>1, <2>2, OneByOne
  <2> QED
    BY <2>3
<1>6. ASSUME NEW R \in SUBSET S PROVE \A y \in R : g[R] = f[y] + g[R \ {y}]
  <2>1. {} \in Any
    OBVIOUS
  <2>2. ASSUME NEW T \in SUBSET R, T # {}, \A x \in T : T \ {x} \in Any
        PROVE  T \in Any
    <3> SUFFICES ASSUME NEW y \in T PROVE g[T] = f[y] + g[T \ {y}]
      OBVIOUS
    <3>1. PICK x \in T : g[T] = f[x] + g[T \ {x}]
      BY <1>3, <2>2
    <3>2. CASE x # y
      <4>1. g[T \ {x}] = f[y] + g[(T \ {x}) \ {y}]
        BY <2>2, <3>2
      <4>2. g[T \ {y}] = f[x] + g[(T \ {y}) \ {x}]
        BY <2>2, <3>2
      <4>3. (T \ {x}) \ {y} = (T \ {y}) \ {x}
        OBVIOUS
      <4>4. f[x] \in Int /\ f[y] \in Int /\ g[(T \ {y}) \ {x}] \in Int
        BY <1>5
      <4>5. g[T \ {x}] = f[y] + g[(T \ {y}) \ {x}]
        BY <4>1, <4>3
      <4> HIDE DEF g
      <4> QED
        BY <3>1, <4>2, <4>4, <4>5
    <3> QED
      BY <3>1, <3>2
  <2>3. R \in Any
    <3> HIDE DEF Any
    <3> QED
      BY <1>4, <2>1, <2>2, OneByOne
  <2> QED
    BY <2>3
<1> QED
  BY <1>1, <1>2, <1>5, <1>6

(* What a sum over a finite set is: nothing for the empty set, and any element     *)
(* may be taken out first.                                                       *)
LEMMA SumEmpty == ASSUME NEW f PROVE SumFunctionOnSet(f, {}) = 0
<1>1. PICK g : SumFunctionOnSet(f, {}) = g[{}] /\ Adds(g, f, {})
  BY FS_EmptySet, SumAdds
<1> QED
  BY <1>1 DEF Adds, AddUp

LEMMA SumInt == ASSUME NEW f, NEW S, IsFiniteSet(S), \A i \in S : f[i] \in Int
                PROVE  SumFunctionOnSet(f, S) \in Int
BY SumAdds

LEMMA SumRemove == ASSUME NEW f, NEW S, IsFiniteSet(S), \A i \in S : f[i] \in Int, NEW y \in S
                   PROVE  SumFunctionOnSet(f, S) = f[y] + SumFunctionOnSet(f, S \ {y})
<1>1. PICK g : /\ SumFunctionOnSet(f, S) = g[S]
               /\ \A T \in SUBSET S : g[T] \in Int
               /\ \A T \in SUBSET S : \A x \in T : g[T] = f[x] + g[T \ {x}]
               /\ Adds(g, f, S)
  BY SumAdds
<1> DEFINE R == S \ {y}
<1>2. IsFiniteSet(R) /\ \A i \in R : f[i] \in Int
  BY Smaller
<1>3. PICK h : /\ SumFunctionOnSet(f, R) = h[R]
               /\ \A T \in SUBSET R : h[T] \in Int
               /\ \A T \in SUBSET R : \A x \in T : h[T] = f[x] + h[T \ {x}]
               /\ Adds(h, f, R)
  <2> HIDE DEF R
  <2> QED
    BY <1>2, SumAdds, Zenon
<1>4. g[{}] = 0 /\ h[{}] = 0
  BY <1>1, <1>3 DEF Adds, AddUp
<1> DEFINE Same == {T \in SUBSET R : g[T] = h[T]}
<1>5. R \in Same
  <2>1. {} \in Same
    BY <1>4
  <2>2. ASSUME NEW T \in SUBSET R, T # {}, \A x \in T : T \ {x} \in Same
        PROVE  T \in Same
    <3>1. PICK x : x \in T
      BY <2>2
    <3>2. g[T] = f[x] + g[T \ {x}] /\ h[T] = f[x] + h[T \ {x}] /\ g[T \ {x}] = h[T \ {x}]
      BY <1>1, <1>3, <2>2, <3>1
    <3> QED
      BY <3>2
  <2> HIDE DEF Same
  <2> QED
    BY <1>2, <2>1, <2>2, OneByOne
<1>6. g[S] = f[y] + g[R] /\ g[R] = h[R]
  BY <1>1, <1>5
<1> QED
  BY <1>1, <1>3, <1>6

LEMMA SumAdd == ASSUME NEW f, NEW S, IsFiniteSet(S), \A i \in S : f[i] \in Int,
                       NEW y, y \notin S, f[y] \in Int
                PROVE  SumFunctionOnSet(f, S \cup {y}) = f[y] + SumFunctionOnSet(f, S)
<1>1. IsFiniteSet(S \cup {y}) /\ (S \cup {y}) \ {y} = S
  BY FS_AddElement
<1>2. SumFunctionOnSet(f, S \cup {y}) = f[y] + SumFunctionOnSet(f, (S \cup {y}) \ {y})
  BY <1>1, SumRemove
<1> QED
  BY <1>1, <1>2

LEMMA OneMore == ASSUME NEW k \in Int, NEW c \in Int PROVE (k + 1) * c = k * c + c /\ k * c \in Int
OBVIOUS

(* Bounds on the terms bound the sum; if no term is negative, those of a part do. *)
LEMMA SumAtLeast == ASSUME NEW f, NEW S, IsFiniteSet(S), \A i \in S : f[i] \in Int,
                           NEW c \in Int, \A i \in S : f[i] >= c
                    PROVE  SumFunctionOnSet(f, S) >= Cardinality(S) * c
<1> DEFINE Good == {T \in SUBSET S : SumFunctionOnSet(f, T) >= Cardinality(T) * c}
<1>1. {} \in Good
  BY SumEmpty, FS_EmptySet
<1>2. ASSUME NEW T \in SUBSET S, T # {}, \A x \in T : T \ {x} \in Good PROVE T \in Good
  <2>1. PICK x : x \in T
    BY <1>2
  <2> DEFINE k == Cardinality(T \ {x})
             s == SumFunctionOnSet(f, T \ {x})
  <2>2. /\ SumFunctionOnSet(f, T) = f[x] + s /\ s \in Int /\ f[x] \in Int /\ f[x] >= c
        /\ k \in Nat /\ Cardinality(T) = k + 1
    <3>1. IsFiniteSet(T) /\ IsFiniteSet(T \ {x})
      BY FS_Subset
    <3>2. k \in Nat /\ Cardinality(T) - 1 = k /\ Cardinality(T) \in Nat
      BY <2>1, <3>1, Smaller
    <3> QED
      BY <2>1, <3>1, <3>2, SumRemove, SumInt
  <2>3. s >= k * c
    BY <1>2, <2>1
  <2>4. (k + 1) * c = k * c + c /\ k * c \in Int
    BY <2>2, OneMore
  <2>5. f[x] + s >= (k + 1) * c
    BY <2>2, <2>3, <2>4
  <2> QED
    BY <2>2, <2>5
<1>3. S \in Good
  <2> HIDE DEF Good
  <2> QED
    BY <1>1, <1>2, OneByOne
<1> QED
  BY <1>3

LEMMA SumAtMost == ASSUME NEW f, NEW S, IsFiniteSet(S), \A i \in S : f[i] \in Int,
                          NEW c \in Int, \A i \in S : f[i] <= c
                   PROVE  SumFunctionOnSet(f, S) <= Cardinality(S) * c
<1> DEFINE Good == {T \in SUBSET S : SumFunctionOnSet(f, T) <= Cardinality(T) * c}
<1>1. {} \in Good
  BY SumEmpty, FS_EmptySet
<1>2. ASSUME NEW T \in SUBSET S, T # {}, \A x \in T : T \ {x} \in Good PROVE T \in Good
  <2>1. PICK x : x \in T
    BY <1>2
  <2> DEFINE k == Cardinality(T \ {x})
             s == SumFunctionOnSet(f, T \ {x})
  <2>2. /\ SumFunctionOnSet(f, T) = f[x] + s /\ s \in Int /\ f[x] \in Int /\ f[x] <= c
        /\ k \in Nat /\ Cardinality(T) = k + 1
    <3>1. IsFiniteSet(T) /\ IsFiniteSet(T \ {x})
      BY FS_Subset
    <3>2. k \in Nat /\ Cardinality(T) - 1 = k /\ Cardinality(T) \in Nat
      BY <2>1, <3>1, Smaller
    <3> QED
      BY <2>1, <3>1, <3>2, SumRemove, SumInt
  <2>3. s <= k * c
    BY <1>2, <2>1
  <2>4. (k + 1) * c = k * c + c /\ k * c \in Int
    BY <2>2, OneMore
  <2>5. f[x] + s <= (k + 1) * c
    BY <2>2, <2>3, <2>4
  <2> QED
    BY <2>2, <2>5
<1>3. S \in Good
  <2> HIDE DEF Good
  <2> QED
    BY <1>1, <1>2, OneByOne
<1> QED
  BY <1>3

LEMMA SumOfPart == ASSUME NEW f, NEW S, IsFiniteSet(S), \A i \in S : f[i] \in Nat, NEW P \in SUBSET S
                   PROVE  SumFunctionOnSet(f, P) <= SumFunctionOnSet(f, S)
<1> DEFINE Good == {T \in SUBSET S : SumFunctionOnSet(f, T \cap P) <= SumFunctionOnSet(f, T)}
<1>1. {} \in Good
  <2>1. {} \cap P = {}
    OBVIOUS
  <2> QED
    BY <2>1, SumEmpty
<1>2. ASSUME NEW T \in SUBSET S, T # {}, \A x \in T : T \ {x} \in Good PROVE T \in Good
  <2>1. PICK x : x \in T
    BY <1>2
  <2> DEFINE s == SumFunctionOnSet(f, T \ {x})
             p == SumFunctionOnSet(f, (T \ {x}) \cap P)
  <2>2. /\ SumFunctionOnSet(f, T) = f[x] + s /\ s \in Int /\ f[x] \in Nat
    <3>1. IsFiniteSet(T) /\ IsFiniteSet(T \ {x})
      BY FS_Subset
    <3> QED
      BY <2>1, <3>1, SumRemove, SumInt
  <2>3. p <= s /\ p \in Int
    <3>1. IsFiniteSet((T \ {x}) \cap P)
      BY FS_Subset
    <3> QED
      BY <1>2, <2>1, <3>1, SumInt
  <2>4. CASE x \in P
    <3>1. (T \cap P) \ {x} = (T \ {x}) \cap P /\ x \in T \cap P /\ IsFiniteSet(T \cap P)
      BY <2>1, <2>4, FS_Subset
    <3>2. \A i \in T \cap P : f[i] \in Int
      OBVIOUS
    <3>3. SumFunctionOnSet(f, T \cap P) = f[x] + SumFunctionOnSet(f, (T \cap P) \ {x})
      BY <3>1, <3>2, SumRemove
    <3>4. SumFunctionOnSet(f, T \cap P) = f[x] + p
      BY <3>1, <3>3
    <3> HIDE DEF p, s
    <3>5. f[x] + p <= f[x] + s
      BY <2>2, <2>3
    <3> QED
      BY <2>2, <3>4, <3>5
  <2>5. CASE x \notin P
    <3>1. T \cap P = (T \ {x}) \cap P
      BY <2>5
    <3>2. SumFunctionOnSet(f, T \cap P) = p
      BY <3>1
    <3> HIDE DEF p, s
    <3>3. p <= f[x] + s
      BY <2>2, <2>3
    <3> QED
      BY <2>2, <3>2, <3>3
  <2> QED
    BY <2>4, <2>5
<1>3. S \in Good
  <2> HIDE DEF Good
  <2> QED
    BY <1>1, <1>2, OneByOne
<1>4. S \cap P = P
  OBVIOUS
<1> QED
  BY <1>3, <1>4

(* The steps from r[m] to r[n] add up to their difference. *)
LEMMA SumOfSteps == ASSUME NEW m \in Int, NEW n \in Int, m <= n,
                           NEW r, \A i \in m .. n : r[i] \in Int,
                           NEW f, \A i \in m + 1 .. n : f[i] = r[i] - r[i - 1]
                    PROVE  SumFunctionOnSet(f, m + 1 .. n) = r[n] - r[m]
<1> DEFINE Good == {k \in 0 .. n - m : SumFunctionOnSet(f, m + 1 .. m + k) = r[m + k] - r[m]}
<1>1. 0 \in Good
  <2>1. m + 1 .. m + 0 = {} /\ m + 0 = m /\ r[m] \in Int
    OBVIOUS
  <2> QED
    BY <2>1, SumEmpty
<1>2. ASSUME NEW k \in 0 .. n - m - 1, k \in Good PROVE k + 1 \in Good
  <2> DEFINE S == m + 1 .. m + k
             y == m + (k + 1)
  <2>1. y \in m + 1 .. n /\ y \notin S /\ m + 1 .. y = S \cup {y} /\ y - 1 = m + k
    OBVIOUS
  <2>2. IsFiniteSet(S)
    BY FS_Interval
  <2>3. \A i \in S : f[i] \in Int
    <3> TAKE i \in S
    <3>1. i \in m + 1 .. n /\ i \in m .. n /\ i - 1 \in m .. n
      OBVIOUS
    <3> QED
      BY <3>1
  <2>4. f[y] = r[y] - r[m + k] /\ r[y] \in Int /\ r[m + k] \in Int /\ r[m] \in Int
    <3>1. y \in m .. n /\ m + k \in m .. n /\ m \in m .. n
      OBVIOUS
    <3> QED
      BY <2>1, <3>1
  <2>5. SumFunctionOnSet(f, S) = r[m + k] - r[m]
    BY <1>2
  <2>6. SumFunctionOnSet(f, S \cup {y}) = f[y] + SumFunctionOnSet(f, S)
    <3> HIDE DEF S, y
    <3> QED
      BY <2>1, <2>2, <2>3, <2>4, SumAdd
  <2>7. SumFunctionOnSet(f, m + 1 .. y) = r[y] - r[m]
    <3> HIDE DEF S, y
    <3>1. SumFunctionOnSet(f, m + 1 .. y) = f[y] + SumFunctionOnSet(f, S)
      BY <2>1, <2>6
    <3> QED
      BY <2>4, <2>5, <3>1
  <2> QED
    BY <2>7
<1>3. n - m \in Good
  <2> HIDE DEF Good
  <2>1. n - m \in Nat
    OBVIOUS
  <2> QED
    BY <1>1, <1>2, <2>1, UpTo
<1> QED
  BY <1>3

-----------------------------------------------------------------------------
(* k q >= s^2 goes on to hold when x is added: multiplied by k, what it gains is   *)
(* (s - k x)^2 and what was there.                                               *)
LEMMA CauchyStep == ASSUME NEW k \in Nat, NEW q \in Int, NEW s \in Int, NEW x \in Int,
                           k * q >= s * s, k = 0 => q = 0 /\ s = 0
                    PROVE  (k + 1) * (x * x + q) >= (x + s) * (x + s)
<1> DEFINE xx == x * x
           kq == k * q
           ss == s * s
           xs == x * s
           kx == k * x
<1>1. CASE k = 0
  BY <1>1
<1>2. CASE k # 0
  <2> DEFINE d == q + k * xx - 2 * xs
  <2>0. xx \in Int /\ kq \in Int /\ ss \in Int /\ xs \in Int /\ kx \in Int /\ k * xx \in Int /\ d \in Int
    OBVIOUS
  <2>1. (k + 1) * (xx + q) - (x + s) * (x + s) = (kq - ss) + d
    <3>1. (k + 1) * (xx + q) = k * xx + kq + xx + q
      OBVIOUS
    <3>2. (x + s) * (x + s) = xx + 2 * xs + ss
      OBVIOUS
    <3> HIDE DEF xx, kq, ss, xs
    <3> QED
      BY <2>0, <3>1, <3>2
  <2>2. k * d >= 0
    <3>1. k * d = kq + kx * kx - 2 * (kx * s)
      OBVIOUS
    <3>2. (s - kx) * (s - kx) = ss - 2 * (kx * s) + kx * kx
      OBVIOUS
    <3>3. (s - kx) * (s - kx) >= 0
      BY <2>0
    <3>4. kq >= ss /\ k * d \in Int
      BY <2>0
    <3> HIDE DEF xx, kq, ss, xs, kx, d
    <3>5. kx * kx \in Int /\ kx * s \in Int
      BY <2>0
    <3> DEFINE u == (s - kx) * (s - kx)
               v == kx * kx
               w == kx * s
               z == k * d
    <3>6. u = ss - 2 * w + v /\ u >= 0 /\ z = kq + v - 2 * w /\ v \in Int /\ w \in Int
      BY <3>1, <3>2, <3>3, <3>5
    <3> HIDE DEF u, v, w, z
    <3>7. z >= 0
      BY <2>0, <3>4, <3>6
    <3> QED
      BY <3>7 DEF z
  <2>3. d >= 0
    <3> HIDE DEF d
    <3> QED
      BY <1>2, <2>0, <2>2
  <2> HIDE DEF xx, kq, ss, d
  <2> QED
    BY <2>0, <2>1, <2>3
<1> QED
  BY <1>1, <1>2

(* The square of a sum is at most the number of terms times the sum of squares.   *)
LEMMA Cauchy == ASSUME NEW f, NEW g, NEW S, IsFiniteSet(S), \A i \in S : f[i] \in Int,
                       \A i \in S : g[i] = f[i] * f[i]
                PROVE  Cardinality(S) * SumFunctionOnSet(g, S)
                          >= SumFunctionOnSet(f, S) * SumFunctionOnSet(f, S)
<1> DEFINE Good == {T \in SUBSET S : Cardinality(T) * SumFunctionOnSet(g, T)
                                        >= SumFunctionOnSet(f, T) * SumFunctionOnSet(f, T)}
<1>0. \A i \in S : g[i] \in Int
  OBVIOUS
<1>1. {} \in Good
  BY SumEmpty, FS_EmptySet
<1>2. ASSUME NEW T \in SUBSET S, T # {}, \A x \in T : T \ {x} \in Good PROVE T \in Good
  <2>1. PICK x : x \in T
    BY <1>2
  <2> DEFINE k == Cardinality(T \ {x})
             s == SumFunctionOnSet(f, T \ {x})
             q == SumFunctionOnSet(g, T \ {x})
             y == f[x]
  <2>2. /\ SumFunctionOnSet(f, T) = y + s /\ s \in Int /\ y \in Int
        /\ SumFunctionOnSet(g, T) = y * y + q /\ q \in Int
        /\ k \in Nat /\ Cardinality(T) = k + 1
    <3>1. IsFiniteSet(T) /\ IsFiniteSet(T \ {x})
      BY FS_Subset
    <3>2. k \in Nat /\ Cardinality(T) - 1 = k /\ Cardinality(T) \in Nat
      BY <2>1, <3>1, Smaller
    <3>3. SumFunctionOnSet(f, T) = f[x] + s /\ s \in Int
      BY <2>1, <3>1, SumRemove, SumInt
    <3>4. SumFunctionOnSet(g, T) = g[x] + q /\ q \in Int
      BY <1>0, <2>1, <3>1, SumRemove, SumInt
    <3> QED
      BY <2>1, <3>2, <3>3, <3>4
  <2>3. k * q >= s * s
    BY <1>2, <2>1
  <2>4. k = 0 => s = 0 /\ q = 0
    <3>1. k = 0 => T \ {x} = {}
      BY FS_Subset, FS_EmptySet
    <3> QED
      BY <3>1, SumEmpty
  <2>5. (k + 1) * (y * y + q) >= (y + s) * (y + s)
    <3> HIDE DEF k, s, q, y
    <3> QED
      BY <2>2, <2>3, <2>4, CauchyStep
  <2> QED
    BY <2>2, <2>5
<1>3. S \in Good
  <2> HIDE DEF Good
  <2> QED
    BY <1>1, <1>2, OneByOne
<1> QED
  BY <1>3
-----------------------------------------------------------------------------
(* The payload of the injector begins where the validator looks for it. *)
LEMMA Payload == PayloadStart = 24
BY DEF PayloadStart, PackedWidths

LEMMA ReadsOwn == ASSUME NEW n \in Nat, NEW size \in 0 .. BlastFrame(n).size
                  PROVE  ReadsOwnBytes(n, size)
<1> DEFINE frame == Prefix(BlastFrame(n), size)
<1>1. /\ BlastFrame(n).size = 24 + n * 4
      /\ frame.size = size /\ frame.magic = "SLAB" /\ frame.dimensions = n
  BY Payload DEF BlastFrame, Prefix, Float32Size
<1>2. size \in Nat /\ size <= 24 + n * 4
  BY <1>1
<1>3. MaxDimensions \in Nat \ {0}
  BY DimensionsAssumption
<1>4. ValidateFrame(frame) <=> size = BlastFrame(n).size /\ n \in 1 .. MaxDimensions
  <2> HIDE DEF frame
  <2> QED
    BY <1>1, <1>2, <1>3
       DEF ValidateFrame, RequiredFrameBytes, SlabHeaderSize, Float32Size
<1>5. ValidateFrame(frame) =>
         ExtractFeatures(frame, n) = [i \in 1 .. n |-> PayloadStart + (i - 1) * Float32Size]
  <2> SUFFICES ASSUME ValidateFrame(frame)
               PROVE  ExtractFeatures(frame, n)
                         = [i \in 1 .. n |-> PayloadStart + (i - 1) * Float32Size]
    OBVIOUS
  <2> HIDE DEF frame
  <2>1. ~ (frame.size < RequiredFrameBytes(n))
    BY <1>1, <1>2, <1>4 DEF RequiredFrameBytes, SlabHeaderSize, Float32Size
  <2> QED
    BY <2>1, Payload DEF ExtractFeatures, SlabHeaderSize
<1>6. ASSUME NEW d \in 0 .. MaxDimensions + 1, NEW i \in DOMAIN ExtractFeatures(frame, d)
      PROVE  ExtractFeatures(frame, d)[i] + Float32Size <= size
  <2> HIDE DEF frame
  <2>1. CASE size < RequiredFrameBytes(d)
    <3>1. ExtractFeatures(frame, d) = <<>>
      BY <1>1, <2>1 DEF ExtractFeatures
    <3> QED
      BY <3>1
  <2>2. CASE ~ (size < RequiredFrameBytes(d))
    <3>1. ExtractFeatures(frame, d) = [k \in 1 .. d |-> SlabHeaderSize + (k - 1) * Float32Size]
      BY <1>1, <2>2 DEF ExtractFeatures
    <3>2. d \in Nat /\ i \in 1 .. d
      BY <1>3, <3>1
    <3>3. 24 + (i - 1) * 4 + 4 <= size
      BY <1>2, <2>2, <3>2 DEF RequiredFrameBytes, SlabHeaderSize, Float32Size
    <3> QED
      BY <3>1, <3>2, <3>3 DEF SlabHeaderSize, Float32Size
  <2> QED
    BY <2>1, <2>2
<1> QED
  BY <1>4, <1>5, <1>6 DEF ReadsOwnBytes

(* What the injector sent, and what of it arrived. *)
Arrived == unit = "handshake" /\ input # <<>> =>
              input[1] \in Nat /\ input[2] \in 0 .. BlastFrame(input[1]).size

(* Of the frames of the injector exactly the whole ones of an admissible dimension *)
(* pass the validator, what is extracted is the payload that was packed, and no     *)
(* float is read past the bytes that arrived: for every limit on the dimension,    *)
(* every dimension sent and every place the frame was cut off at.                 *)
THEOREM HandshakeHolds == Spec => []HandshakeReadsOwnBytes
<1>1. Init => Arrived
  BY DEF Init, Arrived
<1>2. Arrived /\ [Next]_vars => Arrived'
  <2> SUFFICES ASSUME Arrived, [Next]_vars, unit' = "handshake", input' # <<>>
               PROVE  input'[1] \in Nat /\ input'[2] \in 0 .. BlastFrame(input'[1]).size
    BY DEF Arrived, BlastFrame
  <2>1. CASE UNCHANGED <<unit, input>>
    BY <2>1 DEF Arrived
  <2>2. CASE /\ unit = "handshake"
             /\ \E n \in 0 .. MaxDimensions + 1 : \E size \in 0 .. BlastFrame(n).size :
                   input' = <<n, size>>
    <3>1. PICK n \in 0 .. MaxDimensions + 1 : \E size \in 0 .. BlastFrame(n).size :
                  input' = <<n, size>>
      BY <2>2
    <3>2. PICK size \in 0 .. BlastFrame(n).size : input' = <<n, size>>
      BY <3>1
    <3>3. n \in Nat /\ input'[1] = n /\ input'[2] = size
      BY <3>2, DimensionsAssumption
    <3> QED
      BY <3>2, <3>3
  <2> QED
    BY <2>1, <2>2 DEF Next, vars
<1>3. Arrived => HandshakeReadsOwnBytes
  BY ReadsOwn DEF Arrived, HandshakeReadsOwnBytes
<1> QED
  BY <1>1, <1>2, <1>3, PTL DEF Spec
-----------------------------------------------------------------------------
Measured == snapshots \in Seq(Inspector!Snapshot)

LEMMA MeasuredInv == /\ Init => Measured
                     /\ Measured /\ [Next]_vars => Measured'
<1>1. Init => Measured
  BY DEF Init, Inspector!Init, Measured
<1>2. Measured /\ [Next]_vars => Measured'
  <2> SUFFICES ASSUME Measured, [Next]_vars PROVE Measured'
    OBVIOUS
  <2>1. CASE UNCHANGED snapshots
    BY <2>1 DEF Measured
  <2>2. CASE Inspector!Next
    <3>1. Inspector!Snapshot' = Inspector!Snapshot
      BY DEF Inspector!Snapshot
    <3>2. \/ snapshots' = <<>>
          \/ \E s \in Inspector!Snapshot : snapshots' = Append(snapshots, s)
      BY <2>2 DEF Inspector!Next, Inspector!Reset, Inspector!RecordLiveSnapshot
    <3>3. CASE snapshots' = <<>>
      BY <3>1, <3>3 DEF Measured
    <3>4. ASSUME NEW s \in Inspector!Snapshot, snapshots' = Append(snapshots, s)
          PROVE  snapshots' \in Seq(Inspector!Snapshot)
      <4>1. snapshots \in Seq(Inspector!Snapshot)
        BY DEF Measured
      <4> QED
        BY <3>4, <4>1, Grown
    <3> QED
      BY <3>1, <3>2, <3>3, <3>4 DEF Measured
  <2> QED
    BY <2>1, <2>2 DEF Next, vars
<1> QED
  BY <1>1, <1>2

(* The margin of the barrier over the run. *)
Barrier == [i \in 1 .. Len(snapshots) |-> MaxSafe - snapshots[i].temp]

LEMMA Degrees == ASSUME Measured
                 PROVE  /\ Len(snapshots) \in Nat /\ MaxSafe \in Nat
                        /\ snapshots = <<>> <=> Len(snapshots) = 0
                        /\ \A i \in 1 .. Len(snapshots) :
                              snapshots[i].temp \in Int /\ Barrier[i] = MaxSafe - snapshots[i].temp
<1>1. /\ Len(snapshots) \in Nat
      /\ snapshots = <<>> <=> Len(snapshots) = 0
  BY DEF Measured
<1>2. ASSUME NEW i \in 1 .. Len(snapshots) PROVE snapshots[i].temp \in Int
  <2>1. snapshots[i] \in Inspector!Snapshot
    BY <1>2 DEF Measured
  <2> QED
    BY <2>1, PlantAssumption DEF Inspector!Snapshot
<1> QED
  BY <1>1, <1>2, PlantAssumption DEF Barrier

LEMMA MinOf == ASSUME NEW S, \E m \in S : \A y \in S : m <= y
               PROVE  Inspector!Min(S) \in S /\ \A y \in S : Inspector!Min(S) <= y
BY DEF Inspector!Min

LEMMA FarAway == Inspector!Far \in Nat
BY DEF Inspector!Far

(* What the certificate computes: the smallest margin, and the conditions at each *)
(* point, where the derivative is ten times the difference of two margins.        *)
LEMMA Margin == ASSUME Measured, snapshots # <<>>
                PROVE  LET m == Inspector!VerifyTrajectory(Inspector!CbfTrajectory).margin
                       IN  m >= 0 <=> \A i \in 1 .. Len(snapshots) : Barrier[i] >= 0
<1> DEFINE n == Len(snapshots)
           points == Inspector!CbfTrajectory
           S == {Inspector!Far} \cup {points[i].h : i \in 1 .. n}
<1>1. /\ n \in Nat /\ n # 0 /\ Len(points) = n
      /\ \A i \in 1 .. n : Barrier[i] \in Int /\ points[i].h = Barrier[i]
  BY Degrees DEF Inspector!CbfTrajectory, Barrier
<1>2. Inspector!VerifyTrajectory(points).margin = Inspector!Min(S)
  <2> HIDE DEF points
  <2> QED
    BY <1>1 DEF Inspector!VerifyTrajectory
<1> HIDE DEF n, points
<1>3. Holds(S, n, Barrier, Inspector!Far) /\ S \in SUBSET Int
  BY <1>1, FarAway DEF Holds
<1>4. \E m \in S : \A y \in S : m <= y
  <2> HIDE DEF S
  <2> QED
    <3>1. n \in Nat /\ Inspector!Far \in Int /\ Holds(S, n, Barrier, Inspector!Far)
      BY <1>1, <1>3, FarAway
    <3>2. \A i \in 1 .. n : Barrier[i] \in Int
      BY <1>1
    <3> HIDE DEF n
    <3> QED
      BY <3>1, <3>2, LeastValue
<1>5. Inspector!Min(S) \in S /\ \A y \in S : Inspector!Min(S) <= y
  <2> HIDE DEF S
  <2> QED
    BY <1>4, MinOf
<1>6. Inspector!Min(S) >= 0 <=> \A i \in 1 .. n : Barrier[i] >= 0
  <2> HIDE DEF S
  <2> QED
    BY <1>1, <1>3, <1>5, FarAway DEF Holds
<1> QED
  BY <1>2, <1>6 DEF n, points

LEMMA Slope == ASSUME NEW x \in Int, NEW y \in Int
               PROVE  2 * (10 * (x - y)) + x < 0 <=> 21 * x < 20 * y
OBVIOUS

LEMMA Conditions ==
    ASSUME Measured
    PROVE  LET points == Inspector!CbfTrajectory
           IN  \A i \in 1 .. Len(snapshots) :
                  Inspector!Breaches(points[i]) <=>
                      \/ Barrier[i] < 0
                      \/ i > 1 /\ 21 * Barrier[i] < 20 * Barrier[i - 1]
<1> SUFFICES ASSUME NEW i \in 1 .. Len(snapshots)
             PROVE  Inspector!Breaches(Inspector!CbfTrajectory[i]) <=>
                      \/ Barrier[i] < 0
                      \/ i > 1 /\ 21 * Barrier[i] < 20 * Barrier[i - 1]
  OBVIOUS
<1>1. i \in Nat /\ i >= 1 /\ (i > 1 => i - 1 \in 1 .. Len(snapshots))
  BY Degrees
<1>2. /\ Barrier[i] \in Int
      /\ i > 1 => Barrier[i - 1] \in Int
      /\ i > 1 => snapshots[i].temp - snapshots[i - 1].temp = Barrier[i - 1] - Barrier[i]
  BY <1>1, Degrees
<1>3. /\ Inspector!CbfTrajectory[i].h = Barrier[i]
      /\ i = 1 => Inspector!CbfTrajectory[i].hDot = 0
      /\ i > 1 => Inspector!CbfTrajectory[i].hDot = 10 * (Barrier[i] - Barrier[i - 1])
  BY <1>1, <1>2, Degrees DEF Inspector!CbfTrajectory
<1>4. Inspector!Condition(Inspector!CbfTrajectory[i]) < 0 <=>
         IF i > 1 THEN 21 * Barrier[i] < 20 * Barrier[i - 1] ELSE Barrier[i] < 0
  <2>1. CASE i > 1
    BY <1>2, <1>3, <2>1, Slope DEF Inspector!Condition
  <2>2. CASE ~ (i > 1)
    BY <1>1, <1>2, <1>3, <2>2 DEF Inspector!Condition
  <2> QED
    BY <2>1, <2>2
<1> QED
  BY <1>1, <1>3, <1>4 DEF Inspector!Breaches

(* A margin that starts at 0 or more and never loses more than a 21st stays there. *)
LEMMA NeverBelow == ASSUME NEW n \in Nat, NEW h, \A i \in 1 .. n : h[i] \in Int, n # 0,
                           h[1] >= 0, \A i \in 2 .. n : 21 * h[i] >= 20 * h[i - 1]
                    PROVE  \A i \in 1 .. n : h[i] >= 0
<1> DEFINE Bad == {i \in 1 .. n : h[i] < 0}
<1>1. Bad = {}
  <2> SUFFICES ASSUME Bad # {} PROVE FALSE
    OBVIOUS
  <2>1. Bad \in SUBSET Nat
    OBVIOUS
  <2>2. PICK k \in Bad : \A j \in Bad : k <= j
    <3> HIDE DEF Bad
    <3> QED
      BY <2>1, Least
  <2>3. k \in 2 .. n /\ k - 1 \in 1 .. n /\ k - 1 \notin Bad
    BY <2>2
  <2>4. h[k] < 0 /\ h[k - 1] >= 0 /\ h[k] \in Int /\ h[k - 1] \in Int
    BY <2>2, <2>3
  <2>5. 21 * h[k] >= 20 * h[k - 1]
    BY <2>3
  <2> QED
    BY <2>4, <2>5
<1> QED
  BY <1>1

LEMMA Certificate == Measured => CertificateMeaning
<1> SUFFICES ASSUME Measured PROVE CertificateMeaning
  OBVIOUS
<1> DEFINE n == Len(snapshots)
           points == Inspector!CbfTrajectory
           card == Inspector!VerifyTrajectory(points)
           Steady == \A i \in 2 .. n : 21 * Barrier[i] >= 20 * Barrier[i - 1]
<1>1. /\ n \in Nat /\ Len(points) = n
      /\ snapshots = <<>> <=> n = 0
  BY Degrees DEF Inspector!CbfTrajectory
<1>2. \A i \in 1 .. n : Barrier[i] \in Int
  BY Degrees
<1>3. card.safe <=> /\ n > 0
                    /\ \A i \in 1 .. n : ~ Inspector!Breaches(points[i])
                    /\ card.margin >= 0
  <2> HIDE DEF points
  <2> QED
    BY <1>1 DEF Inspector!VerifyTrajectory
<1>4. CASE n = 0
  BY <1>1, <1>3, <1>4 DEF CertificateMeaning, Inspector!CertificateMeaning
<1>5. CASE n # 0
  <2>1. card.margin >= 0 <=> \A i \in 1 .. n : Barrier[i] >= 0
    BY <1>1, <1>5, Margin
  <2>2. \A i \in 1 .. n : Inspector!Breaches(points[i]) <=>
            Barrier[i] < 0 \/ (i > 1 /\ 21 * Barrier[i] < 20 * Barrier[i - 1])
    BY Conditions
  <2> HIDE DEF n, points, card
  <2>3. ASSUME card.safe PROVE Barrier[1] >= 0 /\ Steady
    <3>1. \A i \in 1 .. n : Barrier[i] >= 0
      BY <1>3, <2>1, <2>3
    <3>2. Barrier[1] >= 0
      BY <1>1, <1>5, <3>1
    <3>3. ASSUME NEW i \in 2 .. n PROVE 21 * Barrier[i] >= 20 * Barrier[i - 1]
      <4>1. i \in 1 .. n /\ i > 1 /\ i - 1 \in 1 .. n
        BY <1>1
      <4>2. ~ (21 * Barrier[i] < 20 * Barrier[i - 1])
        BY <1>3, <2>2, <2>3, <4>1
      <4>3. Barrier[i] \in Int /\ Barrier[i - 1] \in Int
        BY <1>2, <4>1
      <4> QED
        BY <4>2, <4>3
    <3> QED
      BY <3>2, <3>3
  <2>4. ASSUME Barrier[1] >= 0, Steady PROVE card.safe
    <3>1. \A i \in 1 .. n : Barrier[i] >= 0
      BY <1>1, <1>2, <1>5, <2>4, NeverBelow
    <3>2. ASSUME NEW i \in 1 .. n PROVE ~ Inspector!Breaches(points[i])
      <4>1. ~ (Barrier[i] < 0)
        BY <1>2, <3>1
      <4>2. ASSUME i > 1 PROVE ~ (21 * Barrier[i] < 20 * Barrier[i - 1])
        <5>1. i \in 2 .. n /\ i - 1 \in 1 .. n
          BY <1>1, <4>2
        <5>2. Barrier[i] \in Int /\ Barrier[i - 1] \in Int
          BY <1>2, <5>1
        <5>3. 21 * Barrier[i] >= 20 * Barrier[i - 1]
          BY <2>4, <5>1
        <5> QED
          BY <5>2, <5>3
      <4> QED
        BY <2>2, <4>1, <4>2
    <3> QED
      BY <1>1, <1>3, <1>5, <2>1, <3>1, <3>2
  <2>5. card.safe <=> snapshots # <<>> /\ Barrier[1] >= 0 /\ Steady
    BY <1>1, <1>5, <2>3, <2>4
  <2> QED
    BY <2>5 DEF CertificateMeaning, Inspector!CertificateMeaning, card, points, n, Barrier
<1> QED
  BY <1>4, <1>5

(* For runs of every length and every limit of the plant, the certificate of      *)
(* verify_trajectory says safe exactly when the run starts inside the safe set and *)
(* never loses more than a 21st of its margin from one snapshot to the next.      *)
THEOREM CertificateMeans == Spec => []CertificateMeaning
<1>1. Init => Measured
  BY MeasuredInv
<1>2. Measured /\ [Next]_vars => Measured'
  BY MeasuredInv
<1>3. Measured => CertificateMeaning
  BY Certificate
<1> QED
  BY <1>1, <1>2, <1>3, PTL DEF Spec
-----------------------------------------------------------------------------
(* The greatest of 0 and the temperatures stays within a limit exactly when every  *)
(* temperature does, whichever operator computes it.                             *)
LEMMA MaxOf == ASSUME NEW S, \E m \in S : \A y \in S : m >= y
               PROVE  /\ Inspector!Max(S) \in S /\ \A y \in S : Inspector!Max(S) >= y
                      /\ Hil!Max(S) \in S /\ \A y \in S : Hil!Max(S) >= y
BY DEF Inspector!Max, Hil!Max

LEMMA Hottest == ASSUME NEW n \in Nat, NEW f, \A i \in 1 .. n : f[i] \in Int,
                        NEW S, Holds(S, n, f, 0), NEW limit \in Nat
                 PROVE  /\ Inspector!Max(S) \in Int /\ Hil!Max(S) \in Int
                        /\ Inspector!Max(S) <= limit <=> \A i \in 1 .. n : f[i] <= limit
                        /\ Hil!Max(S) <= limit <=> \A i \in 1 .. n : f[i] <= limit
<1>1. \E m \in S : \A y \in S : m >= y
  BY GreatestValue
<1>2. /\ Inspector!Max(S) \in S /\ \A y \in S : Inspector!Max(S) >= y
      /\ Hil!Max(S) \in S /\ \A y \in S : Hil!Max(S) >= y
  BY <1>1, MaxOf
<1>3. S \in SUBSET Int
  BY DEF Holds
<1>4. ASSUME NEW m \in S, \A y \in S : m >= y
      PROVE  m <= limit <=> \A i \in 1 .. n : f[i] <= limit
  <2>1. m \in Int
    BY <1>3
  <2>2. ASSUME m <= limit, NEW i \in 1 .. n PROVE f[i] <= limit
    <3>1. f[i] \in S /\ f[i] \in Int
      BY DEF Holds
    <3>2. m >= f[i]
      BY <1>4, <3>1
    <3> QED
      BY <2>1, <2>2, <3>1, <3>2
  <2>3. ASSUME \A i \in 1 .. n : f[i] <= limit PROVE m <= limit
    <3>1. m = 0 \/ \E i \in 1 .. n : m = f[i]
      BY DEF Holds
    <3> QED
      BY <2>3, <3>1
  <2> QED
    BY <2>2, <2>3
<1> QED
  BY <1>2, <1>3, <1>4

LEMMA Verdicts == Measured => VerdictsAgree
<1> SUFFICES ASSUME Measured, snapshots # <<>> PROVE VerdictsAgree
  BY DEF VerdictsAgree, Inspector!EvaluateLiveRun
<1> DEFINE n == Len(snapshots)
           temps == [i \in 1 .. n |-> snapshots[i].temp]
           points == [i \in 1 .. n |-> [time |-> i, temp |-> snapshots[i].temp]]
           S == {0} \cup {snapshots[i].temp : i \in 1 .. n}
           T == {0} \cup {points[i].temp : i \in 1 .. n}
           card == Inspector!EvaluateLiveRun
           hil == Hil!ComputeHilMetrics(points, 0)
<1>1. /\ n \in Nat /\ n # 0 /\ MaxSafe \in Nat
      /\ Len(points) = n /\ points # <<>>
      /\ \A i \in 1 .. n : temps[i] \in Int
  BY Degrees
<1>2. /\ card.valid
      /\ card.safe <=> Inspector!Max(S) <= MaxSafe
      /\ card.margin = Inspector!VerifyTrajectory(Inspector!CbfTrajectory).margin
  BY DEF Inspector!EvaluateLiveRun, Inspector!MaxTemp
<1>3. hil.violated <=> Hil!Max(T) > MaxSafe
  <2> HIDE DEF points
  <2> QED
    BY <1>1 DEF Hil!ComputeHilMetrics
<1>4. Holds(S, n, temps, 0) /\ Holds(T, n, temps, 0)
  BY DEF Holds
<1>5. card.margin >= 0 <=> \A i \in 1 .. n : temps[i] <= MaxSafe
  <2>1. \A i \in 1 .. n : temps[i] = snapshots[i].temp /\ Barrier[i] = MaxSafe - temps[i]
    BY Degrees
  <2>2. card.margin >= 0 <=> \A i \in 1 .. n : Barrier[i] >= 0
    BY <1>2, Margin
  <2>3. ASSUME NEW i \in 1 .. n PROVE Barrier[i] >= 0 <=> temps[i] <= MaxSafe
    <3>1. Barrier[i] = MaxSafe - temps[i] /\ temps[i] \in Int
      BY <1>1, <2>1
    <3> HIDE DEF temps
    <3> QED
      BY <1>1, <3>1
  <2> HIDE DEF temps, card, n
  <2> QED
    BY <2>2, <2>3
<1> HIDE DEF n, temps, points, S, T, card, hil
<1>6. /\ card.safe <=> \A i \in 1 .. n : temps[i] <= MaxSafe
      /\ ~ hil.violated <=> \A i \in 1 .. n : temps[i] <= MaxSafe
  <2>1. /\ Inspector!Max(S) <= MaxSafe <=> \A i \in 1 .. n : temps[i] <= MaxSafe
        /\ Hil!Max(T) \in Int /\ (Hil!Max(T) <= MaxSafe <=> \A i \in 1 .. n : temps[i] <= MaxSafe)
    BY <1>1, <1>4, Hottest
  <2> QED
    BY <1>1, <1>2, <1>3, <2>1
<1> QED
  BY <1>5, <1>6 DEF VerdictsAgree, n, points, card, hil

(* For runs of every length, the highest temperature, the margin of the barrier    *)
(* and the co-simulation agree on whether the plant stayed safe, whatever limit    *)
(* that is not negative it has.                                                  *)
THEOREM VerdictsCoincide == Spec => []VerdictsAgree
<1>1. Init => Measured
  BY MeasuredInv
<1>2. Measured /\ [Next]_vars => Measured'
  BY MeasuredInv
<1>3. Measured => VerdictsAgree
  BY Verdicts
<1> QED
  BY <1>1, <1>2, <1>3, PTL DEF Spec
-----------------------------------------------------------------------------
LEMMA Scale == ASSUME NEW k \in Nat, NEW x \in Int, NEW y \in Int, x <= y
               PROVE  k * x <= k * y /\ k * x \in Int /\ k * y \in Int
<1> DEFINE d == y - x
<1>1. d \in Nat /\ y = x + d
  OBVIOUS
<1> HIDE DEF d
<1>2. k * (x + d) = k * x + k * d /\ k * d \in Nat /\ k * x \in Int
  BY <1>1
<1> QED
  BY <1>1, <1>2

LEMMA Whole == ASSUME NEW len \in Nat, NEW b \in Nat \ {0}
               PROVE  len \div b \in Nat /\ (len \div b) * b <= len
OBVIOUS

(* What the variance of n numbers keeps of one of them, m, when the other ones have  *)
(* sum t and sum of squares p.                                                   *)
LEMMA VarianceOf == ASSUME NEW n \in Int, NEW m \in Int, NEW t \in Int, NEW p \in Int
                    PROVE  (n - 1) * (n * (m * m + p) - (m + t) * (m + t))
                             = n * ((n - 1) * p - t * t) + (n * m - (m + t)) * (n * m - (m + t))
OBVIOUS

(* Of two numbers from 0 on, the greater has the greater square. *)
LEMMA GreaterSquare == ASSUME NEW b \in Nat, NEW a \in Int, b < a
                       PROVE  a * a \in Nat /\ b * b \in Nat /\ b * b < a * a
<1> DEFINE d == a - b
<1>1. d \in Nat \ {0} /\ a = b + d
  OBVIOUS
<1> HIDE DEF d
<1>2. /\ (b + d) * (b + d) = b * b + 2 * (b * d) + d * d
      /\ b * b \in Nat /\ b * d \in Nat /\ d * d \in Nat /\ d * d > 0
  BY <1>1
<1> QED
  BY <1>1, <1>2

(* The bound is not met when one of 2 to 74 maxima, m, is beyond the deadline: the   *)
(* others have sum t and sum of squares p.  For n = 75 the last step fails.        *)
LEMMA Outlier ==
    ASSUME NEW n \in 2 .. 74, NEW m \in Int, NEW t \in Int, NEW p \in Int, NEW D \in Int,
           (n - 1) * p >= t * t, m + t <= n * D, D < m
    PROVE  ~ (CSquared * n * (n * (m * m + p) - (m + t) * (m + t))
                <= 10 * (n - 1) * ((n * D - (m + t)) * (n * D - (m + t))))
<1> DEFINE k == n - 1
           l == 10 * k
           a == n * m - (m + t)
           b == n * D - (m + t)
           v == n * (m * m + p) - (m + t) * (m + t)
           c == CSquared * n
           aa == a * a
           bb == b * b
           kv == k * v
<1>1. k \in Nat /\ l \in Nat /\ n \in Nat /\ c \in Nat /\ c = 727 * n /\ a \in Int /\ b \in Nat /\ v \in Int
  BY DEF CSquared
<1>2. b < a
  <2>1. n * D < n * m /\ n * D \in Int /\ n * m \in Int
    <3>1. n * (m - D) = n * m - n * D /\ n * (m - D) > 0 /\ n * m \in Int /\ n * D \in Int
      BY <1>1
    <3> QED
      BY <3>1
  <2> QED
    BY <2>1
<1>3. kv >= aa
  <2> DEFINE e == k * p - t * t
  <2>1. kv = n * e + aa
    BY <1>1, VarianceOf
  <2>2. e \in Nat
    BY <1>1
  <2> HIDE DEF e, kv, aa
  <2>3. n * e \in Nat
    BY <1>1, <2>2
  <2>4. aa \in Int
    BY <1>1 DEF aa
  <2> QED
    BY <2>1, <2>3, <2>4
<1> SUFFICES ASSUME c * v <= l * bb PROVE FALSE
  OBVIOUS
<1> HIDE DEF a, b, v, c, k, l
<1>4. aa \in Nat /\ bb \in Nat /\ bb < aa
  BY <1>1, <1>2, GreaterSquare
<1> HIDE DEF aa, bb, kv
<1>5. kv \in Int /\ l * bb \in Int /\ c * v \in Int
  BY <1>1, <1>4 DEF kv
<1>6. k * (c * v) <= k * (l * bb)
  BY <1>1, <1>5, Scale
<1>7. c * aa <= c * kv
  BY <1>1, <1>3, <1>4, <1>5, Scale
<1>8. k * (c * v) = c * kv
  BY <1>1 DEF kv
<1>9. k * (l * bb) <= c * bb
  <2>1. k * l <= c /\ k * l \in Nat
    <3>1. k * k <= 73 * k /\ k * k \in Nat
      <4>1. k <= 73
        BY DEF k
      <4>2. k * k <= k * 73
        BY <1>1, <4>1, Scale
      <4> QED
        BY <1>1, <4>2
    <3>2. 730 * k <= 727 * n /\ k * l = 10 * (k * k)
      BY <1>1 DEF k, l
    <3> DEFINE kl == k * l
               sq == k * k
    <3>3. sq <= 73 * k /\ sq \in Nat /\ kl = 10 * sq
      BY <3>1, <3>2
    <3> HIDE DEF kl, sq
    <3>4. kl <= c /\ kl \in Nat
      BY <1>1, <3>2, <3>3
    <3> QED
      BY <3>4 DEF kl
  <2> DEFINE kk == k * l
  <2>2. bb * kk <= bb * c
    <3> HIDE DEF kk
    <3> QED
      BY <1>1, <1>4, <2>1, Scale DEF kk
  <2>3. k * (l * bb) = bb * (k * l) /\ bb * c = c * bb
    BY <1>1, <1>4
  <2> QED
    BY <2>2, <2>3
<1>10. c * bb < c * aa
  <2>1. bb + 1 <= aa /\ bb + 1 \in Int /\ aa \in Int
    BY <1>4
  <2>2. c * (bb + 1) <= c * aa
    BY <1>1, <2>1, Scale
  <2>3. c * (bb + 1) = c * bb + c /\ c * bb \in Int /\ c * aa \in Int /\ c > 0
    BY <1>1, <1>4
  <2> QED
    BY <1>1, <2>2, <2>3
<1> DEFINE w == k * (c * v)
           x == k * (l * bb)
           y == c * bb
           z == c * aa
<1>11. w <= x /\ x <= y /\ y < z /\ z <= w
  BY <1>6, <1>7, <1>8, <1>9, <1>10
<1>12. w \in Int /\ x \in Int /\ y \in Int /\ z \in Int
  BY <1>1, <1>4, <1>5
<1> HIDE DEF w, x, y, z
<1> QED
  BY <1>11, <1>12

(* The inspector's engine is EvtEngine. *)
LEMMA SameBound == ASSUME NEW samples
                   PROVE  /\ Inspector!NumBlocks(samples) = NumBlocks(samples)
                          /\ Inspector!BoundMeetsDeadline(samples) <=> BoundMeetsDeadline(samples)
BY DEF Inspector!NumBlocks, NumBlocks, Inspector!BoundMeetsDeadline, BoundMeetsDeadline,
       Inspector!Maximum, Maximum, Inspector!Block, Block, Inspector!Max, Max,
       Inspector!CSquared, CSquared, Inspector!Square, Square,
       Inspector!SumFunction, SumFunction, Inspector!FoldFunctionOnSet, FoldFunctionOnSet,
       Inspector!MapThenFoldSet, MapThenFoldSet, Inspector!SumFunctionOnSet, SumFunctionOnSet

LEMMA SumIs == ASSUME NEW f PROVE SumFunction(f) = SumFunctionOnSet(f, DOMAIN f)
BY DEF SumFunction, SumFunctionOnSet

LEMMA NoneBeyond ==
    ASSUME NEW n \in 2 .. 74, NEW x, \A i \in 1 .. n : x[i] \in Int,
           NEW g, \A i \in 1 .. n : g[i] = x[i] * x[i],
           NEW s, s = SumFunctionOnSet(x, 1 .. n), NEW q, q = SumFunctionOnSet(g, 1 .. n),
           NEW D \in Int, s <= n * D,
           CSquared * n * (n * q - s * s) <= 10 * (n - 1) * ((n * D - s) * (n * D - s)),
           NEW i \in 1 .. n
    PROVE  x[i] <= D
<1> DEFINE m == x[i]
           S == 1 .. n
           O == S \ {i}
           t == SumFunctionOnSet(x, O)
           p == SumFunctionOnSet(g, O)
<1>1. /\ IsFiniteSet(S) /\ IsFiniteSet(O) /\ Cardinality(O) = n - 1
      /\ \A j \in S : x[j] \in Int /\ g[j] \in Int /\ g[j] = x[j] * x[j]
  <2>1. IsFiniteSet(S) /\ Cardinality(S) = n
    BY FS_Interval
  <2>2. IsFiniteSet(O) /\ Cardinality(O) = n - 1
    <3> HIDE DEF S
    <3> QED
      BY <2>1, Smaller DEF S
  <2>3. \A j \in S : x[j] \in Int /\ g[j] = x[j] * x[j]
    OBVIOUS
  <2> QED
    BY <2>1, <2>2, <2>3
<1>2. s = m + t /\ q = g[i] + p /\ g[i] = m * m
  <2>1. i \in S /\ s = SumFunctionOnSet(x, S) /\ q = SumFunctionOnSet(g, S)
    OBVIOUS
  <2>2. IsFiniteSet(S) /\ i \in S
    BY <1>1
  <2>3. \A j \in S : x[j] \in Int
    BY <1>1
  <2>4. \A j \in S : g[j] \in Int
    BY <1>1
  <2> HIDE DEF S, O, m, t, p
  <2>5. SumFunctionOnSet(x, S) = x[i] + SumFunctionOnSet(x, S \ {i})
    BY <2>2, <2>3, SumRemove
  <2>6. SumFunctionOnSet(g, S) = g[i] + SumFunctionOnSet(g, S \ {i})
    BY <2>2, <2>4, SumRemove
  <2> QED
    BY <1>1, <2>1, <2>5, <2>6 DEF S, O, m, t, p
<1>3. t \in Int /\ p \in Int /\ m \in Int /\ Cardinality(O) * p >= t * t
  <2>1. (\A j \in O : x[j] \in Int) /\ (\A j \in O : g[j] \in Int) /\ \A j \in O : g[j] = x[j] * x[j]
    BY <1>1
  <2>2. i \in S
    OBVIOUS
  <2> HIDE DEF O, S
  <2>3. t \in Int /\ p \in Int
    BY <1>1, <2>1, SumInt
  <2>4. Cardinality(O) * p >= t * t
    BY <1>1, <2>1, Cauchy
  <2> QED
    BY <1>1, <2>2, <2>3, <2>4
<1> HIDE DEF m, t, p, O, S
<1> SUFFICES ASSUME D < m PROVE FALSE
  BY <1>3 DEF m
<1>4. /\ (n - 1) * p >= t * t /\ m + t <= n * D
      /\ CSquared * n * (n * (m * m + p) - (m + t) * (m + t))
                <= 10 * (n - 1) * ((n * D - (m + t)) * (n * D - (m + t)))
  BY <1>1, <1>2, <1>3
<1> QED
  BY <1>3, <1>4, Outlier

LEMMA BlocksMeet ==
    ASSUME NEW samples, NEW len \in Nat, Len(samples) = len, \A k \in 1 .. len : samples[k] \in Int,
           NumBlocks(samples) \in 2 .. 74, BoundMeetsDeadline(samples),
           NEW k \in 1 .. NumBlocks(samples) * BlockSize
    PROVE  samples[k] <= Deadline
<1> DEFINE n == NumBlocks(samples)
           b == BlockSize
           x == [i \in 1 .. n |-> Maximum(samples, i)]
           g == [i \in 1 .. n |-> Square(x[i])]
<1>1. n \in 2 .. 74 /\ b \in Nat \ {0} /\ n * b <= len /\ n * b \in Nat
  <2>1. n = len \div b
    BY DEF NumBlocks
  <2>2. b \in Nat \ {0}
    BY BlockAssumption
  <2> HIDE DEF n, b
  <2> QED
    BY <2>1, <2>2, Whole DEF n
<1>2. ASSUME NEW i \in 1 .. n
      PROVE  /\ Maximum(samples, i) \in Int
             /\ \A j \in (i - 1) * b + 1 .. i * b : samples[j] \in Int /\ samples[j] <= Maximum(samples, i)
  <2> DEFINE I == (i - 1) * b + 1 .. i * b
             T == {samples[j] : j \in I}
  <2>1. (i - 1) * b \in Nat /\ i * b \in Nat /\ i * b <= n * b /\ i * b = (i - 1) * b + b
    <3> HIDE DEF n, b
    <3>1. i - 1 \in Nat /\ i \in Nat /\ i <= n /\ n \in Nat
      BY <1>1
    <3>2. b * i <= b * n /\ b * i = i * b /\ b * n = n * b
      BY <1>1, <3>1, Scale
    <3>3. (i - 1) * b \in Nat /\ i * b = (i - 1) * b + b
      BY <1>1, <3>1
    <3> QED
      BY <1>1, <3>1, <3>2, <3>3
  <2>2. IsFiniteSet(I) /\ \A j \in I : j \in 1 .. len
    <3> DEFINE lo == (i - 1) * b
               hi == i * b
               top == n * b
    <3>1. lo \in Nat /\ hi \in Nat /\ hi <= top /\ top <= len /\ top \in Nat
      BY <1>1, <2>1
    <3> HIDE DEF lo, hi, top
    <3>2. IsFiniteSet(lo + 1 .. hi)
      <4>1. lo + 1 \in Int /\ hi \in Int
        BY <3>1
      <4> QED
        BY <4>1, FS_Interval
    <3>3. \A j \in lo + 1 .. hi : j \in 1 .. len
      BY <3>1
    <3> QED
      BY <3>2, <3>3 DEF lo, hi
  <2>3. (i - 1) * b + 1 \in I
    <3> DEFINE lo == (i - 1) * b
               hi == i * b
    <3>1. lo \in Nat /\ hi = lo + b
      BY <2>1
    <3> HIDE DEF lo, hi
    <3>2. lo + 1 \in lo + 1 .. hi
      BY <1>1, <3>1
    <3> QED
      BY <3>2 DEF lo, hi
  <2>4. Maximum(samples, i) = Max(T)
    BY DEF Maximum, Block
  <2> HIDE DEF I, n, b
  <2>5. IsFiniteSet(T) /\ T \subseteq Int /\ T # {}
    <3>1. IsFiniteSet(T)
      BY <2>2, FiniteValues
    <3>2. \A j \in I : samples[j] \in Int
      BY <2>2
    <3> QED
      BY <2>3, <3>1, <3>2
  <2>6. \A j \in I : samples[j] \in T
    OBVIOUS
  <2> HIDE DEF T
  <2>7. Max(T) \in T /\ \A y \in T : Max(T) >= y
    BY <2>5, FiniteGreatest DEF Max
  <2>8. \A y \in T : y \in Int /\ y <= Max(T)
    BY <2>5, <2>7
  <2> QED
    BY <2>4, <2>5, <2>6, <2>7, <2>8 DEF I
<1>3. Deadline \in Int
  BY DeadlineAssumption
<1>4. \A i \in 1 .. n : x[i] = Maximum(samples, i) /\ x[i] \in Int /\ g[i] = x[i] * x[i]
  BY <1>2 DEF Square
<1> DEFINE s == SumFunctionOnSet(x, 1 .. n)
           q == SumFunctionOnSet(g, 1 .. n)
<1>5. /\ s <= n * Deadline
      /\ CSquared * n * (n * q - s * s) <= 10 * (n - 1) * ((n * Deadline - s) * (n * Deadline - s))
  <2>1. /\ SumFunction(x) <= n * Deadline
        /\ CSquared * n * (n * SumFunction(g) - Square(SumFunction(x)))
             <= 10 * (n - 1) * Square(n * Deadline - SumFunction(x))
    BY DEF BoundMeetsDeadline
  <2>2. DOMAIN x = 1 .. n /\ DOMAIN g = 1 .. n
    OBVIOUS
  <2> HIDE DEF x, g, n
  <2>3. SumFunction(x) = s /\ SumFunction(g) = q
    BY <2>2, SumIs
  <2> HIDE DEF s, q
  <2> QED
    BY <2>1, <2>3 DEF Square
<1>6. ASSUME NEW i \in 1 .. n PROVE x[i] <= Deadline
  <2> HIDE DEF x, g, n
  <2> QED
    BY <1>1, <1>3, <1>4, <1>5, NoneBeyond
<1> HIDE DEF x, g, n, b
<1>7. PICK i \in 1 .. n : k \in (i - 1) * b + 1 .. i * b
  <2>0. k \in 1 .. n * b
    BY DEF n, b
  <2> DEFINE T == {i \in Nat : k <= i * b}
  <2>1. n \in T
    BY <1>1, <2>0
  <2>2. PICK i \in T : \A j \in T : i <= j
    <3>1. T \subseteq Nat /\ T # {}
      BY <2>1
    <3> HIDE DEF T
    <3> QED
      BY <3>1, Least
  <2>3. i <= n /\ i \in Nat /\ i # 0
    <3>1. 0 * b = 0
      BY <1>1
    <3> QED
      BY <2>0, <2>1, <2>2, <3>1
  <2>4. ~ (k <= (i - 1) * b)
    <3>1. i - 1 \in Nat /\ ~ (i <= i - 1)
      BY <2>3
    <3> QED
      BY <2>2, <3>1
  <2>5. k <= i * b /\ (i - 1) * b \in Int /\ i * b \in Int /\ k \in Int
    BY <1>1, <2>0, <2>2, <2>3
  <2>6. i \in 1 .. n /\ k \in (i - 1) * b + 1 .. i * b
    <3> DEFINE lo == (i - 1) * b
               hi == i * b
    <3>1. lo \in Int /\ hi \in Int /\ k \in Int /\ k <= hi /\ ~ (k <= lo)
      BY <2>4, <2>5
    <3> HIDE DEF lo, hi
    <3>2. k \in lo + 1 .. hi
      BY <3>1
    <3> QED
      BY <1>1, <2>3, <3>2 DEF lo, hi
  <2> QED
    BY <2>6
<1>8. samples[k] \in Int /\ samples[k] <= Maximum(samples, i)
  BY <1>2, <1>7
<1>9. Maximum(samples, i) \in Int /\ Maximum(samples, i) <= Deadline
  BY <1>2, <1>4, <1>6
<1> QED
  BY <1>3, <1>8, <1>9

LEMMA Covers == Measured => SlaCoversCompleteBlocks
<1> DEFINE L == Inspector!LatencySamples
           len == Len(snapshots)
<1> SUFFICES ASSUME Measured, Inspector!NumBlocks(L) \in 2 .. 74, Inspector!EvaluateLiveRun.slaMet,
                    NEW k \in 1 .. Inspector!NumBlocks(L) * BlockSize
             PROVE  snapshots[k].latency <= Deadline
  BY DEF SlaCoversCompleteBlocks, Inspector!SlaCoversCompleteBlocks
<1>1. /\ len \in Nat /\ Len(L) = len
      /\ \A i \in 1 .. len : L[i] = snapshots[i].latency /\ L[i] \in Int
  <2>1. snapshots \in Seq(Inspector!Snapshot) /\ len \in Nat
    BY DEF Measured
  <2>2. \A p \in Inspector!Snapshot : p.latency \in Int
    <3> TAKE p \in Inspector!Snapshot
    <3>1. p.latency \in Latencies
      BY DEF Inspector!Snapshot
    <3>2. \A y \in Latencies : y \in Int
      BY LatencyAssumption
    <3> QED
      BY <3>1, <3>2
  <2>3. \A i \in 1 .. len : snapshots[i] \in Inspector!Snapshot
    BY <2>1
  <2> QED
    BY <2>1, <2>2, <2>3 DEF Inspector!LatencySamples
<1> HIDE DEF L
<1> DEFINE n == NumBlocks(L)
<1>2. n \in 2 .. 74 /\ k \in 1 .. n * BlockSize
  BY SameBound
<1>3. /\ BlockSize \in Nat \ {0} /\ n * BlockSize <= len /\ BlockSize <= n * BlockSize
      /\ n * BlockSize \in Nat
  <2>1. n = len \div BlockSize
    BY <1>1 DEF NumBlocks
  <2>2. BlockSize \in Nat \ {0}
    BY BlockAssumption
  <2> HIDE DEF n
  <2>3. n * BlockSize <= len
    BY <1>1, <2>1, <2>2, Whole
  <2>4. BlockSize * 1 <= BlockSize * n
    BY <1>2, <2>2, Scale
  <2> QED
    BY <1>2, <2>2, <2>3, <2>4
<1>4. BoundMeetsDeadline(L)
  <2>1. len >= BlockSize /\ snapshots # <<>> /\ n >= 2 /\ n \in Nat
    <3> HIDE DEF n
    <3>1. len >= BlockSize /\ len # 0 /\ n >= 2 /\ n \in Nat
      BY <1>1, <1>2, <1>3
    <3> QED
      BY <3>1
  <2>2. Inspector!WcetBound(L).deadlineSatisfied
    BY <2>1 DEF Inspector!EvaluateLiveRun, L
  <2>3. Inspector!NumBlocks(L) >= 2 /\ Len(L) >= BlockSize
    BY <1>1, <2>1, SameBound
  <2>4. Inspector!BoundMeetsDeadline(L)
    <3> HIDE DEF n
    <3> QED
      BY <2>2, <2>3 DEF Inspector!WcetBound
  <2> QED
    BY <2>4, SameBound
<1>5. k \in 1 .. len
  <2> DEFINE top == n * BlockSize
  <2>1. k \in 1 .. top /\ top <= len /\ top \in Nat
    BY <1>2, <1>3
  <2> HIDE DEF top
  <2> QED
    BY <1>1, <2>1
<1>6. L[k] <= Deadline
  <2> HIDE DEF n
  <2> QED
    BY <1>1, <1>2, <1>4, BlocksMeet DEF n
<1> QED
  BY <1>1, <1>5, <1>6

(* For every block size, every deadline and runs of every length that give 2 to 74  *)
(* complete blocks: a scorecard that says the deadlines are met contradicts no      *)
(* latency in a complete block, however large the outlier.                        *)
THEOREM DeadlinesHold == Spec => []SlaCoversCompleteBlocks
<1>1. Init => Measured
  BY MeasuredInv
<1>2. Measured /\ [Next]_vars => Measured'
  BY MeasuredInv
<1>3. Measured => SlaCoversCompleteBlocks
  BY Covers
<1> QED
  BY <1>1, <1>2, <1>3, PTL DEF Spec
-----------------------------------------------------------------------------
(* The last of the places of a fold from the left. *)
LEMMA LastOf == ASSUME NEW k \in Nat, NEW s \in SUBSET (1 .. k), k \in s
                PROVE  Max(s) = k
<1>1. \A y \in s : k >= y
  OBVIOUS
<1>2. \A x \in s : (\A y \in s : x >= y) => x = k
  OBVIOUS
<1> QED
  BY <1>1, <1>2 DEF Max

LEMMA MaxIn == ASSUME NEW n \in Nat, NEW s \in SUBSET (1 .. n), s # {}
               PROVE  Max(s) \in s
<1>1. \E k \in Nat : s \in SUBSET (1 .. k) /\ k \in s
  <2> DEFINE Bounds1 == {k \in Nat : s \in SUBSET (1 .. k)}
  <2>1. PICK k \in Bounds1 : \A j \in Bounds1 : k <= j
    BY Least
  <2>2. k # 0
    <3>1. 1 .. 0 = {}
      OBVIOUS
    <3>2. s \in SUBSET (1 .. k)
      BY <2>1
    <3> QED
      BY <3>1, <3>2
  <2>3. ASSUME k \notin s PROVE FALSE
    <3>1. s \in SUBSET (1 .. k - 1) /\ k - 1 \in Nat
      BY <2>1, <2>2, <2>3
    <3> QED
      BY <2>1, <3>1
  <2> QED
    BY <2>1, <2>3
<1> QED
  BY <1>1, LastOf

(* A fold from the left that keeps the time of the first hit: as long as the value  *)
(* is in open, that is, none has been found.  f folds every set of places, as        *)
(* FoldLeft does.                                                               *)
ScansFirst(f, n, hits, time, none, open) ==
    f = [s \in SUBSET (1 .. n) |->
            IF s = {} THEN none
            ELSE IF Max(s) \in hits /\ f[s \ {Max(s)}] \in open
                 THEN time[Max(s)] ELSE f[s \ {Max(s)}]]

Keeps(f, n, time, none) ==
    \A s \in SUBSET (1 .. n) : f[s] = none \/ \E i \in 1 .. n : f[s] = time[i]

LEMMA ScanExists ==
    ASSUME NEW n \in Nat, NEW hits, NEW time, NEW none, NEW open
    PROVE  \E f : ScansFirst(f, n, hits, time, none, open) /\ Keeps(f, n, time, none)
<1> DEFINE next(g, s) == IF s = {} THEN none
                         ELSE IF Max(s) \in hits /\ g[s \ {Max(s)}] \in open
                              THEN time[Max(s)] ELSE g[s \ {Max(s)}]
           V == {none} \cup {time[i] : i \in 1 .. n}
           upTo(g, k) == \A s \in SUBSET (1 .. k) : g[s] = next(g, s) /\ g[s] \in V
           Good == {k \in 0 .. n : \E g : upTo(g, k)}
<1>1. 0 \in Good
  <2> DEFINE g == [s \in {{}} |-> none]
  <2>1. 1 .. 0 = {}
    OBVIOUS
  <2>2. upTo(g, 0)
    BY <2>1
  <2> HIDE DEF g, upTo
  <2> QED
    BY <2>2
<1>2. ASSUME NEW k \in 0 .. n - 1, k \in Good PROVE k + 1 \in Good
  <2>1. PICK g : upTo(g, k)
    BY <1>2
  <2> DEFINE last == k + 1
             add(s) == IF last \in hits /\ g[s \ {last}] \in open
                       THEN time[last] ELSE g[s \ {last}]
             h == [s \in SUBSET (1 .. last) |-> IF last \in s THEN add(s) ELSE g[s]]
  <2>2. last \in 1 .. n /\ last \in Nat
    OBVIOUS
  <2>3. ASSUME NEW s \in SUBSET (1 .. last) PROVE h[s] = next(h, s) /\ h[s] \in V
    <3>1. CASE last \in s
      <4>1. Max(s) = last
        BY <2>2, <3>1, LastOf
      <4>2. s \ {last} \in SUBSET (1 .. k)
        OBVIOUS
      <4>3. h[s \ {last}] = g[s \ {last}] /\ g[s \ {last}] \in V
        BY <2>1, <4>2
      <4>4. h[s] = add(s)
        BY <3>1
      <4>5. time[last] \in V
        BY <2>2
      <4> HIDE DEF h, last, upTo, V
      <4> QED
        BY <3>1, <4>1, <4>3, <4>4, <4>5
    <3>2. CASE last \notin s
      <4>1. s \in SUBSET (1 .. k)
        BY <3>2
      <4>2. h[s] = g[s] /\ g[s] = next(g, s) /\ g[s] \in V
        BY <2>1, <3>2, <4>1
      <4>3. h[s \ {Max(s)}] = g[s \ {Max(s)}]
        <5>1. s \ {Max(s)} \in SUBSET (1 .. last) /\ last \notin s \ {Max(s)}
          BY <3>2
        <5> QED
          BY <5>1
      <4> HIDE DEF h, last, upTo, V
      <4> QED
        BY <4>2, <4>3
    <3> QED
      BY <3>1, <3>2
  <2>4. upTo(h, last)
    BY <2>3
  <2> HIDE DEF h, upTo
  <2> QED
    BY <2>2, <2>4
<1>3. n \in Good
  <2> HIDE DEF Good
  <2> QED
    BY <1>1, <1>2, UpTo
<1>4. PICK g : upTo(g, n)
  BY <1>3
<1> DEFINE f == [s \in SUBSET (1 .. n) |-> g[s]]
<1>5. ASSUME NEW s \in SUBSET (1 .. n) PROVE f[s] = next(f, s) /\ f[s] \in V
  BY <1>4
<1>6. f = [s \in SUBSET (1 .. n) |-> next(f, s)]
  BY <1>5
<1>7. Keeps(f, n, time, none)
  BY <1>5 DEF Keeps
<1> HIDE DEF f
<1> QED
  BY <1>6, <1>7 DEF ScansFirst

(* What it has kept when it ends. *)
LEMMA FirstHit ==
    ASSUME NEW n \in Nat, NEW hits \in SUBSET (1 .. n), NEW time, NEW none, NEW open,
           none \in open, \A i \in hits : time[i] \notin open,
           NEW f, ScansFirst(f, n, hits, time, none, open)
    PROVE  \/ hits = {} /\ f[1 .. n] = none
           \/ \E i \in hits : (\A j \in hits : i <= j) /\ f[1 .. n] = time[i]
<1> DEFINE first(k) == \E i \in hits : i <= k /\ (\A j \in hits : i <= j) /\ f[1 .. k] = time[i]
           Good == {k \in 0 .. n : ((\A j \in hits : k < j) /\ f[1 .. k] = none) \/ first(k)}
<1>1. 0 \in Good
  <2>1. 1 .. 0 = {} /\ f[{}] = none
    BY DEF ScansFirst
  <2> QED
    BY <2>1
<1>2. ASSUME NEW k \in 0 .. n - 1, k \in Good PROVE k + 1 \in Good
  <2> DEFINE last == k + 1
  <2>1. /\ last \in 1 .. n /\ last \in 0 .. n /\ last \in Nat
        /\ 1 .. last \in SUBSET (1 .. n) /\ 1 .. last # {} /\ last \in 1 .. last
        /\ (1 .. last) \ {last} = 1 .. k
    OBVIOUS
  <2>2. Max(1 .. last) = last
    BY <2>1, LastOf
  <2>3. f[1 .. last] = IF last \in hits /\ f[1 .. k] \in open THEN time[last] ELSE f[1 .. k]
    <3> HIDE DEF last
    <3> QED
      BY <2>1, <2>2 DEF ScansFirst
  <2>4. CASE first(k)
    <3>1. PICK i \in hits : i <= k /\ (\A j \in hits : i <= j) /\ f[1 .. k] = time[i]
      BY <2>4
    <3>2. f[1 .. last] = time[i] /\ i <= last
      BY <2>3, <3>1
    <3> QED
      BY <2>1, <3>1, <3>2
  <2>5. CASE (\A j \in hits : k < j) /\ f[1 .. k] = none
    <3>1. CASE last \in hits
      <4>1. f[1 .. last] = time[last] /\ \A j \in hits : last <= j
        BY <2>1, <2>3, <2>5, <3>1
      <4>2. first(last)
        BY <3>1, <4>1
      <4> QED
        BY <2>1, <4>2
    <3>2. CASE last \notin hits
      <4>1. f[1 .. last] = none
        BY <2>3, <2>5, <3>2
      <4>2. \A j \in hits : last < j
        BY <2>5, <3>2
      <4> QED
        BY <2>1, <4>1, <4>2
    <3> QED
      BY <3>1, <3>2
  <2> QED
    BY <1>2, <2>4, <2>5
<1>3. n \in Good
  <2> HIDE DEF Good
  <2> QED
    BY <1>1, <1>2, UpTo
<1> QED
  BY <1>3
-----------------------------------------------------------------------------
(* HilCoupler keeps the time of the first breach. *)
TooHot(points) == {i \in 1 .. Len(points) : points[i].temp > MaxSafe}

HilScan(f, points) ==
    f = [s \in SUBSET (DOMAIN points) |->
            IF s = {} THEN -1
            ELSE IF points[Max(s)].temp > MaxSafe /\ f[s \ {Max(s)}] < 0
                 THEN points[Max(s)].time ELSE f[s \ {Max(s)}]]

LEMMA HilScanDef == ASSUME NEW points
                    PROVE  Hil!FirstBreach(points) = (CHOOSE f : HilScan(f, points))[DOMAIN points]
BY DEF Hil!FirstBreach, Hil!FoldLeft, Hil!MapThenFoldSet, Hil!Max, Max, HilScan

LEMMA FirstBreachIs ==
    ASSUME NEW n \in Nat, NEW points, DOMAIN points = 1 .. n, Len(points) = n,
           \A i \in 1 .. n : points[i].time \in Nat /\ points[i].temp \in Int
    PROVE  \/ TooHot(points) = {} /\ Hil!FirstBreach(points) = -1
           \/ \E i \in TooHot(points) : /\ \A j \in TooHot(points) : i <= j
                                        /\ Hil!FirstBreach(points) = points[i].time
<1> DEFINE hits == TooHot(points)
           time == [i \in 1 .. n |-> points[i].time]
<1>1. /\ hits \in SUBSET (1 .. n)
      /\ \A i \in 1 .. n : time[i] = points[i].time /\ time[i] \in Nat
      /\ \A i \in 1 .. n : i \in hits <=> points[i].temp > MaxSafe
  BY DEF TooHot
<1> HIDE DEF hits, time
<1>2. \E f : HilScan(f, points)
  <2> DEFINE none == -1
             only == {-1}
  <2> HIDE DEF none, only
  <2>1. PICK f : ScansFirst(f, n, hits, time, none, only) /\ Keeps(f, n, time, none)
    BY ScanExists
  <2> USE DEF none, only
  <2>2. \A s \in SUBSET (1 .. n) : f[s] \in {-1} <=> f[s] < 0
    BY <1>1, <2>1 DEF Keeps
  <2>3. ASSUME NEW s \in SUBSET (1 .. n), s # {}
        PROVE  (IF Max(s) \in hits /\ f[s \ {Max(s)}] \in {-1} THEN time[Max(s)] ELSE f[s \ {Max(s)}])
             = (IF points[Max(s)].temp > MaxSafe /\ f[s \ {Max(s)}] < 0
                THEN points[Max(s)].time ELSE f[s \ {Max(s)}])
    <3>1. Max(s) \in 1 .. n /\ s \ {Max(s)} \in SUBSET (1 .. n)
      BY <2>3, MaxIn
    <3> QED
      BY <1>1, <2>2, <3>1
  <2>4. HilScan(f, points)
    BY <2>1, <2>3 DEF ScansFirst, HilScan
  <2> QED
    BY <2>4
<1> DEFINE f == CHOOSE f : HilScan(f, points)
           open == {f[s] : s \in {s \in SUBSET (1 .. n) : f[s] < 0}}
<1>3. HilScan(f, points) /\ Hil!FirstBreach(points) = f[1 .. n]
  BY <1>2, HilScanDef
<1> HIDE DEF f
<1>4. \A s \in SUBSET (1 .. n) : f[s] \in open <=> f[s] < 0
  OBVIOUS
<1>5. f[{}] = -1 /\ -1 \in open
  <2>1. f[{}] = -1
    BY <1>3 DEF HilScan
  <2>2. f[{}] < 0 /\ {} \in SUBSET (1 .. n)
    BY <2>1
  <2>3. f[{}] \in open
    BY <1>4, <2>2
  <2> QED
    BY <2>1, <2>3
<1>6. \A i \in hits : time[i] \notin open
  <2>1. \A v \in open : v < 0
    OBVIOUS
  <2> HIDE DEF open
  <2> QED
    BY <1>1, <2>1
<1> HIDE DEF open
<1>7. ScansFirst(f, n, hits, time, -1, open)
  <2>1. ASSUME NEW s \in SUBSET (1 .. n), s # {}
        PROVE  (IF Max(s) \in hits /\ f[s \ {Max(s)}] \in open THEN time[Max(s)] ELSE f[s \ {Max(s)}])
             = (IF points[Max(s)].temp > MaxSafe /\ f[s \ {Max(s)}] < 0
                THEN points[Max(s)].time ELSE f[s \ {Max(s)}])
    <3>1. Max(s) \in 1 .. n /\ s \ {Max(s)} \in SUBSET (1 .. n)
      BY <2>1, MaxIn
    <3> QED
      BY <1>1, <1>4, <3>1
  <2> QED
    BY <1>3, <2>1 DEF ScansFirst, HilScan
<1>8. \/ hits = {} /\ f[1 .. n] = -1
      \/ \E i \in hits : (\A j \in hits : i <= j) /\ f[1 .. n] = time[i]
  BY <1>1, <1>5, <1>6, <1>7, FirstHit
<1> QED
  BY <1>1, <1>3, <1>8 DEF hits

Sampled == /\ trajectory \in Seq(Hil!Sample)
           /\ \A i, j \in 1 .. Len(trajectory) : i <= j => trajectory[i].time <= trajectory[j].time

LEMMA SampleTyped == ASSUME NEW p \in Hil!Sample PROVE p.time \in Nat /\ p.temp \in Int
BY TimeAssumption, PlantAssumption DEF Hil!Sample

LEMMA SampledInv == /\ Init => Sampled
                    /\ Sampled /\ [Next]_vars => Sampled'
<1>1. Init => Sampled
  BY DEF Init, Hil!Init, Sampled
<1>2. Sampled /\ [Next]_vars => Sampled'
  <2> SUFFICES ASSUME Sampled, [Next]_vars PROVE Sampled'
    OBVIOUS
  <2>0. Hil!Sample' = Hil!Sample
    BY DEF Hil!Sample
  <2>1. CASE UNCHANGED trajectory
    BY <2>0, <2>1 DEF Sampled
  <2>2. CASE Hil!Reset
    BY <2>0, <2>2 DEF Sampled, Hil!Reset
  <2>3. ASSUME NEW p \in Hil!Sample,
               \A i \in 1 .. Len(trajectory) : trajectory[i].time <= p.time,
               Hil!RecordStateSample(p)
        PROVE  Sampled'
    <3> DEFINE n == Len(trajectory)
    <3>1. trajectory \in Seq(Hil!Sample) /\ n \in Nat
      BY DEF Sampled
    <3>2. trajectory' = Append(trajectory, p)
      BY <2>3 DEF Hil!RecordStateSample
    <3>3. /\ trajectory' \in Seq(Hil!Sample) /\ Len(trajectory') = n + 1
          /\ trajectory'[n + 1] = p /\ \A i \in 1 .. n : trajectory'[i] = trajectory[i]
      BY <3>1, <3>2
    <3>4. p.time \in Nat
      BY SampleTyped
    <3>5. ASSUME NEW i \in 1 .. n + 1, NEW j \in 1 .. n + 1, i <= j
          PROVE  trajectory'[i].time <= trajectory'[j].time
      <4>1. CASE j \in 1 .. n
        BY <3>1, <3>3, <3>5, <4>1 DEF Sampled
      <4>2. CASE j = n + 1
        BY <2>3, <3>1, <3>3, <3>4, <3>5, <4>2
      <4> QED
        BY <3>1, <4>1, <4>2
    <3> QED
      BY <2>0, <3>3, <3>5 DEF Sampled
  <2> QED
    BY <2>1, <2>2, <2>3 DEF Next, vars, Hil!Next
<1> QED
  BY <1>1, <1>2

LEMMA PrefixOf == ASSUME Sampled, NEW n \in 1 .. Len(trajectory)
                  PROVE  LET points == SubSeq(trajectory, 1, n)
                         IN  /\ n \in Nat /\ DOMAIN points = 1 .. n /\ Len(points) = n
                             /\ \A i \in 1 .. n : /\ points[i] = trajectory[i]
                                                  /\ points[i].time \in Nat /\ points[i].temp \in Int
<1> DEFINE points == SubSeq(trajectory, 1, n)
<1>1. trajectory \in Seq(Hil!Sample)
  BY DEF Sampled
<1>2. n \in Nat /\ Len(points) = n /\ DOMAIN points = 1 .. n
  BY <1>1
<1>3. \A i \in 1 .. n : points[i] = trajectory[i] /\ points[i] \in Hil!Sample
  BY <1>1
<1> QED
  BY <1>2, <1>3, SampleTyped

LEMMA Clearing == Sampled => ClearingIsFirstBreach
<1> SUFFICES ASSUME Sampled, Hil!ComputeHilMetrics(trajectory, 0).valid
             PROVE  Hil!ClearingIsFirstBreach
  BY DEF ClearingIsFirstBreach, Hil!ClearingIsFirstBreach
<1> DEFINE n == Len(trajectory)
           hot == TooHot(trajectory)
           S == {0} \cup {trajectory[i].temp : i \in 1 .. n}
<1>1. /\ n \in Nat /\ trajectory # <<>> /\ n # 0 /\ DOMAIN trajectory = 1 .. n
      /\ \A i \in 1 .. n : trajectory[i].time \in Nat /\ trajectory[i].temp \in Int
  <2>1. trajectory # <<>>
    BY DEF Hil!ComputeHilMetrics
  <2>2. trajectory \in Seq(Hil!Sample)
    BY DEF Sampled
  <2>3. \A i \in 1 .. n : trajectory[i] \in Hil!Sample
    BY <2>2
  <2> QED
    BY <2>1, <2>2, <2>3, SampleTyped
<1>2. Hil!ComputeHilMetrics(trajectory, 0).violated <=> hot # {}
  <2> DEFINE f == [i \in 1 .. n |-> trajectory[i].temp]
  <2>1. Holds(S, n, f, 0) /\ MaxSafe \in Nat /\ \A i \in 1 .. n : f[i] \in Int
    BY <1>1, PlantAssumption DEF Holds
  <2>2. Hil!Max(S) \in Int /\ (Hil!Max(S) <= MaxSafe <=> \A i \in 1 .. n : f[i] <= MaxSafe)
    <3> HIDE DEF S, f, n
    <3> QED
      BY <1>1, <2>1, Hottest
  <2>3. (\A i \in 1 .. n : f[i] <= MaxSafe) <=> hot = {}
    BY <1>1, PlantAssumption DEF TooHot
  <2>4. Hil!Max(S) > MaxSafe <=> hot # {}
    <3> HIDE DEF S, f, hot
    <3> QED
      BY <2>2, <2>3, PlantAssumption
  <2> QED
    BY <1>1, <2>4 DEF Hil!ComputeHilMetrics
<1> DEFINE first(points) == Hil!FirstBreach(points)
           clearing(points) == Hil!ComputeHilMetrics(points, 0).clearing
<1>3. ASSUME NEW points, points # <<>>
      PROVE  clearing(points) = IF first(points) >= 0 THEN first(points) * 1000 ELSE ClearingSla
  BY <1>3 DEF Hil!ComputeHilMetrics
<1>4. CASE hot = {}
  <2>1. first(trajectory) = -1
    BY <1>1, <1>4, FirstBreachIs
  <2>2. clearing(trajectory) = ClearingSla
    BY <1>1, <1>3, <2>1
  <2> QED
    BY <1>2, <1>4, <2>2 DEF Hil!ClearingIsFirstBreach
<1>5. CASE hot # {}
  <2>1. PICK i \in hot : (\A j \in hot : i <= j) /\ first(trajectory) = trajectory[i].time
    BY <1>1, <1>5, FirstBreachIs
  <2>2. i \in 1 .. n /\ trajectory[i].temp > MaxSafe /\ trajectory[i].time \in Nat
    BY <1>1 DEF TooHot
  <2>3. clearing(trajectory) = trajectory[i].time * 1000
    BY <1>1, <1>3, <2>1, <2>2
  <2>4. ASSUME NEW j \in 1 .. n, trajectory[j].temp > MaxSafe
        PROVE  trajectory[j].time >= trajectory[i].time
    <3>1. j \in hot /\ i <= j
      BY <2>1, <2>4 DEF TooHot
    <3>2. trajectory[i].time <= trajectory[j].time
      BY <2>2, <3>1 DEF Sampled
    <3> QED
      BY <1>1, <2>2, <3>2
  <2>5. ASSUME NEW k \in i .. n PROVE clearing(SubSeq(trajectory, 1, k)) = clearing(trajectory)
    <3> DEFINE points == SubSeq(trajectory, 1, k)
    <3>1. k \in 1 .. n /\ i \in 1 .. k /\ k \in Nat /\ k # 0
      BY <1>1, <2>2
    <3>2. /\ DOMAIN points = 1 .. k /\ Len(points) = k
          /\ \A j \in 1 .. k : /\ points[j] = trajectory[j]
                               /\ points[j].time \in Nat /\ points[j].temp \in Int
      BY <3>1, PrefixOf
    <3>3. points # <<>>
      BY <3>1, <3>2
    <3> HIDE DEF points
    <3>4. \A j \in TooHot(points) : j \in hot /\ points[j] = trajectory[j]
      BY <1>1, <3>1, <3>2 DEF TooHot
    <3>5. i \in TooHot(points)
      BY <2>2, <3>1, <3>2 DEF TooHot
    <3>6. PICK j \in TooHot(points) : (\A m \in TooHot(points) : j <= m) /\ first(points) = points[j].time
      BY <3>1, <3>2, <3>5, FirstBreachIs
    <3>7. j = i
      <4>1. j <= i /\ i <= j
        BY <2>1, <3>4, <3>5, <3>6
      <4>2. i \in Nat /\ j \in Nat
        BY <2>2, <3>2 DEF TooHot
      <4> QED
        BY <4>1, <4>2
    <3>8. first(points) = first(trajectory) /\ trajectory # <<>>
      BY <1>1, <2>1, <3>4, <3>6, <3>7
    <3> HIDE DEF first, clearing
    <3>9. clearing(points) = clearing(trajectory)
      BY <1>3, <3>3, <3>8
    <3> QED
      BY <3>9 DEF points
  <2> HIDE DEF n, hot, first
  <2>6. \E x \in 1 .. n : /\ trajectory[x].temp > MaxSafe
                          /\ clearing(trajectory) = trajectory[x].time * 1000
                          /\ \A j \in 1 .. n :
                                trajectory[j].temp > MaxSafe => trajectory[j].time >= trajectory[x].time
                          /\ \A k \in x .. n :
                                clearing(SubSeq(trajectory, 1, k)) = clearing(trajectory)
    <3> HIDE DEF clearing
    <3> QED
      BY <2>2, <2>3, <2>4, <2>5
  <2> QED
    BY <1>2, <1>5, <2>6 DEF Hil!ClearingIsFirstBreach, n
<1> QED
  BY <1>4, <1>5

(* For trajectories of every length and every limit from 0 on, the clearing time of *)
(* compute_hil_metrics is that of the first breach, and no later sample changes it. *)
THEOREM ClearingHolds == Spec => []ClearingIsFirstBreach
<1>1. Init => Sampled
  BY SampledInv
<1>2. Sampled /\ [Next]_vars => Sampled'
  BY SampledInv
<1>3. Sampled => ClearingIsFirstBreach
  BY Clearing
<1> QED
  BY <1>1, <1>2, <1>3, PTL DEF Spec
-----------------------------------------------------------------------------
(* FdiaEngine keeps the time of the first breach in the same way, with 0 for none. *)
FdiaScan(f, stream) ==
    f = [s \in SUBSET (DOMAIN stream) |->
            IF s = {} THEN 0
            ELSE IF stream[Max(s)].true >= Threshold /\ f[s \ {Max(s)}] = 0
                 THEN stream[Max(s)].timestamp ELSE f[s \ {Max(s)}]]

LEMMA FdiaScanDef == ASSUME NEW stream
                     PROVE  Fdia!BreachTimestamp(stream) = (CHOOSE f : FdiaScan(f, stream))[DOMAIN stream]
BY DEF Fdia!BreachTimestamp, Fdia!FoldLeft, Fdia!MapThenFoldSet, Fdia!Max, Max, FdiaScan

LEMMA BreachIs ==
    ASSUME NEW n \in Nat, NEW stream, DOMAIN stream = 1 .. n, Len(stream) = n,
           \A i \in Fdia!Hot(stream) : stream[i].timestamp \in Nat \ {0}
    PROVE  \/ Fdia!Hot(stream) = {} /\ Fdia!BreachTimestamp(stream) = 0
           \/ \E i \in Fdia!Hot(stream) : /\ \A j \in Fdia!Hot(stream) : i <= j
                                          /\ Fdia!BreachTimestamp(stream) = stream[i].timestamp
<1> DEFINE hits == Fdia!Hot(stream)
           time == [i \in 1 .. n |-> stream[i].timestamp]
           open == {0}
           scan(f) == ScansFirst(f, n, hits, time, 0, open)
<1>1. /\ hits \in SUBSET (1 .. n)
      /\ \A i \in 1 .. n : time[i] = stream[i].timestamp
      /\ \A i \in 1 .. n : i \in hits <=> stream[i].true >= Threshold
  BY DEF Fdia!Hot
<1> HIDE DEF time
<1>2. \A i \in hits : time[i] \notin open
  BY <1>1
<1>3. ASSUME NEW s \in SUBSET (1 .. n), s # {}, NEW f
      PROVE  (IF Max(s) \in hits /\ f[s \ {Max(s)}] \in open THEN time[Max(s)] ELSE f[s \ {Max(s)}])
           = (IF stream[Max(s)].true >= Threshold /\ f[s \ {Max(s)}] = 0
              THEN stream[Max(s)].timestamp ELSE f[s \ {Max(s)}])
  <2>1. Max(s) \in 1 .. n
    BY <1>3, MaxIn
  <2> HIDE DEF hits
  <2> QED
    BY <1>1, <2>1
<1>4. \A f : scan(f) <=> FdiaScan(f, stream)
  <2> TAKE f
  <2> HIDE DEF hits, open
  <2> QED
    BY <1>3 DEF ScansFirst, FdiaScan
<1>5. \E f : scan(f)
  <2> HIDE DEF hits, open
  <2> QED
    BY ScanExists
<1> DEFINE f == CHOOSE f : FdiaScan(f, stream)
<1>6. scan(f) /\ Fdia!BreachTimestamp(stream) = f[1 .. n]
  <2>1. FdiaScan(f, stream)
    BY <1>4, <1>5
  <2> HIDE DEF f
  <2> QED
    BY <1>4, <2>1, FdiaScanDef DEF f
<1> HIDE DEF f
<1>7. 0 \in open
  OBVIOUS
<1>8. \/ hits = {} /\ f[1 .. n] = 0
      \/ \E i \in hits : (\A j \in hits : i <= j) /\ f[1 .. n] = time[i]
  <2> HIDE DEF hits, open
  <2> QED
    BY <1>1, <1>2, <1>6, <1>7, FirstHit
<1> QED
  BY <1>1, <1>6, <1>8

Frame == [timestamp : Times, true : Temps, fdia : BOOLEAN, score : {10, 95}]

(* The frames are in order of time, and the network alarmed only beyond the threshold. *)
Collected == /\ frames \in Seq(Frame)
             /\ \A i, j \in 1 .. Len(frames) : i <= j => frames[i].timestamp <= frames[j].timestamp
             /\ \A i \in 1 .. Len(frames) : frames[i].score = 95 => frames[i].true > Threshold

LEMMA FrameTyped == ASSUME NEW p \in Frame PROVE p.timestamp \in Nat /\ p.true \in Int
BY TimeAssumption, PlantAssumption DEF Frame

LEMMA CollectedInv == /\ Init => Collected
                      /\ Collected /\ [Next]_vars => Collected'
<1>1. Init => Collected
  BY DEF Init, Fdia!Init, Collected
<1>2. Collected /\ [Next]_vars => Collected'
  <2> SUFFICES ASSUME Collected, [Next]_vars PROVE Collected'
    OBVIOUS
  <2>0. Frame' = Frame
    BY DEF Frame
  <2>1. CASE UNCHANGED frames
    BY <2>0, <2>1 DEF Collected
  <2>2. ASSUME NEW timestamp \in Times, NEW temp \in Temps, NEW blind \in BOOLEAN,
               Fdia!Collect(timestamp, temp, blind)
        PROVE  Collected'
    <3> DEFINE n == Len(frames)
               p == Fdia!GenerateFdiaFrame(timestamp, temp, blind)
    <3>1. frames \in Seq(Frame) /\ n \in Nat
      BY DEF Collected
    <3>2. p \in Frame /\ p.timestamp = timestamp /\ (p.score = 95 => p.true > Threshold)
      BY DEF Fdia!GenerateFdiaFrame, Frame
    <3>3. /\ frames' = Append(frames, p)
          /\ \A i \in 1 .. n : frames[i].timestamp <= timestamp
      BY <2>2 DEF Fdia!Collect
    <3> HIDE DEF p
    <3>4. /\ frames' \in Seq(Frame) /\ Len(frames') = n + 1
          /\ frames'[n + 1] = p /\ \A i \in 1 .. n : frames'[i] = frames[i]
      BY <3>1, <3>2, <3>3
    <3>5. timestamp \in Nat
      BY TimeAssumption
    <3>6. ASSUME NEW i \in 1 .. n + 1, NEW j \in 1 .. n + 1, i <= j
          PROVE  frames'[i].timestamp <= frames'[j].timestamp
      <4>1. CASE j \in 1 .. n
        BY <3>1, <3>4, <3>6, <4>1 DEF Collected
      <4>2. CASE j = n + 1
        BY <3>1, <3>2, <3>3, <3>4, <3>5, <3>6, <4>2
      <4> QED
        BY <3>1, <4>1, <4>2
    <3>7. ASSUME NEW i \in 1 .. n + 1, frames'[i].score = 95 PROVE frames'[i].true > Threshold
      <4>1. CASE i \in 1 .. n
        BY <3>1, <3>4, <3>7, <4>1 DEF Collected
      <4>2. CASE i = n + 1
        BY <3>2, <3>4, <3>7, <4>2
      <4> QED
        BY <3>1, <4>1, <4>2
    <3> QED
      BY <2>0, <3>4, <3>6, <3>7 DEF Collected
  <2> QED
    BY <2>1, <2>2 DEF Next, vars, Fdia!Next
<1> QED
  BY <1>1, <1>2

LEMMA Alerting == Collected => AlertFollowsBreach
<1> DEFINE n == Len(frames)
           hot == Fdia!Hot(frames)
           breach == Fdia!BreachTimestamp(frames)
<1> SUFFICES ASSUME Collected, frames # <<>>, \A i \in hot : frames[i].timestamp > 0,
                    NEW detection \in Times \cup {0}
             PROVE  LET m == Fdia!EvaluateCausalDetection(frames, detection)
                        since == {detection - frames[i].timestamp : i \in hot}
                    IN  /\ m.alert <=> \E delay \in since : detection > 0 /\ delay >= 0
                        /\ m.alert => m.tdet \in since /\ \A delay \in since : delay <= m.tdet
                        /\ m.f1 = 0 <=> detection = 0 /\ hot # {}
                        /\ (\E i \in 1 .. n : frames[i].score = 95) /\ detection = 0
                              => m.tdet = Fdia!Missed
  BY DEF AlertFollowsBreach, Fdia!AlertFollowsBreach
<1> DEFINE m == Fdia!EvaluateCausalDetection(frames, detection)
           since == {detection - frames[i].timestamp : i \in hot}
<1>1. /\ n \in Nat /\ DOMAIN frames = 1 .. n /\ detection \in Nat
      /\ \A i \in 1 .. n : frames[i].timestamp \in Nat /\ frames[i].true \in Int
      /\ hot \in SUBSET (1 .. n)
      /\ \A i \in hot : frames[i].timestamp \in Nat \ {0}
  <2>1. frames \in Seq(Frame)
    BY DEF Collected
  <2>2. \A i \in 1 .. n : frames[i] \in Frame
    BY <2>1
  <2>3. detection \in Nat
    BY TimeAssumption
  <2>4. \A i \in 1 .. n : frames[i].timestamp \in Nat /\ frames[i].true \in Int
    BY <2>2, FrameTyped
  <2>5. hot \in SUBSET (1 .. n)
    BY DEF Fdia!Hot
  <2> HIDE DEF hot
  <2> QED
    BY <2>1, <2>3, <2>4, <2>5
<1>2. /\ m.alert <=> detection > 0 /\ breach > 0 /\ detection >= breach
      /\ m.tdet = IF m.alert THEN detection - breach
                  ELSE IF breach > 0 /\ detection = 0 THEN Fdia!Missed ELSE 0
      /\ m.f1 = IF breach > 0 /\ detection = 0 THEN 0 ELSE 1
  BY DEF Fdia!EvaluateCausalDetection
<1>3. (\E i \in 1 .. n : frames[i].score = 95) => hot # {}
  BY <1>1, PlantAssumption DEF Collected, Fdia!Hot
<1>4. \/ hot = {} /\ breach = 0
      \/ \E i \in hot : (\A j \in hot : i <= j) /\ breach = frames[i].timestamp
  BY <1>1, BreachIs
<1> HIDE DEF hot, breach, m
<1>5. CASE hot = {}
  <2>1. breach = 0 /\ since = {}
    BY <1>4, <1>5
  <2> QED
    BY <1>2, <1>3, <1>5, <2>1 DEF m, hot
<1>6. CASE hot # {}
  <2>1. PICK i \in hot : (\A j \in hot : i <= j) /\ breach = frames[i].timestamp
    BY <1>4, <1>6
  <2>2. breach \in Nat /\ breach > 0 /\ detection - breach \in since
    BY <1>1, <2>1
  <2>3. \A j \in hot : breach <= frames[j].timestamp
    <3> TAKE j \in hot
    <3>1. i \in 1 .. n /\ j \in 1 .. n /\ i <= j
      BY <1>1, <2>1
    <3> QED
      BY <2>1, <3>1 DEF Collected
  <2>4. \A delay \in since : delay \in Int /\ delay <= detection - breach
    BY <1>1, <2>2, <2>3
  <2> HIDE DEF since
  <2>5. m.alert <=> \E delay \in since : detection > 0 /\ delay >= 0
    BY <1>1, <1>2, <2>2, <2>4
  <2>6. m.alert => m.tdet \in since /\ \A delay \in since : delay <= m.tdet
    BY <1>2, <2>2, <2>4
  <2>7. m.f1 = 0 <=> detection = 0 /\ hot # {}
    BY <1>2, <1>6, <2>2
  <2>8. detection = 0 => m.tdet = Fdia!Missed
    BY <1>2, <2>2
  <2> QED
    BY <2>5, <2>6, <2>7, <2>8 DEF m, since, hot
<1> QED
  BY <1>5, <1>6

(* For streams of every length and every threshold: when no breach is at time 0, a *)
(* detection counts, and is timed, from the first true breach, and a stream whose   *)
(* network score alarmed is not taken for one without a breach.                   *)
THEOREM AlertHolds == Spec => []AlertFollowsBreach
<1>1. Init => Collected
  BY CollectedInv
<1>2. Collected /\ [Next]_vars => Collected'
  BY CollectedInv
<1>3. Collected => AlertFollowsBreach
  BY Alerting
<1> QED
  BY <1>1, <1>2, <1>3, PTL DEF Spec
-----------------------------------------------------------------------------
LEMMA DriftSum == ASSUME NEW f PROVE Drift!SumFunction(f) = SumFunctionOnSet(f, DOMAIN f)
BY DEF Drift!SumFunction, Drift!FoldFunctionOnSet, Drift!SumFunctionOnSet, Drift!MapThenFoldSet,
       SumFunctionOnSet, FoldFunctionOnSet, MapThenFoldSet

MatrixTyped == /\ DOMAIN matrix \in SUBSET Cells /\ IsFiniteSet(DOMAIN matrix)
               /\ \A c \in DOMAIN matrix : matrix[c] \in Int

LEMMA MatrixInv == /\ Init => MatrixTyped
                   /\ MatrixTyped /\ [Next]_vars => MatrixTyped'
<1>1. ASSUME matrix = [c \in {} |-> 0] PROVE MatrixTyped
  BY <1>1, FS_EmptySet DEF MatrixTyped
<1>2. ASSUME matrix' = [c \in {} |-> 0] PROVE MatrixTyped'
  BY <1>2, FS_EmptySet DEF MatrixTyped
<1>3. MatrixTyped /\ [Next]_vars => MatrixTyped'
  <2> SUFFICES ASSUME MatrixTyped, [Next]_vars PROVE MatrixTyped'
    OBVIOUS
  <2>1. CASE UNCHANGED matrix
    BY <2>1 DEF MatrixTyped
  <2>2. CASE Drift!Reset
    BY <1>2, <2>2 DEF Drift!Reset
  <2>3. ASSUME NEW c \in Cells, NEW score \in Scores, Drift!RecordTaskScore(c[1], c[2], score)
        PROVE  MatrixTyped'
    <3>1. <<c[1], c[2]>> = c /\ score \in Int
      BY DriftAssumption
    <3>2. matrix' = [d \in DOMAIN matrix \cup {c} |-> IF d = c THEN score ELSE matrix[d]]
      BY <2>3, <3>1 DEF Drift!RecordTaskScore
    <3>3. IsFiniteSet(DOMAIN matrix \cup {c})
      BY FS_AddElement DEF MatrixTyped
    <3> QED
      BY <3>1, <3>2, <3>3 DEF MatrixTyped
  <2> QED
    BY <2>1, <2>2, <2>3 DEF Next, vars, Drift!Next
<1> QED
  BY <1>1, <1>3 DEF Init, Drift!Init

LEMMA TasksTyped == ASSUME MatrixTyped
                    PROVE  /\ Drift!NumTasks \in Nat \ {0}
                           /\ \A i, j : Drift!R(i, j) \in Int
<1> DEFINE D == DOMAIN matrix
           A == {c[1] : c \in D}
           B == {c[2] : c \in D}
           S == {0} \cup A \cup B
<1>1. IsFiniteSet(A) /\ IsFiniteSet(B)
  <2> DEFINE f == [c \in D |-> c[1]]
             g == [c \in D |-> c[2]]
  <2>1. A = {f[c] : c \in D} /\ B = {g[c] : c \in D}
    OBVIOUS
  <2> HIDE DEF A, B, f, g
  <2> QED
    BY <2>1, FiniteValues DEF MatrixTyped
<1>2. IsFiniteSet(S)
  <2>1. IsFiniteSet({0})
    BY FS_Singleton
  <2> HIDE DEF A, B
  <2> QED
    BY <1>1, <2>1, FS_Union
<1>3. S \subseteq Nat /\ S # {} /\ S \subseteq Int
  <2>1. \A c \in D : c[1] \in Nat /\ c[2] \in Nat
    BY DriftAssumption DEF MatrixTyped
  <2> QED
    BY <2>1
<1>4. \E m \in S : \A y \in S : m >= y
  <2> HIDE DEF S
  <2> QED
    BY <1>2, <1>3, FiniteGreatest
<1>5. Drift!Max(S) \in S
  <2> HIDE DEF S
  <2> QED
    BY <1>4 DEF Drift!Max
<1>6. Drift!NumTasks = 1 + Drift!Max(S)
  BY DEF Drift!NumTasks
<1>7. Drift!Max(S) \in Nat
  BY <1>3, <1>5
<1> HIDE DEF S
<1>8. \A i, j : Drift!R(i, j) \in Int
  BY DEF Drift!R, MatrixTyped
<1> QED
  BY <1>6, <1>7, <1>8

LEMMA Forgetting == MatrixTyped => ForgettingIsSeen
<1> DEFINE tasks == Drift!NumTasks
           last == tasks - 1
           m == Drift!ComputeDriftMetrics
           gained(j) == Drift!SumFunction([i \in j + 1 .. last |-> Drift!R(i, j) - Drift!R(i - 1, j)])
<1> SUFFICES ASSUME MatrixTyped, tasks >= 2
             PROVE  /\ m.bwt = Drift!SumFunction([j \in 0 .. last - 1 |-> gained(j)])
                    /\ (\A j \in 0 .. last - 1 : gained(j) >= BwtMinThreshold) => m.satisfied
                    /\ (\A j \in 0 .. last - 1 : gained(j) < BwtMinThreshold) => ~ m.satisfied
                    /\ m.retention[tasks] - m.retention[1] = gained(0)
  BY DEF ForgettingIsSeen, Drift!ForgettingIsSeen
<1>1. tasks \in Nat /\ last \in Nat /\ last >= 1 /\ \A i, j : Drift!R(i, j) \in Int
  BY TasksTyped
<1> DEFINE c == BwtMinThreshold
           lost == [j \in 0 .. tasks - 2 |-> Drift!R(tasks - 1, j) - Drift!R(j, j)]
           J == 0 .. last - 1
<1>2. ASSUME NEW j \in J PROVE gained(j) = Drift!R(last, j) - Drift!R(j, j)
  <2> DEFINE r == [i \in j .. last |-> Drift!R(i, j)]
             f == [i \in j + 1 .. last |-> Drift!R(i, j) - Drift!R(i - 1, j)]
  <2>1. j \in Int /\ last \in Int /\ j <= last
    BY <1>1
  <2>2. \A i \in j .. last : r[i] \in Int
    BY <1>1
  <2>3. \A i \in j + 1 .. last : f[i] = r[i] - r[i - 1]
    <3> TAKE i \in j + 1 .. last
    <3>1. i \in j .. last /\ i - 1 \in j .. last
      BY <2>1
    <3> QED
      BY <3>1
  <2>4. r[last] = Drift!R(last, j) /\ r[j] = Drift!R(j, j) /\ DOMAIN f = j + 1 .. last
    BY <2>1
  <2>5. Drift!SumFunction(f) = SumFunctionOnSet(f, DOMAIN f)
    <3> HIDE DEF f
    <3> QED
      BY DriftSum
  <2>6. SumFunctionOnSet(f, j + 1 .. last) = r[last] - r[j]
    <3> HIDE DEF f, r, last
    <3> QED
      BY <2>1, <2>2, <2>3, SumOfSteps
  <2> QED
    BY <2>4, <2>5, <2>6
<1>3. lost = [j \in J |-> gained(j)]
  <2>1. tasks - 2 = last - 1
    BY <1>1
  <2> HIDE DEF gained
  <2> QED
    BY <1>2, <2>1
<1>4. /\ m.bwt = Drift!SumFunction(lost)
      /\ m.satisfied <=> Drift!SumFunction(lost) >= c * (tasks - 1)
      /\ m.retention[tasks] = Drift!R(tasks - 1, 0) /\ m.retention[1] = Drift!R(1 - 1, 0)
  <2>1. ~ (tasks < 2) /\ tasks \in 1 .. tasks /\ 1 \in 1 .. tasks
    BY <1>1
  <2> QED
    BY <2>1 DEF Drift!ComputeDriftMetrics, Drift!BackwardTransfer
<1>5. Drift!SumFunction(lost) = SumFunctionOnSet(lost, J)
  <2>1. DOMAIN lost = J
    BY <1>1
  <2> HIDE DEF lost, J
  <2> QED
    BY <2>1, DriftSum
<1>6. \A j \in J : lost[j] = gained(j) /\ lost[j] \in Int
  <2> HIDE DEF gained
  <2> QED
    BY <1>1, <1>2, <1>3
<1>7. IsFiniteSet(J) /\ Cardinality(J) = last
  BY <1>1, FS_Interval
<1> HIDE DEF gained, lost, m, J
<1>8. c \in Int
  BY DriftAssumption
<1> DEFINE sum == SumFunctionOnSet(lost, J)
<1>9. ASSUME \A j \in J : gained(j) >= c PROVE m.satisfied
  <2>1. sum >= last * c
    <3> HIDE DEF c, last
    <3> QED
      BY <1>6, <1>7, <1>8, <1>9, SumAtLeast
  <2>2. last * c = c * (tasks - 1)
    BY <1>1, <1>8
  <2> QED
    BY <1>4, <1>5, <2>1, <2>2
<1>10. ASSUME \A j \in J : gained(j) < c PROVE ~ m.satisfied
  <2> DEFINE d == c - 1
  <2>1. sum <= last * d /\ sum \in Int
    <3>1. d \in Int /\ \A j \in J : lost[j] <= d
      BY <1>6, <1>8, <1>10
    <3> HIDE DEF c, d, last
    <3> QED
      BY <1>6, <1>7, <3>1, SumAtMost, SumInt
  <2>2. last * d = c * (tasks - 1) - last /\ c * (tasks - 1) \in Int
    BY <1>1, <1>8
  <2> HIDE DEF d, c, sum
  <2>3. sum < c * (tasks - 1)
    BY <1>1, <2>1, <2>2
  <2>4. ~ (sum >= c * (tasks - 1))
    BY <2>1, <2>2, <2>3
  <2> QED
    BY <1>4, <1>5, <2>4 DEF sum
<1>11. m.retention[tasks] - m.retention[1] = gained(0)
  <2>1. 0 \in J /\ 1 - 1 = 0
    BY <1>1 DEF J
  <2> QED
    BY <1>2, <1>4, <2>1
<1> QED
  BY <1>3, <1>4, <1>9, <1>10, <1>11 DEF gained, lost, m, J

(* For every number of tasks and scores of every value, recorded in any order: in a *)
(* complete evaluation the backward transfer of compute_drift_metrics is what the   *)
(* tasks gained and lost from one training to the next, and the threshold is met    *)
(* when no task lost more than it allows, missed when every task did.             *)
THEOREM ForgettingHolds == Spec => []ForgettingIsSeen
<1>1. Init => MatrixTyped
  BY MatrixInv
<1>2. MatrixTyped /\ [Next]_vars => MatrixTyped'
  BY MatrixInv
<1>3. MatrixTyped => ForgettingIsSeen
  BY Forgetting
<1> QED
  BY <1>1, <1>2, <1>3, PTL DEF Spec
-----------------------------------------------------------------------------
(* The invariant of the session generator is proved where it stands alone; here    *)
(* are the same definitions.                                                     *)
Play == INSTANCE StatefulFuzzerProofs

LEMMA SameFuzzer == /\ Fuzzer!Init <=> Play!Init
                    /\ Fuzzer!Next <=> Play!Next
                    /\ Fuzzer!SessionFollowsScript <=> Play!SessionFollowsScript
<1>1. Fuzzer!Init <=> Play!Init
  BY DEF Fuzzer!Init, Play!Init
<1>2. Fuzzer!NextNumber = Play!NextNumber /\ \A s : Fuzzer!Frame(s) = Play!Frame(s)
  BY DEF Fuzzer!NextNumber, Play!NextNumber, Fuzzer!Frame, Play!Frame
<1>3. Fuzzer!Next <=> Play!Next
  BY <1>2 DEF Fuzzer!Next, Play!Next, Fuzzer!GenerateNextSessionFrame,
              Play!GenerateNextSessionFrame, Fuzzer!Connect, Play!Connect,
              Fuzzer!SetUp, Play!SetUp, Fuzzer!Poll, Play!Poll, Fuzzer!Inject, Play!Inject,
              Fuzzer!ResetSession, Play!ResetSession, Fuzzer!Forget, Play!Forget
<1>4. Fuzzer!Script = Play!Script
  BY DEF Fuzzer!Script, Play!Script, Fuzzer!Polls, Play!Polls
<1>5. Fuzzer!SessionFollowsScript <=> Play!SessionFollowsScript
  BY <1>4 DEF Fuzzer!SessionFollowsScript, Play!SessionFollowsScript
<1> QED
  BY <1>1, <1>3, <1>5

(* Every session of the generator, however many there are and wherever the caller  *)
(* resets it, is the configured script, numbered from 1 modulo the width.         *)
THEOREM SessionsHold == Spec => []SessionFollowsScript
<1>1. Play!Sized
  BY SessionAssumption DEF Play!Sized, Play!Modulus
<1>2. Init => Play!FuzzerInv
  BY <1>1, SameFuzzer, Play!InitInv DEF Init
<1>3. Play!FuzzerInv /\ [Next]_vars => Play!FuzzerInv'
  <2> SUFFICES ASSUME Play!FuzzerInv, [Next]_vars PROVE Play!FuzzerInv'
    OBVIOUS
  <2>1. [Fuzzer!Next]_fuzzVars
    BY DEF Next, vars
  <2>2. [Play!Next]_(Play!vars)
    BY <2>1, SameFuzzer DEF fuzzVars, Play!vars
  <2> QED
    BY <1>1, <2>2, Play!NextInv
<1>4. Play!FuzzerInv => SessionFollowsScript
  BY <1>1, SameFuzzer, Play!InvGoal DEF SessionFollowsScript
<1> QED
  BY <1>2, <1>3, <1>4, PTL DEF Spec
-----------------------------------------------------------------------------
LEMMA LeastOf == ASSUME NEW S, S \subseteq Nat, S # {}
                 PROVE  Min(S) \in S /\ \A y \in S : Min(S) <= y
BY Least DEF Min

LEMMA Apart == ASSUME NEW v \in [size : Nat, value : Int], NEW w \in [size : Nat, value : Int]
               PROVE  /\ EuclideanDistance(v, w) \in Nat
                      /\ EuclideanDistance(v, v) = 0
<1>1. /\ v.value \in Int /\ w.value \in Int
  OBVIOUS
<1>2. v.value - w.value \in Int /\ v.value - v.value = 0
  BY <1>1
<1>3. \A x \in Int : Abs(x) \in Nat
  BY DEF Abs
<1>4. Abs(0) = 0
  BY DEF Abs
<1>5. EuclideanDistance(v, w) \in {0, Abs(v.value - w.value)}
  BY DEF EuclideanDistance
<1>6. EuclideanDistance(v, v) \in {0, Abs(v.value - v.value)}
  BY DEF EuclideanDistance
<1> QED
  BY <1>2, <1>3, <1>4, <1>5, <1>6

(* The distances from client i to the others, and the sums that its score is from. *)
Distances(clients, i) ==
    [j \in (1 .. Len(clients)) \ {i} |->
        EuclideanDistance(clients[i].gradient, clients[j].gradient)]
NearSums(clients, i, count) ==
    {SumFunctionOnSet(Distances(clients, i), near) : near \in kSubset(count, (1 .. Len(clients)) \ {i})}

LEMMA ScoreOf == ASSUME NEW clients, NEW i
                 PROVE  KrumScore(clients, i) =
                          Min(NearSums(clients, i,
                                NeighborsCount(Len(clients), Cardinality(Byzantine(clients)))))
BY DEF KrumScore, NearSums, Distances

LEMMA Scored ==
    ASSUME NEW clients, NEW n \in Nat, Len(clients) = n,
           \A i \in 1 .. n : clients[i].gradient \in [size : Nat, value : Int],
           NEW i \in 1 .. n, NEW count \in 0 .. n - 1,
           count = NeighborsCount(Len(clients), Cardinality(Byzantine(clients)))
    PROVE  /\ KrumScore(clients, i) \in Nat
           /\ \E near \in SUBSET ((1 .. n) \ {i}) :
                 /\ Cardinality(near) = count
                 /\ KrumScore(clients, i) = SumFunctionOnSet(Distances(clients, i), near)
           /\ \A near \in SUBSET ((1 .. n) \ {i}) :
                 Cardinality(near) = count
                    => KrumScore(clients, i) <= SumFunctionOnSet(Distances(clients, i), near)
<1> DEFINE others == (1 .. n) \ {i}
           d == Distances(clients, i)
           sums == NearSums(clients, i, count)
<1>1. IsFiniteSet(others) /\ Cardinality(others) = n - 1
  <2>1. IsFiniteSet(1 .. n) /\ Cardinality(1 .. n) = n
    BY FS_Interval
  <2> QED
    BY <2>1, Smaller
<1>2. \A j \in others : d[j] \in Nat /\ d[j] >= 0
  <2>1. \A j \in others : d[j] = EuclideanDistance(clients[i].gradient, clients[j].gradient)
    BY DEF Distances
  <2>2. \A j \in others : EuclideanDistance(clients[i].gradient, clients[j].gradient) \in Nat
    <3> TAKE j \in others
    <3>1. /\ clients[i].gradient \in [size : Nat, value : Int]
          /\ clients[j].gradient \in [size : Nat, value : Int]
      OBVIOUS
    <3> QED
      BY <3>1, Apart
  <2> HIDE DEF d, others
  <2> QED
    BY <2>1, <2>2
<1> HIDE DEF d
<1>3. \A near \in SUBSET others : SumFunctionOnSet(d, near) \in Nat
  <2> TAKE near \in SUBSET others
  <2>1. IsFiniteSet(near)
    BY <1>1, FS_Subset
  <2>2. \A j \in near : d[j] \in Int /\ d[j] >= 0
    BY <1>2
  <2>3. SumFunctionOnSet(d, near) \in Int
    BY <2>1, <2>2, SumInt
  <2>4. SumFunctionOnSet(d, near) >= Cardinality(near) * 0
    <3> DEFINE c == 0
    <3>1. c \in Int /\ \A j \in near : d[j] >= c
      BY <2>2
    <3>2. \A j \in near : d[j] \in Int
      BY <2>2
    <3> HIDE DEF c
    <3>3. SumFunctionOnSet(d, near) >= Cardinality(near) * c
      BY <2>1, <3>1, <3>2, SumAtLeast
    <3> QED
      BY <3>3 DEF c
  <2>5. Cardinality(near) * 0 = 0
    BY <2>1, FS_CardinalityType
  <2> QED
    BY <2>3, <2>4, <2>5
<1>4. sums = {SumFunctionOnSet(d, near) : near \in kSubset(count, others)}
  BY DEF NearSums, d
<1>5. \A near : near \in kSubset(count, others) <=> near \in SUBSET others /\ Cardinality(near) = count
  BY DEF kSubset
<1>6. \E near \in SUBSET others : Cardinality(near) = count
  <2> HIDE DEF others
  <2> QED
    BY <1>1, PartOfSize
<1> HIDE DEF others
<1>7. sums \subseteq Nat /\ sums # {}
  BY <1>3, <1>4, <1>5, <1>6
<1>8. Min(sums) \in sums /\ \A y \in sums : Min(sums) <= y
  <2> HIDE DEF sums
  <2> QED
    BY <1>7, LeastOf
<1>9. KrumScore(clients, i) = Min(sums)
  BY ScoreOf
<1> HIDE DEF sums
<1>10. Min(sums) \in Nat
  BY <1>7, <1>8
<1>11. \A near \in SUBSET others : Cardinality(near) = count => SumFunctionOnSet(d, near) \in sums
  BY <1>4, <1>5
<1>12. \E near \in SUBSET others : Cardinality(near) = count /\ Min(sums) = SumFunctionOnSet(d, near)
  BY <1>4, <1>5, <1>8
<1> QED
  BY <1>8, <1>9, <1>10, <1>11, <1>12 DEF others, d

LEMMA Near ==
    ASSUME NEW clients, NEW n \in Nat, Len(clients) = n,
           \A i \in 1 .. n : clients[i].gradient \in [size : Nat, value : Int]
    PROVE  StaysNear(clients)
<1> DEFINE B == Byzantine(clients)
           H == Honest(clients)
           k == Cardinality(B)
           best == EvaluateAggregationRobustness(clients).best
           gap == Gap(clients, best, H)
           D == Diameter(clients)
           count == n - k - 2
           m == EvaluateAggregationRobustness(clients)
           dist(i, j) == EuclideanDistance(clients[i].gradient, clients[j].gradient)
<1> SUFFICES ASSUME n > 2 * k + 2
             PROVE  /\ (n - 2 * k - 1) * gap <= (n - k - 2) * D
                    /\ D = 0 /\ ~ m.defended => gap = 0
  BY DEF StaysNear
<1>1. /\ B \in SUBSET (1 .. n) /\ H = (1 .. n) \ B /\ IsFiniteSet(B) /\ IsFiniteSet(H)
      /\ k \in Nat /\ Cardinality(H) = n - k
  <2>1. IsFiniteSet(1 .. n) /\ Cardinality(1 .. n) = n
    BY FS_Interval
  <2>2. B \in SUBSET (1 .. n) /\ H = (1 .. n) \ B
    BY DEF Byzantine, Honest
  <2> HIDE DEF B, H
  <2>3. IsFiniteSet(B) /\ (1 .. n) \cap B = B
    BY <2>1, <2>2, FS_Subset
  <2>4. IsFiniteSet((1 .. n) \ B) /\ Cardinality((1 .. n) \ B) = n - Cardinality(B)
    <3> DEFINE all == 1 .. n
    <3> HIDE DEF all
    <3>1. IsFiniteSet(all \ B) /\ Cardinality(all \ B) = Cardinality(all) - Cardinality(all \cap B)
      BY <2>1, FS_Difference DEF all
    <3> QED
      BY <2>1, <2>3, <3>1 DEF all
  <2>5. Cardinality(B) \in Nat
    BY <2>3, FS_CardinalityType
  <2> QED
    BY <2>2, <2>3, <2>4, <2>5
<1>2. /\ count = NeighborsCount(Len(clients), Cardinality(Byzantine(clients)))
      /\ count \in 0 .. n - 1 /\ count >= 1
  BY <1>1 DEF NeighborsCount
<1>3. \A i, j \in 1 .. n : dist(i, j) \in Nat /\ dist(i, i) = 0
  BY Apart
<1> HIDE DEF dist
<1>4. PICK h \in H : TRUE
  <2>1. H # {}
    BY <1>1, FS_EmptySet
  <2> QED
    BY <2>1
<1>5. D \in Nat /\ \A i, j \in H : dist(i, j) <= D
  <2> DEFINE f == [p \in H \X H |-> dist(p[1], p[2])]
             S == {f[p] : p \in H \X H}
             T == {EuclideanDistance(clients[i].gradient, clients[j].gradient) : i \in H, j \in H}
  <2>1. T = {dist(i, j) : i \in H, j \in H}
    BY DEF dist
  <2> HIDE DEF T, H
  <2>2. T \subseteq S
    <3> SUFFICES ASSUME NEW i \in H, NEW j \in H PROVE dist(i, j) \in S
      BY <2>1
    <3>1. <<i, j>> \in H \X H /\ f[<<i, j>>] = dist(i, j)
      OBVIOUS
    <3> HIDE DEF f
    <3> QED
      BY <3>1
  <2>3. IsFiniteSet(T)
    <3>1. IsFiniteSet(H \X H)
      BY <1>1, FS_Product
    <3> HIDE DEF f
    <3>2. IsFiniteSet(S)
      BY <3>1, FiniteValues
    <3> QED
      BY <2>2, <3>2, FS_Subset
  <2>4. T \subseteq Nat /\ T # {}
    <3>1. \A i, j \in H : dist(i, j) \in Nat
      BY <1>1, <1>3
    <3>2. dist(h, h) \in T
      BY <2>1
    <3>3. \A x \in T : x \in Nat
      BY <2>1, <3>1
    <3> QED
      BY <3>2, <3>3
  <2>5. D = Max(T)
    BY DEF Diameter, T, H
  <2> HIDE DEF S
  <2>6. Max(T) \in T /\ \A y \in T : Max(T) >= y
    <3>1. T \subseteq Int
      BY <2>4
    <3> QED
      BY <2>3, <2>4, <3>1, FiniteGreatest DEF Max
  <2>7. \A i, j \in H : dist(i, j) \in T
    BY <2>1
  <2>8. \A y \in T : y \in Nat /\ D \in Nat /\ y <= D
    BY <2>4, <2>5, <2>6
  <2> QED
    BY <2>5, <2>6, <2>7, <2>8
<1>6. KrumScore(clients, h) <= count * D
  <2> DEFINE d == Distances(clients, h)
  <2>0. h \in 1 .. n
    BY <1>1, <1>4
  <2>1. IsFiniteSet(H \ {h}) /\ Cardinality(H \ {h}) = n - k - 1
    BY <1>1, <1>4, Smaller
  <2>2. count \in 0 .. Cardinality(H \ {h})
    BY <1>1, <1>2, <2>1
  <2>3. PICK near \in SUBSET (H \ {h}) : Cardinality(near) = count
    <3> HIDE DEF H, count
    <3> QED
      BY <2>1, <2>2, PartOfSize
  <2>4. near \in SUBSET ((1 .. n) \ {h}) /\ IsFiniteSet(near)
    BY <1>1, <2>1, <2>3, FS_Subset
  <2>5. \A j \in near : d[j] \in Int /\ d[j] <= D
    <3> TAKE j \in near
    <3>1. d[j] = dist(h, j)
      BY <2>4 DEF Distances, dist
    <3> HIDE DEF d
    <3> QED
      BY <1>1, <1>3, <1>4, <1>5, <2>3, <3>1
  <2>6. SumFunctionOnSet(d, near) <= count * D /\ SumFunctionOnSet(d, near) \in Int
    <3>1. D \in Int
      BY <1>5
    <3> HIDE DEF d, D, count
    <3> QED
      BY <2>3, <2>4, <2>5, <3>1, SumAtMost, SumInt
  <2>7. KrumScore(clients, h) <= SumFunctionOnSet(d, near) /\ KrumScore(clients, h) \in Nat
    <3> HIDE DEF count
    <3> QED
      BY <1>2, <2>0, <2>3, <2>4, Scored
  <2>8. count * D \in Int
    BY <1>1, <1>5
  <2> HIDE DEF d, count, D
  <2> QED
    BY <2>6, <2>7, <2>8
<1>7. best \in 1 .. n /\ \A j \in 1 .. n : KrumScore(clients, best) <= KrumScore(clients, j)
  <2> DEFINE scores == [i \in 1 .. n |-> KrumScore(clients, i)]
             T == {scores[i] : i \in 1 .. n}
             bests == {i \in 1 .. n : \A j \in 1 .. n : scores[i] <= scores[j]}
  <2>1. \A i \in 1 .. n : scores[i] = KrumScore(clients, i) /\ scores[i] \in Nat
    <3> HIDE DEF count
    <3> QED
      BY <1>2, Scored
  <2>2. best = Min(bests)
    BY DEF EvaluateAggregationRobustness, BestIdx
  <2> HIDE DEF scores, best
  <2>3. T \subseteq Nat /\ T # {}
    BY <1>1, <1>4, <2>1
  <2>4. PICK x \in T : \A y \in T : x <= y
    <3> HIDE DEF T
    <3> QED
      BY <2>3, Least
  <2>5. PICK i \in 1 .. n : x = scores[i]
    BY <2>4
  <2>6. i \in bests
    BY <2>4, <2>5
  <2>7. bests \subseteq Nat /\ bests # {}
    <3>1. \A j \in bests : j \in 1 .. n
      OBVIOUS
    <3> HIDE DEF bests
    <3> QED
      BY <2>6, <3>1
  <2>8. Min(bests) \in bests
    <3> HIDE DEF bests
    <3> QED
      BY <2>7, LeastOf
  <2> QED
    BY <2>1, <2>2, <2>8
<1> HIDE DEF best
<1>8. gap \in Nat /\ \A j \in H : gap <= dist(best, j)
  <2> DEFINE T == {dist(best, j) : j \in H}
  <2>1. gap = Min(T)
    BY DEF Gap, dist
  <2>2. T \subseteq Nat /\ T # {}
    BY <1>1, <1>3, <1>4, <1>7
  <2>3. Min(T) \in T /\ \A y \in T : Min(T) <= y
    <3> HIDE DEF T
    <3> QED
      BY <2>2, LeastOf
  <2> HIDE DEF gap
  <2> QED
    BY <2>1, <2>2, <2>3
<1>9. KrumScore(clients, best) <= count * D
  <2>1. KrumScore(clients, best) \in Nat /\ KrumScore(clients, h) \in Nat
    <3>1. h \in 1 .. n
      BY <1>1
    <3> HIDE DEF count
    <3> QED
      BY <1>2, <1>7, <3>1, Scored
  <2>2. KrumScore(clients, best) <= KrumScore(clients, h)
    BY <1>1, <1>7
  <2>3. count * D \in Int
    BY <1>1, <1>5
  <2> HIDE DEF count, D
  <2> QED
    BY <1>6, <2>1, <2>2, <2>3
<1>10. n - 2 * k - 1 \in Nat /\ n - 2 * k - 1 >= 2 /\ count \in Nat
  BY <1>1, <1>2
<1>11. CASE best \in H
  <2>1. gap = 0
    BY <1>3, <1>7, <1>8, <1>11
  <2>2. (n - 2 * k - 1) * 0 = 0
    BY <1>10
  <2>3. count * D >= 0
    <3> HIDE DEF count, D
    <3> QED
      BY <1>5, <1>10
  <2> HIDE DEF gap, D
  <2> QED
    BY <2>1, <2>2, <2>3
<1>12. CASE best \notin H
  <2> DEFINE d == Distances(clients, best)
  <2>1. PICK near \in SUBSET ((1 .. n) \ {best}) :
           /\ Cardinality(near) = count
           /\ KrumScore(clients, best) = SumFunctionOnSet(d, near)
    <3> HIDE DEF count
    <3> QED
      BY <1>2, <1>7, Scored
  <2> DEFINE P == near \cap H
             p == Cardinality(P)
             few == n - 2 * k - 1
  <2>2. IsFiniteSet(near) /\ IsFiniteSet(P) /\ p \in Nat /\ P \in SUBSET near
    <3>1. IsFiniteSet(1 .. n) /\ near \in SUBSET (1 .. n)
      BY FS_Interval
    <3>2. IsFiniteSet(near)
      BY <3>1, FS_Subset
    <3>3. IsFiniteSet(P)
      BY <3>2, FS_Subset
    <3> QED
      BY <3>2, <3>3, FS_CardinalityType
  <2>3. p >= few
    <3>1. best \in B /\ near \ H \in SUBSET (B \ {best})
      BY <1>1, <1>7, <1>12
    <3>2. IsFiniteSet(B \ {best}) /\ Cardinality(B \ {best}) = k - 1
      BY <1>1, <3>1, Smaller
    <3>3. Cardinality(near \ H) <= k - 1 /\ Cardinality(near \ H) \in Nat
      BY <3>1, <3>2, FS_Subset, FS_CardinalityType
    <3>4. Cardinality(near \ H) = count - p
      BY <2>1, <2>2, FS_Difference
    <3> HIDE DEF p, k
    <3> QED
      BY <1>1, <2>2, <3>3, <3>4
  <2>4. \A j \in near : d[j] = dist(best, j) /\ d[j] \in Nat
    <3> TAKE j \in near
    <3>1. d[j] = dist(best, j)
      BY DEF Distances, dist
    <3> QED
      BY <1>3, <1>7, <3>1
  <2>5. SumFunctionOnSet(d, P) <= SumFunctionOnSet(d, near)
    <3> HIDE DEF d, P
    <3> QED
      BY <2>2, <2>4, SumOfPart
  <2>6. SumFunctionOnSet(d, P) >= p * gap
    <3>1. /\ \A j \in P : d[j] \in Int
          /\ \A j \in P : d[j] >= gap
      BY <1>8, <2>4
    <3>2. gap \in Int
      BY <1>8
    <3> HIDE DEF d, P, gap
    <3> QED
      BY <2>2, <3>1, <3>2, SumAtLeast
  <2>7. SumFunctionOnSet(d, P) \in Int /\ SumFunctionOnSet(d, near) \in Int
    <3>1. \A j \in P : d[j] \in Int
      BY <2>4
    <3>2. \A j \in near : d[j] \in Int
      BY <2>4
    <3> HIDE DEF d, P
    <3> QED
      BY <2>2, <3>1, <3>2, SumInt
  <2>8. few * gap <= p * gap /\ few * gap \in Int /\ p * gap \in Int
    <3>1. gap * few <= gap * p /\ gap * few \in Nat /\ gap * p \in Nat
      <4> HIDE DEF gap, few, p
      <4> QED
        BY <1>8, <1>10, <2>2, <2>3, Product DEF few
    <3>2. gap * few = few * gap /\ gap * p = p * gap
      <4> HIDE DEF gap, few, p
      <4> QED
        BY <1>8, <1>10, <2>2 DEF few
    <3> QED
      BY <3>1, <3>2
  <2>9. count * D \in Int
    BY <1>1, <1>5
  <2>10. few * gap <= count * D
    <3> DEFINE x == few * gap
               y == p * gap
               z == count * D
               s == SumFunctionOnSet(d, P)
               t == SumFunctionOnSet(d, near)
    <3>1. x <= y /\ y <= s /\ s <= t /\ t <= z
      BY <1>9, <2>1, <2>5, <2>6, <2>8
    <3>2. x \in Int /\ y \in Int /\ z \in Int /\ s \in Int /\ t \in Int
      BY <2>7, <2>8, <2>9
    <3> HIDE DEF x, y, z, s, t
    <3>3. x <= z
      BY <3>1, <3>2
    <3> QED
      BY <3>3 DEF x, z
  <2>11. D = 0 => gap = 0
    <3> HIDE DEF gap, D
    <3>1. D = 0 => count * D = 0
      BY <1>10
    <3>2. few >= 2 /\ few \in Nat /\ gap \in Nat
      BY <1>8, <1>10
    <3>3. gap # 0 => few * gap > 0
      <4> HIDE DEF few
      <4> QED
        BY <3>2
    <3> HIDE DEF count
    <3> QED
      BY <2>8, <2>9, <2>10, <3>1, <3>3
  <2> QED
    BY <2>10, <2>11
<1> QED
  BY <1>11, <1>12

Clients == unit = "krum" => input \in Seq(Client)

LEMMA ClientsNear == Clients => KrumStaysNear
<1> SUFFICES ASSUME unit = "krum", input \in Seq(Client)
             PROVE  StaysNear(input)
  BY DEF Clients, KrumStaysNear
<1>1. Len(input) \in Nat /\ \A i \in 1 .. Len(input) : input[i] \in Client
  OBVIOUS
<1>2. \A i \in 1 .. Len(input) : input[i].gradient \in [size : Nat, value : Int]
  <2>1. \A c \in Client : c.gradient \in [size : Nat, value : Int]
    BY GradientAssumption DEF Client
  <2> QED
    BY <1>1, <2>1
<1> QED
  BY <1>1, <1>2, Near

(* For federations of every size and gradients of every value, with more than       *)
(* 2 k + 2 clients of whom k are Byzantine, the gradient Krum selects is no further  *)
(* from an honest one than the honest clients' own spread allows.                *)
THEOREM KrumHolds == Spec => []KrumStaysNear
<1>1. Init => Clients
  BY DEF Init, Clients
<1>2. Clients /\ [Next]_vars => Clients'
  <2> SUFFICES ASSUME Clients, [Next]_vars, unit' = "krum" PROVE input' \in Seq(Client)
    BY DEF Clients, Client
  <2>1. unit = "krum" /\ input \in Seq(Client)
    BY DEF Next, vars, Clients
  <2>2. CASE UNCHANGED input
    BY <2>1, <2>2
  <2>3. ASSUME NEW c \in Client, input' = Append(input, c) PROVE input' \in Seq(Client)
    BY <2>1, <2>3, Grown
  <2> QED
    BY <2>1, <2>2, <2>3 DEF Next, vars
<1>3. Clients => KrumStaysNear
  BY ClientsNear
<1> QED
  BY <1>1, <1>2, <1>3, PTL DEF Spec
-----------------------------------------------------------------------------
(* A ranking names every place once: what is in one ranking is in the other.      *)
Ranked(r, n, a) == /\ r \in [1 .. n -> 1 .. n]
                   /\ \A i, j \in 1 .. n : i < j => r[i] # r[j] /\ a[r[i]] >= a[r[j]]
                   /\ \A i, j \in 1 .. n : r[i] = r[j] => i = j
                   /\ \A x \in 1 .. n : \E i \in 1 .. n : r[i] = x

LEMMA RanksAll == ASSUME NEW n \in Nat, NEW a, Len(a) = n, NEW r \in Rankings(a)
                  PROVE  Ranked(r, n, a)
<1>1. /\ r \in [1 .. n -> 1 .. n]
      /\ \A i, j \in 1 .. n : i < j => r[i] # r[j] /\ a[r[i]] >= a[r[j]]
  BY DEF Rankings
<1>2. ASSUME NEW i \in 1 .. n, NEW j \in 1 .. n, r[i] = r[j] PROVE i = j
  <2>1. ~ (i < j) /\ ~ (j < i)
    BY <1>1, <1>2
  <2> QED
    BY <2>1
<1>3. r \in Injection(1 .. n, 1 .. n)
  BY <1>1, <1>2 DEF Injection, IsInjective
<1>4. IsFiniteSet(1 .. n)
  BY FS_Interval
<1>5. r \in Surjection(1 .. n, 1 .. n)
  BY <1>3, <1>4, FS_Injection
<1>6. \A x \in 1 .. n : \E i \in 1 .. n : r[i] = x
  BY <1>5 DEF Surjection
<1> QED
  BY <1>1, <1>2, <1>6 DEF Ranked

LEMMA Places == ASSUME NEW a, NEW b, NEW n \in Nat, NEW ra, NEW rb,
                       Ranked(ra, n, a), Ranked(rb, n, b)
                PROVE  /\ Inversions(ra, rb) \in Nat
                       /\ Inversions(ra, rb) = 0 <=> \A i \in 1 .. n : ra[i] = rb[i]
                       /\ Inversions(ra, rb) = 1 =>
                             \E p \in 1 .. n : /\ ra[p] # rb[p]
                                               /\ \A i \in 1 .. n : ra[i] # rb[i] => i = p
<1> DEFINE D == {i \in 1 .. n : ra[i] # rb[i]}
<1>1. ra \in [1 .. n -> 1 .. n] /\ rb \in [1 .. n -> 1 .. n]
  BY DEF Ranked
<1>2. Len(ra) = n
  BY <1>1
<1>3. Inversions(ra, rb) = Cardinality(D)
  BY <1>2 DEF Inversions
<1>4. IsFiniteSet(D)
  BY FS_Interval, FS_Subset
<1>5. Cardinality(D) \in Nat /\ (Cardinality(D) = 0 <=> D = {})
      /\ (Cardinality(D) = 1 => \E p : D = {p})
  <2> HIDE DEF D
  <2> QED
    BY <1>4, FS_CardinalityType, FS_EmptySet, FS_Singleton
<1>6. D = {} <=> \A i \in 1 .. n : ra[i] = rb[i]
  OBVIOUS
<1>7. ASSUME NEW p, D = {p}
      PROVE  /\ p \in 1 .. n /\ ra[p] # rb[p]
             /\ \A i \in 1 .. n : ra[i] # rb[i] => i = p
  BY <1>7
<1> QED
  BY <1>3, <1>5, <1>6, <1>7

(* Two orders of the same places never differ in one rank alone.                 *)
LEMMA NeverOne == ASSUME NEW a, NEW b, NEW n \in Nat, NEW ra, NEW rb,
                         Ranked(ra, n, a), Ranked(rb, n, b)
                  PROVE  Inversions(ra, rb) # 1
<1> SUFFICES ASSUME NEW p \in 1 .. n, ra[p] # rb[p],
                    \A i \in 1 .. n : ra[i] # rb[i] => i = p
             PROVE  FALSE
  BY Places
<1>1. ra[p] \in 1 .. n
  BY DEF Ranked
<1>2. PICK q \in 1 .. n : rb[q] = ra[p]
  BY <1>1 DEF Ranked
<1>3. q # p /\ ra[q] = rb[q]
  BY <1>2
<1> QED
  BY <1>2, <1>3 DEF Ranked

(* Where the places of two strict orders agree in direction, the orders are one:   *)
(* look at the first rank in which they differ.                                   *)
LEMMA SameRanking == ASSUME NEW n \in Nat, NEW a, NEW b, NEW ra, NEW rb, Len(a) = n,
                            \A i \in 1 .. n : a[i] \in Int /\ b[i] \in Int,
                            StrictlyOrdered(a), SameOrder(a, b),
                            Ranked(ra, n, a), Ranked(rb, n, b)
                     PROVE  \A i \in 1 .. n : ra[i] = rb[i]
<1> DEFINE D == {i \in 1 .. n : ra[i] # rb[i]}
<1> SUFFICES ASSUME D # {} PROVE FALSE
  OBVIOUS
<1>1. D \in SUBSET Nat
  OBVIOUS
<1>2. PICK p \in D : \A j \in D : p <= j
  <2> HIDE DEF D
  <2> QED
    BY <1>1, Least
<1>3. /\ p \in 1 .. n /\ ra[p] # rb[p]
      /\ \A q \in 1 .. n : q < p => ra[q] = rb[q]
  BY <1>2
<1>4. ra[p] \in 1 .. n /\ rb[p] \in 1 .. n
  BY <1>3 DEF Ranked
<1>5. PICK s \in 1 .. n : rb[s] = ra[p]
  BY <1>4 DEF Ranked
<1>6. PICK t \in 1 .. n : ra[t] = rb[p]
  BY <1>4 DEF Ranked
<1>7. p < s
  <2>1. s # p
    BY <1>3, <1>5
  <2>2. ASSUME s < p PROVE FALSE
    <3>1. ra[s] = ra[p]
      BY <1>3, <1>5, <2>2
    <3> QED
      BY <1>3, <2>2, <3>1 DEF Ranked
  <2> QED
    BY <1>3, <2>1, <2>2
<1>8. p < t
  <2>1. t # p
    BY <1>3, <1>6
  <2>2. ASSUME t < p PROVE FALSE
    <3>1. rb[t] = rb[p]
      BY <1>3, <1>6, <2>2
    <3> QED
      BY <1>3, <2>2, <3>1 DEF Ranked
  <2> QED
    BY <1>3, <2>1, <2>2
<1>9. a[ra[p]] >= a[rb[p]] /\ b[rb[p]] >= b[ra[p]]
  BY <1>3, <1>5, <1>6, <1>7, <1>8 DEF Ranked
<1>10. a[ra[p]] > a[rb[p]]
  BY <1>3, <1>4, <1>9 DEF StrictlyOrdered
<1>11. b[ra[p]] > b[rb[p]]
  BY <1>4, <1>10 DEF SameOrder
<1> QED
  BY <1>4, <1>9, <1>11

(* One ranking of both: whoever is ahead in a is not behind in b.               *)
LEMMA OneRanking == ASSUME NEW n \in Nat, NEW a, NEW b, NEW ra, NEW rb,
                           \A i \in 1 .. n : a[i] \in Int /\ b[i] \in Int,
                           Ranked(ra, n, a), Ranked(rb, n, b),
                           \A i \in 1 .. n : ra[i] = rb[i],
                           NEW i \in 1 .. n, NEW j \in 1 .. n, a[i] > a[j]
                    PROVE  b[i] >= b[j]
<1>1. PICK p \in 1 .. n : ra[p] = i
  BY DEF Ranked
<1>2. PICK q \in 1 .. n : ra[q] = j
  BY DEF Ranked
<1>3. p < q
  <2>1. p # q
    BY <1>1, <1>2
  <2>2. ASSUME q < p PROVE FALSE
    <3>1. a[j] >= a[i]
      BY <1>1, <1>2, <2>2 DEF Ranked
    <3> QED
      BY <3>1
  <2> QED
    BY <2>1, <2>2
<1>4. b[rb[p]] >= b[rb[q]]
  BY <1>3 DEF Ranked
<1> QED
  BY <1>1, <1>2, <1>4

(* What a count of inversions says of the two vectors it is from. *)
CountMeans(a, b, n, count) ==
    /\ count \in Nat
    /\ count = 0 => \A i, j \in 1 .. n : a[i] > a[j] => b[i] >= b[j]
    /\ StrictlyOrdered(a) /\ SameOrder(a, b) => count = 0
    /\ count # 1

LEMMA Counted == ASSUME NEW a, NEW b, NEW n \in Nat, Len(a) = n, Len(b) = n, n # 0,
                        \A i \in 1 .. n : a[i] \in Int /\ b[i] \in Int,
                        NEW count \in InversionCounts(a, b)
                 PROVE  CountMeans(a, b, n, count)
<1>1. PICK ra \in Rankings(a), rb \in Rankings(b) : count = Inversions(ra, rb)
  <2>1. Comparable(a, b)
    BY DEF Comparable
  <2> QED
    BY <2>1 DEF InversionCounts
<1>2. Ranked(ra, n, a) /\ Ranked(rb, n, b)
  BY RanksAll
<1>3. count \in Nat /\ (count = 0 <=> \A i \in 1 .. n : ra[i] = rb[i])
  <2>1. /\ Inversions(ra, rb) \in Nat
        /\ Inversions(ra, rb) = 0 <=> \A i \in 1 .. n : ra[i] = rb[i]
    <3>1. Ranked(ra, n, a) /\ Ranked(rb, n, b)
      BY <1>2
    <3>2. n \in Nat
      OBVIOUS
    <3> QED
      BY ONLY <3>1, <3>2, Places
  <2> QED
    BY <1>1, <2>1
<1>4. ASSUME count = 0, NEW i \in 1 .. n, NEW j \in 1 .. n, a[i] > a[j] PROVE b[i] >= b[j]
  BY <1>2, <1>3, <1>4, OneRanking
<1>5. ASSUME StrictlyOrdered(a), SameOrder(a, b) PROVE count = 0
  <2>1. /\ n \in Nat /\ Len(a) = n /\ Ranked(ra, n, a) /\ Ranked(rb, n, b)
        /\ \A i \in 1 .. n : a[i] \in Int /\ b[i] \in Int
    BY <1>2
  <2>2. \A i \in 1 .. n : ra[i] = rb[i]
    BY ONLY <1>5, <2>1, SameRanking
  <2> QED
    BY <1>3, <2>2
<1>6. count # 1
  BY <1>1, <1>2, NeverOne
<1> QED
  BY <1>3, <1>4, <1>5, <1>6 DEF CountMeans

Products(a, b, n) == [i \in 1 .. n |-> a[i] * b[i]]

LEMMA DotIs == ASSUME NEW a, NEW b, NEW n \in Nat, Len(a) = n,
                      \A i \in 1 .. n : a[i] \in Int /\ b[i] \in Int
               PROVE  /\ Dot(a, b) = SumFunctionOnSet(Products(a, b, n), 1 .. n)
                      /\ \A i \in 1 .. n : Products(a, b, n)[i] = a[i] * b[i]
                      /\ \A i \in 1 .. n : Products(a, b, n)[i] \in Int
                      /\ IsFiniteSet(1 .. n)
                      /\ Dot(a, b) \in Int
<1>1. Dot(a, b) = SumFunction(Products(a, b, n))
  BY DEF Dot, Products
<1>2. /\ DOMAIN Products(a, b, n) = 1 .. n
      /\ \A i \in 1 .. n : Products(a, b, n)[i] = a[i] * b[i]
  BY DEF Products
<1>3. Dot(a, b) = SumFunctionOnSet(Products(a, b, n), 1 .. n)
  BY <1>1, <1>2, SumIs
<1>4. \A i \in 1 .. n : a[i] * b[i] \in Int
  OBVIOUS
<1>5. \A i \in 1 .. n : Products(a, b, n)[i] \in Int
  BY <1>2, <1>4
<1>6. IsFiniteSet(1 .. n)
  BY FS_Interval
<1> DEFINE f == Products(a, b, n)
           all == 1 .. n
<1>7. SumFunctionOnSet(f, all) \in Int
  <2>1. IsFiniteSet(all) /\ \A i \in all : f[i] \in Int
    BY <1>5, <1>6
  <2> HIDE DEF f, all
  <2> QED
    BY <2>1, SumInt
<1> QED
  BY <1>2, <1>3, <1>5, <1>6, <1>7

(* Logits none of which kept its sign do not point the same way. *)
LEMMA Opposed == ASSUME NEW a, NEW b, NEW n \in Nat, Len(a) = n,
                        \A i \in 1 .. n : a[i] \in Int /\ b[i] \in Int,
                        \A i \in 1 .. n : ~ (a[i] * b[i] > 0)
                 PROVE  ~ (Dot(a, b) > 0)
<1> DEFINE f == Products(a, b, n)
           all == 1 .. n
           c == 0
<1>1. /\ Dot(a, b) = SumFunctionOnSet(f, all)
      /\ \A i \in all : f[i] = a[i] * b[i]
      /\ \A i \in all : f[i] \in Int
      /\ IsFiniteSet(all)
  BY DotIs
<1>2. \A i \in all : f[i] <= c
  <2> TAKE i \in all
  <2>1. f[i] = a[i] * b[i] /\ f[i] \in Int
    BY <1>1
  <2> HIDE DEF f
  <2>2. ~ (f[i] > 0)
    BY <2>1
  <2> QED
    BY <2>1, <2>2
<1>3. c \in Int
  OBVIOUS
<1> HIDE DEF f, all, c
<1>4. SumFunctionOnSet(f, all) <= Cardinality(all) * c
  BY <1>1, <1>2, <1>3, SumAtMost
<1>5. Cardinality(all) \in Nat
  BY <1>1, FS_CardinalityType
<1>6. Cardinality(all) * c = 0
  BY <1>5 DEF c
<1>7. SumFunctionOnSet(f, all) \in Int
  BY <1>1, SumInt
<1> QED
  BY <1>1, <1>4, <1>6, <1>7

(* A vector that is not all zeros points its own way. *)
LEMMA OwnWay == ASSUME NEW a, NEW n \in Nat, Len(a) = n, \A i \in 1 .. n : a[i] \in Int,
                       NEW y \in 1 .. n, a[y] # 0
                PROVE  Dot(a, a) \in Int /\ Dot(a, a) > 0
<1> DEFINE f == Products(a, a, n)
           all == 1 .. n
           rest == all \ {y}
           c == 0
<1>1. /\ Dot(a, a) = SumFunctionOnSet(f, all)
      /\ \A i \in all : f[i] = a[i] * a[i]
      /\ \A i \in all : f[i] \in Int
      /\ IsFiniteSet(all)
      /\ Dot(a, a) \in Int
  BY DotIs
<1>2. \A x \in Int : x * x >= 0 /\ (x # 0 => x * x > 0)
  OBVIOUS
<1>3. \A i \in all : f[i] >= c
  <2> TAKE i \in all
  <2>1. f[i] = a[i] * a[i] /\ a[i] \in Int
    BY <1>1
  <2>2. a[i] * a[i] >= 0
    BY <1>2, <2>1
  <2> HIDE DEF f
  <2> QED
    BY <2>1, <2>2
<1>4. f[y] > 0
  <2>1. f[y] = a[y] * a[y] /\ a[y] \in Int
    BY <1>1
  <2>2. a[y] * a[y] > 0
    BY <1>2, <2>1
  <2> HIDE DEF f
  <2> QED
    BY <2>1, <2>2
<1>5. y \in all /\ rest \in SUBSET all
  OBVIOUS
<1>6. c \in Int
  OBVIOUS
<1> HIDE DEF f, all, c
<1>7. IsFiniteSet(rest) /\ Cardinality(rest) \in Nat
  BY <1>1, <1>5, FS_Subset, FS_CardinalityType
<1>8. SumFunctionOnSet(f, all) = f[y] + SumFunctionOnSet(f, rest)
  <2>1. IsFiniteSet(all) /\ (\A i \in all : f[i] \in Int) /\ y \in all
    BY <1>1, <1>5
  <2>2. SumFunctionOnSet(f, all) = f[y] + SumFunctionOnSet(f, all \ {y})
    BY <2>1, SumRemove
  <2> QED
    BY <2>2
<1>9. \A i \in rest : f[i] \in Int
  BY <1>1, <1>5
<1>10. \A i \in rest : f[i] >= c
  BY <1>3, <1>5
<1> HIDE DEF rest
<1>11. SumFunctionOnSet(f, rest) >= Cardinality(rest) * c /\ SumFunctionOnSet(f, rest) \in Int
  BY <1>6, <1>7, <1>9, <1>10, SumAtLeast, SumInt
<1>12. Cardinality(rest) * c = 0
  BY <1>7 DEF c
<1>13. f[y] \in Int
  BY <1>1, <1>5
<1> QED
  BY <1>1, <1>4, <1>8, <1>11, <1>12, <1>13

LEMMA OwnCosine == ASSUME NEW a, NEW n \in Nat, Len(a) = n, a # <<>>,
                          \A i \in 1 .. n : a[i] \in Int, NEW y \in 1 .. n, a[y] # 0
                   PROVE  CosineSuffices(a, a)
<1> DEFINE d == Dot(a, a)
<1>1. d \in Int /\ d > 0
  BY OwnWay
<1> HIDE DEF d
<1> DEFINE e == d * d
<1>2. e \in Nat
  BY <1>1
<1>3. 200 * 200 * d * d = 40000 * e /\ 197 * 197 * d * d = 38809 * e
  BY <1>1
<1> HIDE DEF e
<1>4. 200 * 200 * d * d >= 197 * 197 * d * d
  BY <1>2, <1>3
<1> QED
  BY <1>1, <1>4 DEF CosineSuffices, Comparable, d

Vectors(l, ql, a, b) == /\ l \in Seq(Int) /\ ql \in Seq(Int) /\ a \in Seq(Int) /\ b \in Seq(Int)

LEMMA Typed == ASSUME NEW v \in Seq(Int)
               PROVE  /\ Len(v) \in Nat /\ \A i \in 1 .. Len(v) : v[i] \in Int
                      /\ v # <<>> => Len(v) # 0
OBVIOUS

LEMMA SlaKeeps == ASSUME NEW l, NEW ql, NEW a, NEW b, Vectors(l, ql, a, b)
                  PROVE  SlaKeepsRanking(l, ql, a, b)
<1> SUFFICES ASSUME TRUE \in EvaluateBackendDrift(l, ql, a, b), Len(a) < 20
             PROVE  /\ Comparable(l, ql)
                    /\ \E i \in 1 .. Len(l) : l[i] * ql[i] > 0
                    /\ Comparable(a, b) =>
                          \A i, j \in 1 .. Len(a) : a[i] > a[j] => b[i] >= b[j]
  BY DEF SlaKeepsRanking
<1>1. PICK count \in InversionCounts(a, b) : CosineSuffices(l, ql) /\ 100 * count <= 5 * Len(a)
  BY DEF EvaluateBackendDrift
<1>2. Comparable(l, ql) /\ Dot(l, ql) > 0
  BY <1>1 DEF CosineSuffices
<1>3. \E i \in 1 .. Len(l) : l[i] * ql[i] > 0
  <2> SUFFICES ASSUME \A i \in 1 .. Len(l) : ~ (l[i] * ql[i] > 0) PROVE FALSE
    OBVIOUS
  <2> DEFINE n == Len(l)
  <2>1. n \in Nat /\ Len(ql) = n /\ \A i \in 1 .. n : l[i] \in Int /\ ql[i] \in Int
    BY <1>2, Typed DEF Vectors, Comparable
  <2> QED
    BY <1>2, <2>1, Opposed
<1>4. ASSUME Comparable(a, b)
      PROVE  \A i, j \in 1 .. Len(a) : a[i] > a[j] => b[i] >= b[j]
  <2> DEFINE n == Len(a)
  <2>1. n \in Nat /\ Len(b) = n /\ n # 0 /\ \A i \in 1 .. n : a[i] \in Int /\ b[i] \in Int
    BY <1>4, Typed DEF Vectors, Comparable
  <2>2. CountMeans(a, b, n, count)
    BY <2>1, Counted
  <2>3. count \in Nat
    BY <2>2 DEF CountMeans
  <2>4. 100 * count <= 5 * n /\ n < 20
    BY <1>1
  <2> HIDE DEF n
  <2>5. count = 0
    BY <2>1, <2>3, <2>4
  <2>6. \A i, j \in 1 .. n : a[i] > a[j] => b[i] >= b[j]
    BY <2>2, <2>5 DEF CountMeans
  <2> QED
    BY <2>6 DEF n
<1> QED
  BY <1>2, <1>3, <1>4

LEMMA Faithful == ASSUME NEW l, NEW a, NEW b, Vectors(l, l, a, b)
                  PROVE  FaithfulSatisfies(l, a, b)
<1> SUFFICES ASSUME NEW y \in 1 .. Len(l), l[y] # 0,
                    Comparable(a, b), StrictlyOrdered(a), SameOrder(a, b),
                    NEW count \in InversionCounts(a, b)
             PROVE  CosineSuffices(l, l) /\ 100 * count <= 5 * Len(a)
  BY DEF FaithfulSatisfies, EvaluateBackendDrift
<1>1. CosineSuffices(l, l)
  <2> DEFINE n == Len(l)
  <2>1. n \in Nat /\ l # <<>> /\ \A i \in 1 .. n : l[i] \in Int
    BY Typed DEF Vectors
  <2> QED
    BY <2>1, OwnCosine
<1>2. 100 * count <= 5 * Len(a)
  <2> DEFINE n == Len(a)
  <2>1. n \in Nat /\ Len(b) = n /\ n # 0 /\ \A i \in 1 .. n : a[i] \in Int /\ b[i] \in Int
    BY Typed DEF Vectors, Comparable
  <2>2. CountMeans(a, b, n, count)
    BY <2>1, Counted
  <2>3. count = 0
    BY <2>2 DEF CountMeans
  <2> HIDE DEF n
  <2>4. 100 * count <= 5 * n
    BY <2>1, <2>3
  <2> QED
    BY <2>4 DEF n
<1> QED
  BY <1>1, <1>2

LEMMA NotOne == ASSUME NEW a \in Seq(Int), NEW b \in Seq(Int) PROVE 1 \notin InversionCounts(a, b)
<1>1. CASE Comparable(a, b)
  <2> SUFFICES ASSUME NEW count \in InversionCounts(a, b) PROVE count # 1
    OBVIOUS
  <2> DEFINE n == Len(a)
  <2>1. n \in Nat /\ Len(b) = n /\ n # 0 /\ \A i \in 1 .. n : a[i] \in Int /\ b[i] \in Int
    BY <1>1, Typed DEF Comparable
  <2>2. CountMeans(a, b, n, count)
    BY <2>1, Counted
  <2> QED
    BY <2>2 DEF CountMeans
<1>2. CASE ~ Comparable(a, b)
  BY <1>2 DEF InversionCounts
<1> QED
  BY <1>1, <1>2

Compared == unit = "quant" => input = <<>> \/ input \in Drifted

LEMMA WiderSeq == ASSUME NEW R, NEW S, R \subseteq S, NEW v \in Seq(R) PROVE v \in Seq(S)
<1>1. Len(v) \in Nat /\ v \in [1 .. Len(v) -> R]
  OBVIOUS
<1>2. v \in [1 .. Len(v) -> S]
  BY <1>1
<1> QED
  BY <1>1, <1>2

LEMMA SlaMeans == Compared => SlaMeansSameRanking
<1> SUFFICES ASSUME unit = "quant", input \in Drifted
             PROVE  RankingKept(input.exact, input.quantised, input.attr, input.quantAttr)
  BY DEF Compared, SlaMeansSameRanking
<1> DEFINE l == input.exact
           ql == input.quantised
           a == input.attr
           b == input.quantAttr
<1>1. l \in Seq(Int) /\ ql \in Seq(Int) /\ a \in Seq(Attributions) /\ b \in Seq(Attributions)
  BY DEF Drifted
<1> HIDE DEF l, ql, a, b
<1>2. a \in Seq(Int) /\ b \in Seq(Int)
  BY <1>1, AttributionAssumption, WiderSeq
<1>3. Vectors(l, ql, a, b) /\ Vectors(l, l, a, b)
  BY <1>1, <1>2 DEF Vectors
<1>4. SlaKeepsRanking(l, ql, a, b)
  BY <1>3, SlaKeeps
<1>5. FaithfulSatisfies(l, a, b)
  BY <1>3, Faithful
<1>6. 1 \notin InversionCounts(a, b)
  BY <1>2, NotOne
<1>7. RankingKept(l, ql, a, b)
  BY <1>4, <1>5, <1>6 DEF RankingKept
<1> QED
  BY <1>7 DEF l, ql, a, b

(* Of fewer than 20 features, a satisfied SLA means that some logit kept its sign   *)
(* and that no two features changed places, however std::sort left the ties; a back  *)
(* end that changes no logit and keeps a strict order is always found to; and the    *)
(* count is never 1: for logits and attributions of any value, given as two           *)
(* independent pairs, and of any lengths.                                         *)
THEOREM RankingHolds == Spec => []SlaMeansSameRanking
<1>1. Init => Compared
  BY DEF Init, Compared
<1>2. Compared /\ [Next]_vars => Compared'
  <2> SUFFICES ASSUME Compared, [Next]_vars, unit' = "quant"
               PROVE  input' = <<>> \/ input' \in Drifted
    BY DEF Compared, Drifted
  <2>1. unit = "quant" /\ (input = <<>> \/ input \in Drifted)
    BY DEF Next, vars, Compared
  <2>2. CASE UNCHANGED input
    BY <2>1, <2>2
  <2>3. CASE GivesLogits
    <3>1. PICK pair \in LogitPairs :
             input' = [exact |-> pair[1], quantised |-> pair[2], attr |-> <<>>, quantAttr |-> <<>>]
      BY <2>3 DEF GivesLogits
    <3>2. pair[1] \in Seq(Int) /\ pair[2] \in Seq(Int)
      BY LogitAssumption
    <3>3. <<>> \in Seq(Attributions)
      OBVIOUS
    <3> QED
      BY <3>1, <3>2, <3>3 DEF Drifted
  <2>4. CASE GivesAttribution
    <3>1. input \in Drifted
      BY <2>1, <2>4 DEF GivesAttribution
    <3>2. PICK x \in Attributions :
             \/ input' = [input EXCEPT !.attr = Append(@, x)]
             \/ input' = [input EXCEPT !.quantAttr = Append(@, x)]
      BY <2>4 DEF GivesAttribution
    <3>3. /\ Append(input.attr, x) \in Seq(Attributions)
          /\ Append(input.quantAttr, x) \in Seq(Attributions)
      BY <3>1, Grown DEF Drifted
    <3> QED
      BY <3>1, <3>2, <3>3 DEF Drifted
  <2> QED
    BY <2>1, <2>2, <2>3, <2>4 DEF Next, vars
<1>3. Compared => SlaMeansSameRanking
  BY SlaMeans
<1> QED
  BY <1>1, <1>2, <1>3, PTL DEF Spec
-----------------------------------------------------------------------------
(* The sample the metric engine holds: one latency for each event. *)
Recorded == /\ recorded \in Seq(Bench!Event)
            /\ latencies \in Seq(Nat)
            /\ Len(latencies) = Len(recorded)

LEMMA RecordedInv == /\ Init => Recorded
                     /\ Recorded /\ [Next]_vars => Recorded'
<1>1. Init => Recorded
  BY DEF Init, Bench!Init, Recorded
<1>2. Recorded /\ [Next]_vars => Recorded'
  <2> SUFFICES ASSUME Recorded, [Next]_vars PROVE Recorded'
    OBVIOUS
  <2>1. Bench!Event' = Bench!Event
    BY DEF Bench!Event, Bench!Labels, Bench!Actions
  <2>2. CASE UNCHANGED <<latencies, recorded>>
    BY <2>1, <2>2 DEF Recorded
  <2>3. CASE Bench!Reset
    BY <2>1, <2>3 DEF Recorded, Bench!Reset
  <2>4. ASSUME Len(recorded) < MaxEvents,
               NEW e \in EventsFor(Len(recorded) + 1), Bench!RecordEvent(e)
        PROVE  Recorded'
    <3>1. /\ Len(recorded) + 1 \in 1 .. MaxEvents
          /\ recorded \in Seq(Bench!Event) /\ latencies \in Seq(Nat)
      BY <2>4, EventAssumption DEF Recorded
    <3>2. e \in Bench!Event /\ e.latency \in Nat
      <4>1. e \in Bench!Event
        BY <3>1, EventAssumption
      <4> QED
        BY <4>1 DEF Bench!Event
    <3>3. /\ recorded' = Append(recorded, e) /\ latencies' = Append(latencies, e.latency)
      BY <2>4 DEF Bench!RecordEvent
    <3>4. recorded' \in Seq(Bench!Event) /\ latencies' \in Seq(Nat)
      BY <3>1, <3>2, <3>3, Grown
    <3>5. Len(latencies') = Len(recorded')
      BY <3>1, <3>3 DEF Recorded
    <3> QED
      BY <2>1, <3>4, <3>5 DEF Recorded
  <2> QED
    BY <2>2, <2>3, <2>4 DEF Next, vars, benchVars, Bench!Next, Bench!ComputeMetrics
<1> QED
  BY <1>1, <1>2

LEMMA SameCardinality == \A S : Bench!Cardinality(S) = Cardinality(S)
BY DEF Bench!Cardinality, Cardinality

LEMMA Disjoint == ASSUME NEW S, NEW T, IsFiniteSet(S), IsFiniteSet(T), S \cap T = {}
                  PROVE  /\ IsFiniteSet(S \cup T)
                         /\ Cardinality(S \cup T) = Cardinality(S) + Cardinality(T)
<1>1. Cardinality(S) \in Nat /\ Cardinality(T) \in Nat /\ Cardinality({}) = 0
  BY FS_CardinalityType, FS_EmptySet
<1>2. /\ IsFiniteSet(S \cup T)
      /\ Cardinality(S \cup T) = Cardinality(S) + Cardinality(T) - Cardinality(S \cap T)
  BY FS_Union
<1>3. Cardinality(S \cap T) = 0
  BY <1>1
<1> QED
  BY ONLY <1>1, <1>2, <1>3

(* The events of one cell of the matrix. *)
InCell(label, dropped) ==
    {k \in 1 .. Len(recorded) : /\ recorded[k].label = label
                                /\ (recorded[k].action = "KernelDropped") = dropped}

Events(labels, actions) ==
    {k \in 1 .. Len(recorded) : recorded[k].label \in labels /\ recorded[k].action \in actions}

LEMMA NumberedIs == \A labels, actions :
                       Bench!Numbered(labels, actions) = Cardinality(Events(labels, actions))
BY SameCardinality DEF Bench!Numbered, Events

(* The counts of the sample are sums of the four cells. *)
LEMMA Counts ==
    ASSUME Recorded
    PROVE  /\ Bench!Cell(1, TRUE) \in Nat /\ Bench!Cell(0, TRUE) \in Nat
           /\ Bench!Cell(0, FALSE) \in Nat /\ Bench!Cell(1, FALSE) \in Nat
           /\ Bench!Numbered({1}, {"KernelDropped"}) = Bench!Cell(1, TRUE)
           /\ Bench!Numbered({0, 1}, {"KernelDropped"}) = Bench!Cell(1, TRUE) + Bench!Cell(0, TRUE)
           /\ Bench!Numbered({1}, Bench!Actions) = Bench!Cell(1, TRUE) + Bench!Cell(1, FALSE)
           /\ Bench!Numbered({0, 1}, Bench!Actions)
                 = Bench!Cell(1, TRUE) + Bench!Cell(0, TRUE)
                   + Bench!Cell(0, FALSE) + Bench!Cell(1, FALSE)
           /\ Bench!Numbered({0}, {"Passed", "Logged"}) = Bench!Cell(0, FALSE)
<1> DEFINE P == InCell(1, TRUE)
           Q == InCell(1, FALSE)
           R0 == InCell(0, TRUE)
           N == InCell(0, FALSE)
<1>1. Len(recorded) \in Nat
  BY DEF Recorded
<1>2. \A label, dropped : /\ Bench!Cell(label, dropped) = Cardinality(InCell(label, dropped))
                          /\ IsFiniteSet(InCell(label, dropped))
  <2> TAKE label, dropped
  <2>1. Bench!Cell(label, dropped) = Cardinality(InCell(label, dropped))
    BY SameCardinality DEF Bench!Cell, InCell
  <2>2. InCell(label, dropped) \in SUBSET (1 .. Len(recorded)) /\ IsFiniteSet(1 .. Len(recorded))
    BY <1>1, FS_Interval DEF InCell
  <2> QED
    BY <2>1, <2>2, FS_Subset
<1>3. P \cap R0 = {} /\ (P \cup R0) \cap N = {} /\ (P \cup R0 \cup N) \cap Q = {} /\ P \cap Q = {}
  BY DEF InCell
<1>4. \A k \in 1 .. Len(recorded) :
         recorded[k].label \in {-1, 0, 1} /\ recorded[k].action \in {"Passed", "Logged", "KernelDropped"}
  <2> TAKE k \in 1 .. Len(recorded)
  <2>1. recorded[k] \in Bench!Event
    BY DEF Recorded
  <2> QED
    BY <2>1 DEF Bench!Event, Bench!Labels, Bench!Actions
<1>5. /\ Events({1}, {"KernelDropped"}) = P /\ Events({0, 1}, {"KernelDropped"}) = P \cup R0
      /\ Events({0}, {"Passed", "Logged"}) = N
  BY <1>4 DEF Events, InCell
<1>6. /\ Events({1}, Bench!Actions) = P \cup Q
      /\ Events({0, 1}, Bench!Actions) = P \cup R0 \cup N \cup Q
  BY <1>4 DEF Events, InCell, Bench!Actions
<1> HIDE DEF P, Q, R0, N
<1>7. /\ Cardinality(P \cup R0) = Cardinality(P) + Cardinality(R0)
      /\ Cardinality(P \cup Q) = Cardinality(P) + Cardinality(Q)
      /\ Cardinality(P \cup R0 \cup N \cup Q)
            = Cardinality(P) + Cardinality(R0) + Cardinality(N) + Cardinality(Q)
  <2>1. IsFiniteSet(P) /\ IsFiniteSet(Q) /\ IsFiniteSet(R0) /\ IsFiniteSet(N)
    BY <1>2 DEF P, Q, R0, N
  <2>2. Cardinality(P \cup R0) = Cardinality(P) + Cardinality(R0) /\ IsFiniteSet(P \cup R0)
    BY <1>3, <2>1, Disjoint
  <2>3. /\ Cardinality(P \cup R0 \cup N) = Cardinality(P \cup R0) + Cardinality(N)
        /\ IsFiniteSet(P \cup R0 \cup N)
    BY <1>3, <2>1, <2>2, Disjoint
  <2>4. Cardinality(P \cup R0 \cup N \cup Q) = Cardinality(P \cup R0 \cup N) + Cardinality(Q)
    BY <1>3, <2>1, <2>3, Disjoint
  <2>5. Cardinality(P \cup Q) = Cardinality(P) + Cardinality(Q)
    BY <1>3, <2>1, Disjoint
  <2> QED
    BY <2>2, <2>3, <2>4, <2>5
<1>8. /\ Bench!Cell(1, TRUE) \in Nat /\ Bench!Cell(0, TRUE) \in Nat
      /\ Bench!Cell(0, FALSE) \in Nat /\ Bench!Cell(1, FALSE) \in Nat
  BY <1>2, FS_CardinalityType
<1>9. /\ Cardinality(P) = Bench!Cell(1, TRUE) /\ Cardinality(Q) = Bench!Cell(1, FALSE)
      /\ Cardinality(R0) = Bench!Cell(0, TRUE) /\ Cardinality(N) = Bench!Cell(0, FALSE)
  BY <1>2 DEF P, Q, R0, N
<1>10. /\ Bench!Numbered({1}, {"KernelDropped"}) = Cardinality(P)
       /\ Bench!Numbered({0, 1}, {"KernelDropped"}) = Cardinality(P \cup R0)
       /\ Bench!Numbered({1}, Bench!Actions) = Cardinality(P \cup Q)
       /\ Bench!Numbered({0, 1}, Bench!Actions) = Cardinality(P \cup R0 \cup N \cup Q)
       /\ Bench!Numbered({0}, {"Passed", "Logged"}) = Cardinality(N)
  BY <1>5, <1>6, NumberedIs
<1>11. Bench!Numbered({0, 1}, {"KernelDropped"}) = Bench!Cell(1, TRUE) + Bench!Cell(0, TRUE)
  BY ONLY <1>7, <1>9, <1>10
<1>12. Bench!Numbered({1}, Bench!Actions) = Bench!Cell(1, TRUE) + Bench!Cell(1, FALSE)
  BY ONLY <1>7, <1>9, <1>10
<1>13. Bench!Numbered({0, 1}, Bench!Actions)
          = Bench!Cell(1, TRUE) + Bench!Cell(0, TRUE) + Bench!Cell(0, FALSE) + Bench!Cell(1, FALSE)
  BY ONLY <1>7, <1>9, <1>10
<1> QED
  BY <1>8, <1>9, <1>10, <1>11, <1>12, <1>13

(* A score is a fraction between 0 and 1. *)
Fraction(x) == x[1] \in Nat /\ x[2] \in Nat /\ x[1] <= x[2] /\ 0 < x[2]

LEMMA Share == ASSUME NEW a \in Nat, NEW b \in Nat, NEW c, Fraction(c)
               PROVE  /\ Fraction(Bench!Ratio(a, a + b, c))
                      /\ a + b > 0 => Bench!Ratio(a, a + b, c) = <<a, a + b>>
                      /\ a + b = 0 => Bench!Ratio(a, a + b, c) = c
BY DEF Bench!Ratio, Fraction

LEMMA Harmonic == ASSUME NEW p, NEW r, Fraction(p), Fraction(r)
                  PROVE  Fraction(Bench!F1Score(p, r))
<1>1. /\ p[1] * r[1] \in Nat /\ p[1] * r[2] \in Nat /\ p[1] * r[1] <= p[1] * r[2]
      /\ r[1] * p[1] \in Nat /\ r[1] * p[2] \in Nat /\ r[1] * p[1] <= r[1] * p[2]
  BY Product DEF Fraction
<1>2. 2 * p[1] * r[1] = p[1] * r[1] + r[1] * p[1]
  BY DEF Fraction
<1>3. /\ 2 * p[1] * r[1] \in Nat /\ p[1] * r[2] + r[1] * p[2] \in Nat
      /\ 2 * p[1] * r[1] <= p[1] * r[2] + r[1] * p[2]
  BY <1>1, <1>2
<1>4. ASSUME NEW n \in Nat, NEW d \in Nat, n <= d PROVE Fraction(Bench!Ratio(n, d, <<0, 1>>))
  BY <1>4 DEF Bench!Ratio, Fraction
<1> QED
  BY <1>3, <1>4 DEF Bench!F1Score

(* The harmonic mean of precision and recall is the textbook's 2 tp / (2 tp + fp + fn). *)
LEMMA Textbook ==
    ASSUME NEW tp \in Nat, NEW fp \in Nat, NEW fn \in Nat, 2 * tp + fp + fn > 0
    PROVE  Bench!Equal(Bench!F1Score(Bench!Ratio(tp, tp + fp, <<1, 1>>),
                                     Bench!Ratio(tp, tp + fn, <<1, 1>>)),
                       <<2 * tp, 2 * tp + fp + fn>>)
<1> DEFINE p == Bench!Ratio(tp, tp + fp, <<1, 1>>)
           r == Bench!Ratio(tp, tp + fn, <<1, 1>>)
<1>1. CASE tp > 0
  <2>1. p = <<tp, tp + fp>> /\ r = <<tp, tp + fn>>
    BY <1>1 DEF Bench!Ratio
  <2>2. Bench!F1Score(p, r) =
           Bench!Ratio(2 * tp * tp, tp * (tp + fn) + tp * (tp + fp), <<0, 1>>)
    <3> HIDE DEF p, r
    <3> QED
      BY <2>1 DEF Bench!F1Score
  <2>3. tp * (tp + fn) + tp * (tp + fp) > 0
    <3>1. tp * tp > 0 /\ tp * fn >= 0 /\ tp * fp >= 0
      BY <1>1
    <3>2. tp * (tp + fn) + tp * (tp + fp) = (tp * tp + tp * fn) + (tp * tp + tp * fp)
      OBVIOUS
    <3> QED
      BY <3>1, <3>2
  <2>4. Bench!F1Score(p, r) = <<2 * tp * tp, tp * (tp + fn) + tp * (tp + fp)>>
    BY <2>2, <2>3 DEF Bench!Ratio
  <2>5. (2 * tp * tp) * (2 * tp + fp + fn) = (2 * tp) * (tp * (tp + fn) + tp * (tp + fp))
    OBVIOUS
  <2> HIDE DEF p, r
  <2> QED
    BY <2>4, <2>5 DEF Bench!Equal, p, r
<1>2. CASE tp = 0
  <2>1. /\ Fraction(p) /\ Fraction(r)
        /\ p[1] = 0 \/ r[1] = 0
    BY <1>2 DEF Bench!Ratio, Fraction
  <2>2. Fraction(Bench!F1Score(p, r))
    BY <2>1, Harmonic
  <2> HIDE DEF p, r
  <2>3. Bench!F1Score(p, r)[1] = 0
    <3>1. 2 * p[1] * r[1] = 0
      BY <2>1 DEF Fraction
    <3> QED
      BY <3>1 DEF Bench!F1Score, Bench!Ratio
  <2>4. \A x : Fraction(x) /\ x[1] = 0 => Bench!Equal(x, <<2 * tp, 2 * tp + fp + fn>>)
    BY <1>2 DEF Bench!Equal, Fraction
  <2> QED
    BY <2>2, <2>3, <2>4 DEF p, r
<1> QED
  BY <1>1, <1>2

RightMatrix ==
    LET m == metrics'
        labelled == Bench!Numbered({0, 1}, Bench!Actions)
        malicious == Bench!Numbered({1}, Bench!Actions)
        alarms == Bench!Numbered({0, 1}, {"KernelDropped"})
        hits == Bench!Numbered({1}, {"KernelDropped"})
        correct == hits + Bench!Numbered({0}, {"Passed", "Logged"})
    IN  /\ m.total = Len(recorded)
        /\ m.tp = hits /\ m.tp + m.fp = alarms /\ m.tp + m.fn = malicious
        /\ m.tp + m.fp + m.tn + m.fn = labelled
        /\ labelled > 0 => Bench!Equal(m.accuracy, <<correct, labelled>>)
        /\ alarms > 0 => Bench!Equal(m.precision, <<hits, alarms>>)
        /\ malicious > 0 => Bench!Equal(m.recall, <<hits, malicious>>)
        /\ alarms + malicious > 0 => Bench!Equal(m.f1, <<2 * hits, alarms + malicious>>)
        /\ \A x \in {m.accuracy, m.precision, m.recall, m.f1} :
              0 <= x[1] /\ x[1] <= x[2] /\ 0 < x[2]

LEMMA MatrixStep == ASSUME Recorded, Bench!ComputeMetrics, latencies # <<>> PROVE RightMatrix
<1> DEFINE m == metrics'
           tp == Bench!Cell(1, TRUE)
           fn == Bench!Cell(1, FALSE)
           fp == Bench!Cell(0, TRUE)
           tn == Bench!Cell(0, FALSE)
           labelled == Bench!Numbered({0, 1}, Bench!Actions)
           malicious == Bench!Numbered({1}, Bench!Actions)
           alarms == Bench!Numbered({0, 1}, {"KernelDropped"})
           hits == Bench!Numbered({1}, {"KernelDropped"})
           let == Bench!Numbered({0}, {"Passed", "Logged"})
           p == Bench!Ratio(tp, tp + fp, <<1, 1>>)
           r == Bench!Ratio(tp, tp + fn, <<1, 1>>)
<1>1. metrics' = Bench!Metrics
  BY DEF Bench!ComputeMetrics
<1>2. /\ m.total = Len(latencies)
      /\ m.tp = tp /\ m.fn = fn /\ m.fp = fp /\ m.tn = tn
      /\ m.accuracy = Bench!Ratio(tp + tn, tp + fp + tn + fn, <<0, 1>>)
      /\ tp + fp + tn + fn > 0 =>
            m.precision = p /\ m.recall = r /\ m.f1 = Bench!F1Score(p, r)
      /\ ~ (tp + fp + tn + fn > 0) =>
            m.precision = <<0, 1>> /\ m.recall = <<0, 1>> /\ m.f1 = <<0, 1>>
  BY <1>1 DEF Bench!Metrics
<1>3. /\ tp \in Nat /\ fn \in Nat /\ fp \in Nat /\ tn \in Nat
      /\ hits = tp /\ alarms = tp + fp /\ malicious = tp + fn
      /\ labelled = tp + fp + tn + fn /\ let = tn
  BY Counts
<1>4. Len(latencies) = Len(recorded)
  BY DEF Recorded
<1> DEFINE InRange(x) == 0 <= x[1] /\ x[1] <= x[2] /\ 0 < x[2]
<1>5. \A x : Fraction(x) => InRange(x)
  BY DEF Fraction
<1>6. Fraction(<<0, 1>>) /\ Fraction(<<1, 1>>)
  BY DEF Fraction
<1>7. \A n, d \in Nat : Bench!Equal(<<n, d>>, <<n, d>>)
  BY DEF Bench!Equal
<1> HIDE DEF m, tp, fn, fp, tn, labelled, malicious, alarms, hits, let, p, r, InRange
<1>8. /\ labelled > 0 => Bench!Equal(m.accuracy, <<hits + let, labelled>>)
      /\ Fraction(m.accuracy)
  <2>1. CASE tp + fp + tn + fn > 0
    <3>1. m.accuracy = <<tp + tn, tp + fp + tn + fn>>
      BY <1>2, <2>1 DEF Bench!Ratio
    <3>2. m.accuracy = <<hits + let, labelled>> /\ hits + let \in Nat /\ labelled \in Nat
      BY <1>3, <3>1
    <3>3. Fraction(m.accuracy)
      BY <1>3, <2>1, <3>1 DEF Fraction
    <3> QED
      BY <1>7, <3>2, <3>3
  <2>2. CASE ~ (tp + fp + tn + fn > 0)
    <3>1. m.accuracy = <<0, 1>>
      BY <1>2, <2>2 DEF Bench!Ratio
    <3> QED
      BY <1>3, <1>6, <2>2, <3>1
  <2> QED
    BY <2>1, <2>2
<1>9. Fraction(p) /\ Fraction(r)
  BY <1>3, <1>6, Share DEF p, r
<1>10. /\ alarms > 0 => Bench!Equal(m.precision, <<hits, alarms>>)
       /\ Fraction(m.precision)
  <2>1. CASE alarms > 0
    <3>1. tp + fp + tn + fn > 0 /\ p = <<tp, tp + fp>>
      BY <1>3, <2>1 DEF Bench!Ratio, p
    <3>2. m.precision = <<hits, alarms>> /\ hits \in Nat /\ alarms \in Nat
      BY <1>2, <1>3, <3>1
    <3> QED
      BY <1>2, <1>7, <1>9, <3>1, <3>2
  <2>2. CASE ~ (alarms > 0)
    BY <1>2, <1>6, <1>9, <2>2
  <2> QED
    BY <2>1, <2>2
<1>11. /\ malicious > 0 => Bench!Equal(m.recall, <<hits, malicious>>)
       /\ Fraction(m.recall)
  <2>1. CASE malicious > 0
    <3>1. tp + fp + tn + fn > 0 /\ r = <<tp, tp + fn>>
      BY <1>3, <2>1 DEF Bench!Ratio, r
    <3>2. m.recall = <<hits, malicious>> /\ hits \in Nat /\ malicious \in Nat
      BY <1>2, <1>3, <3>1
    <3> QED
      BY <1>2, <1>7, <1>9, <3>1, <3>2
  <2>2. CASE ~ (malicious > 0)
    BY <1>2, <1>6, <1>9, <2>2
  <2> QED
    BY <2>1, <2>2
<1>12. /\ alarms + malicious > 0 => Bench!Equal(m.f1, <<2 * hits, alarms + malicious>>)
       /\ Fraction(m.f1)
  <2>1. CASE alarms + malicious > 0
    <3>1. /\ tp + fp + tn + fn > 0 /\ 2 * tp + fp + fn > 0
          /\ alarms + malicious = 2 * tp + fp + fn
      BY <1>3, <2>1
    <3>2. Bench!Equal(Bench!F1Score(p, r), <<2 * tp, 2 * tp + fp + fn>>)
      BY <1>3, <3>1, Textbook DEF p, r
    <3>3. m.f1 = Bench!F1Score(p, r) /\ hits = tp
      BY <1>2, <1>3, <3>1
    <3>4. Fraction(m.f1)
      BY <1>9, <3>3, Harmonic
    <3> QED
      BY <3>1, <3>2, <3>3, <3>4
  <2>2. CASE ~ (alarms + malicious > 0)
    <3>1. Fraction(Bench!F1Score(p, r))
      BY <1>9, Harmonic
    <3> QED
      BY <1>2, <1>6, <2>2, <3>1
  <2> QED
    BY <2>1, <2>2
<1>13. m.total = Len(recorded) /\ m.tp = hits /\ m.tp + m.fp = alarms /\ m.tp + m.fn = malicious
       /\ m.tp + m.fp + m.tn + m.fn = labelled
  BY <1>2, <1>3, <1>4
<1>14. \A x \in {m.accuracy, m.precision, m.recall, m.f1} : InRange(x)
  BY <1>5, <1>8, <1>10, <1>11, <1>12
<1> QED
  BY <1>8, <1>10, <1>11, <1>12, <1>13, <1>14
     DEF RightMatrix, InRange, m, labelled, malicious, alarms, hits, let

(* For samples of every length, the matrix of compute_metrics counts the labelled   *)
(* events of that sample, and accuracy, precision, recall and F1 are the quotients  *)
(* of such counts that the textbook says they are, wherever it does; elsewhere they *)
(* still lie between 0 and 1.                                                     *)
THEOREM MatrixHolds == Spec => MatrixIsTextbook
<1>1. Init => Recorded
  BY RecordedInv
<1>2. Recorded /\ [Next]_vars => Recorded'
  BY RecordedInv
<1>3. Recorded /\ [Next]_vars =>
          [Bench!ComputeMetrics /\ latencies # <<>> => RightMatrix]_(Bench!vars)
  BY MatrixStep
<1>4. [][Bench!ComputeMetrics /\ latencies # <<>> => RightMatrix]_(Bench!vars) => MatrixIsTextbook
  BY PTL DEF MatrixIsTextbook, Bench!MatrixIsTextbook, RightMatrix
<1> QED
  BY <1>1, <1>2, <1>3, <1>4, PTL DEF Spec
-----------------------------------------------------------------------------
(* What Sorted puts before the k-th element, and that element itself. *)
UpToElement(seq, k) == {i \in 1 .. Len(seq) : seq[i] < seq[k] \/ (seq[i] = seq[k] /\ i <= k)}
Place(seq) == [k \in 1 .. Len(seq) |-> Cardinality(UpToElement(seq, k))]

LEMMA SortedDef == ASSUME NEW seq
                   PROVE  Bench!Sorted(seq) =
                            [r \in 1 .. Len(seq) |-> seq[CHOOSE k \in 1 .. Len(seq) : Place(seq)[k] = r]]
BY DEF Bench!Sorted, Place, UpToElement, Bench!Cardinality, Cardinality

(* It gives every element a place of its own, hence every place an element. *)
LEMMA PlaceAll ==
    ASSUME NEW n \in Nat, NEW seq, Len(seq) = n, \A i \in 1 .. n : seq[i] \in Int
    PROVE  /\ \A k \in 1 .. n : /\ IsFiniteSet(UpToElement(seq, k)) /\ k \in UpToElement(seq, k)
                                /\ UpToElement(seq, k) \subseteq 1 .. n
                                /\ Place(seq)[k] \in 1 .. n
                                /\ Place(seq)[k] = Cardinality(UpToElement(seq, k))
           /\ \A k \in 1 .. n : \A i \in UpToElement(seq, k) : Place(seq)[i] <= Place(seq)[k]
           /\ \A r \in 1 .. n : \E k \in 1 .. n : Place(seq)[k] = r
<1> DEFINE U(k) == UpToElement(seq, k)
           place == Place(seq)
<1>1. \A k \in 1 .. n : \A i \in 1 .. n : i \in U(k) <=> seq[i] < seq[k] \/ (seq[i] = seq[k] /\ i <= k)
  BY DEF UpToElement
<1>2. \A k \in 1 .. n : U(k) \subseteq 1 .. n /\ k \in U(k)
  BY DEF UpToElement
<1>3. \A k \in 1 .. n : place[k] = Cardinality(U(k))
  BY DEF Place
<1> HIDE DEF U, place
<1>4. IsFiniteSet(1 .. n) /\ Cardinality(1 .. n) = n
  BY FS_Interval
<1>5. ASSUME NEW k \in 1 .. n PROVE IsFiniteSet(U(k)) /\ place[k] \in 1 .. n
  <2> DEFINE u == U(k)
  <2>1. u \in SUBSET (1 .. n) /\ u # {}
    BY <1>2
  <2> HIDE DEF u
  <2>2. IsFiniteSet(u) /\ Cardinality(u) <= n
    BY <1>4, <2>1, FS_Subset
  <2>3. Cardinality(u) \in Nat /\ Cardinality(u) # 0
    BY <2>1, <2>2, FS_CardinalityType, FS_EmptySet
  <2> QED
    BY <1>3, <2>2, <2>3 DEF u
<1>6. ASSUME NEW k \in 1 .. n, NEW i \in U(k)
      PROVE  U(i) \subseteq U(k) /\ place[i] <= place[k]
  <2>1. i \in 1 .. n
    BY <1>2
  <2>2. U(i) \subseteq U(k)
    <3> SUFFICES ASSUME NEW j \in U(i) PROVE j \in U(k)
      OBVIOUS
    <3>1. j \in 1 .. n
      BY <1>2, <2>1
    <3>2. seq[i] \in Int /\ seq[j] \in Int /\ seq[k] \in Int
      BY <2>1, <3>1
    <3> QED
      BY <1>1, <2>1, <3>1, <3>2
  <2> DEFINE u == U(i)
             w == U(k)
  <2>3. u \in SUBSET w /\ IsFiniteSet(w)
    BY <1>5, <2>2
  <2> HIDE DEF u, w
  <2>4. Cardinality(u) <= Cardinality(w)
    BY <2>3, FS_Subset
  <2> QED
    BY <1>3, <2>1, <2>2, <2>4 DEF u, w
<1>7. ASSUME NEW i \in 1 .. n, NEW k \in 1 .. n, place[i] = place[k], i \in U(k) PROVE i = k
  <2> DEFINE u == U(i)
             w == U(k)
  <2>1. u \in SUBSET w /\ IsFiniteSet(w) /\ Cardinality(w) = Cardinality(u)
    BY <1>3, <1>5, <1>6, <1>7
  <2> HIDE DEF u, w
  <2>2. w = u
    BY <2>1, FS_Subset
  <2>3. k \in U(i)
    BY <1>2, <2>2 DEF u, w
  <2>4. seq[i] \in Int /\ seq[k] \in Int
    OBVIOUS
  <2> QED
    BY <1>1, <1>7, <2>3, <2>4
<1>8. ASSUME NEW i \in 1 .. n, NEW k \in 1 .. n, place[i] = place[k] PROVE i = k
  <2>1. i \in U(k) \/ k \in U(i)
    <3>1. seq[i] \in Int /\ seq[k] \in Int
      OBVIOUS
    <3> QED
      BY <1>1, <3>1
  <2> QED
    BY <1>7, <1>8, <2>1
<1>9. place \in [1 .. n -> 1 .. n]
  BY <1>5 DEF Place, place
<1>10. place \in Injection(1 .. n, 1 .. n)
  BY <1>8, <1>9 DEF Injection, IsInjective
<1>11. place \in Surjection(1 .. n, 1 .. n)
  BY <1>4, <1>10, FS_Injection
<1>12. \A r \in 1 .. n : \E k \in 1 .. n : place[k] = r
  BY <1>11 DEF Surjection
<1> QED
  BY <1>2, <1>3, <1>5, <1>6, <1>12 DEF U, place

(* A sorted sequence is in order, and at least r elements are at most its r-th one, *)
(* and fewer than r are below it.                                                *)
InOrder(sorted, seq, n) ==
    /\ Len(sorted) = n /\ DOMAIN sorted = 1 .. n /\ \A r \in 1 .. n : sorted[r] \in Int
    /\ \A r, t \in 1 .. n : r <= t => sorted[r] <= sorted[t]
    /\ \A r \in 1 .. n : /\ Cardinality({i \in 1 .. n : seq[i] <= sorted[r]}) >= r
                         /\ Cardinality({i \in 1 .. n : seq[i] < sorted[r]}) < r
                         /\ Cardinality({i \in 1 .. n : seq[i] <= sorted[r]}) \in Nat
                         /\ Cardinality({i \in 1 .. n : seq[i] < sorted[r]}) \in Nat

LEMMA SortedIs ==
    ASSUME NEW n \in Nat, NEW seq, Len(seq) = n, \A i \in 1 .. n : seq[i] \in Int,
           NEW sorted, sorted = Bench!Sorted(seq)
    PROVE  InOrder(sorted, seq, n)
<1> DEFINE U(k) == UpToElement(seq, k)
           place == Place(seq)
           at == [r \in 1 .. Len(seq) |-> CHOOSE k \in 1 .. Len(seq) : place[k] = r]
<1>1. \A k \in 1 .. n : \A i \in 1 .. n : i \in U(k) <=> seq[i] < seq[k] \/ (seq[i] = seq[k] /\ i <= k)
  BY DEF UpToElement
<1>2. \A k \in 1 .. n : /\ IsFiniteSet(U(k)) /\ k \in U(k) /\ U(k) \subseteq 1 .. n
                        /\ place[k] \in 1 .. n /\ place[k] = Cardinality(U(k))
  BY PlaceAll
<1>3. \A k \in 1 .. n : \A i \in U(k) : place[i] <= place[k]
  BY PlaceAll
<1>4. \A r \in 1 .. n : \E k \in 1 .. n : place[k] = r
  BY PlaceAll
<1> HIDE DEF U, place
<1>5. \A r \in 1 .. n : at[r] \in 1 .. n /\ place[at[r]] = r
  BY <1>4
<1>6. sorted = [r \in 1 .. n |-> seq[at[r]]]
  <2>1. sorted = [r \in 1 .. Len(seq) |-> seq[CHOOSE k \in 1 .. Len(seq) : place[k] = r]]
    BY SortedDef DEF place
  <2>2. sorted = [r \in 1 .. Len(seq) |-> seq[at[r]]]
    BY <2>1
  <2> QED
    BY <2>2
<1> HIDE DEF at
<1>7. \A r \in 1 .. n : sorted[r] = seq[at[r]] /\ sorted[r] \in Int
  BY <1>5, <1>6
<1>8. ASSUME NEW r \in 1 .. n, NEW t \in 1 .. n, r <= t PROVE sorted[r] <= sorted[t]
  <2>1. seq[at[r]] \in Int /\ seq[at[t]] \in Int /\ at[r] \in 1 .. n /\ at[t] \in 1 .. n
    BY <1>5
  <2>2. CASE at[r] \in U(at[t])
    <3>1. seq[at[r]] < seq[at[t]] \/ seq[at[r]] = seq[at[t]]
      BY <1>1, <2>1, <2>2
    <3> QED
      BY <1>7, <2>1, <3>1
  <2>3. CASE at[r] \notin U(at[t])
    <3>1. at[t] \in U(at[r])
      BY <1>1, <2>1, <2>3
    <3>2. place[at[t]] <= place[at[r]]
      BY <1>3, <2>1, <3>1
    <3>3. t <= r
      BY <1>5, <3>2
    <3>4. r = t
      BY <1>8, <3>3
    <3> QED
      BY <1>7, <3>4
  <2> QED
    BY <2>2, <2>3
<1>9. ASSUME NEW r \in 1 .. n
      PROVE  /\ Cardinality({i \in 1 .. n : seq[i] <= sorted[r]}) >= r
             /\ Cardinality({i \in 1 .. n : seq[i] < sorted[r]}) < r
             /\ Cardinality({i \in 1 .. n : seq[i] <= sorted[r]}) \in Nat
             /\ Cardinality({i \in 1 .. n : seq[i] < sorted[r]}) \in Nat
  <2> DEFINE atMost == {i \in 1 .. n : seq[i] <= sorted[r]}
             below == {i \in 1 .. n : seq[i] < sorted[r]}
             k == at[r]
             u == U(k)
  <2>1. k \in 1 .. n /\ sorted[r] = seq[k] /\ seq[k] \in Int
    BY <1>5, <1>7
  <2>2. IsFiniteSet(u) /\ Cardinality(u) = r /\ k \in u
    BY <1>2, <1>5
  <2>3. u \in SUBSET atMost /\ below \in SUBSET (u \ {k})
    <3>1. \A i \in u : i \in 1 .. n
      BY <1>2, <2>1
    <3> QED
      BY <1>1, <2>1, <3>1
  <2>4. IsFiniteSet(1 .. n) /\ atMost \in SUBSET (1 .. n) /\ below \in SUBSET (1 .. n)
    BY FS_Interval
  <2> HIDE DEF u, k, atMost, below
  <2>5. IsFiniteSet(atMost) /\ IsFiniteSet(below)
    BY <2>4, FS_Subset
  <2>6. Cardinality(u) <= Cardinality(atMost)
    BY <2>3, <2>5, FS_Subset
  <2>7. IsFiniteSet(u \ {k}) /\ Cardinality(u \ {k}) = r - 1
    BY <2>2, Smaller
  <2>8. Cardinality(below) <= r - 1
    BY <2>3, <2>7, FS_Subset
  <2>9. Cardinality(atMost) \in Nat /\ Cardinality(below) \in Nat
    BY <2>5, FS_CardinalityType
  <2>10. Cardinality(atMost) >= r /\ Cardinality(below) < r
    BY <2>2, <2>6, <2>8, <2>9
  <2> QED
    BY <2>9, <2>10 DEF atMost, below
<1>10. Len(sorted) = n /\ DOMAIN sorted = 1 .. n
  BY <1>6
<1> QED
  BY <1>7, <1>8, <1>9, <1>10 DEF InOrder

(* The index of a percentile stays within the sample. *)
LEMMA RankOf == ASSUME NEW n \in Nat \ {0}, NEW p \in 0 .. 99
                PROVE  LET d == (n * p) \div 100
                       IN  /\ d \in 0 .. n - 1 /\ d + 1 \in 1 .. n
                           /\ 100 * d <= p * n /\ p * n < 100 * (d + 1)
                           /\ p * n \in Nat
<1> DEFINE x == n * p
           d == x \div 100
<1>1. x \in Nat /\ x = p * n /\ x < 100 * n
  <2>1. n * p <= n * 99
    BY Scale
  <2> QED
    BY <2>1
<1> HIDE DEF x
<1>2. d \in Nat /\ 100 * d <= x /\ x < 100 * (d + 1)
  BY <1>1
<1> HIDE DEF d
<1>3. d \in 0 .. n - 1 /\ d + 1 \in 1 .. n
  BY <1>1, <1>2
<1> QED
  BY <1>1, <1>2, <1>3 DEF d, x

LEMMA BenchSum == ASSUME NEW f PROVE Bench!SumFunction(f) = SumFunctionOnSet(f, DOMAIN f)
BY DEF Bench!SumFunction, Bench!SumFunctionOnSet, Bench!FoldFunctionOnSet, Bench!MapThenFoldSet,
       SumFunctionOnSet, FoldFunctionOnSet, MapThenFoldSet

LEMMA Percentiles == ASSUME Recorded, latencies # <<>>,
                            NEW sorted, sorted = Bench!Sorted(latencies), NEW p \in 0 .. 99
                     PROVE  Bench!Bracketed(Bench!Percentile(sorted, p), p)
<1> DEFINE n == Len(latencies)
           d == (n * p) \div 100
           v == sorted[d + 1]
<1>1. n \in Nat \ {0} /\ \A i \in 1 .. n : latencies[i] \in Int
  BY DEF Recorded
<1>2. /\ Len(sorted) = n
      /\ \A r \in 1 .. n : /\ Cardinality({i \in 1 .. n : latencies[i] <= sorted[r]}) >= r
                           /\ Cardinality({i \in 1 .. n : latencies[i] < sorted[r]}) < r
                           /\ Cardinality({i \in 1 .. n : latencies[i] <= sorted[r]}) \in Nat
                           /\ Cardinality({i \in 1 .. n : latencies[i] < sorted[r]}) \in Nat
  <2>1. Len(latencies) = n
    OBVIOUS
  <2> HIDE DEF n
  <2>2. InOrder(sorted, latencies, n)
    BY <1>1, <2>1, SortedIs
  <2> QED
    BY <2>2 DEF InOrder
<1>3. /\ d \in 0 .. n - 1 /\ d + 1 \in 1 .. n
      /\ 100 * d <= p * n /\ p * n < 100 * (d + 1) /\ p * n \in Nat
  <2> HIDE DEF n
  <2> QED
    BY <1>1, RankOf
<1>4. Bench!Percentile(sorted, p) = v
  BY <1>2 DEF Bench!Percentile
<1>5. /\ Bench!AtMost(v) = Cardinality({i \in 1 .. n : latencies[i] <= v})
      /\ Bench!Below(v) = Cardinality({i \in 1 .. n : latencies[i] < v})
  BY SameCardinality DEF Bench!AtMost, Bench!Below
<1>6. /\ Bench!AtMost(v) >= d + 1 /\ Bench!AtMost(v) \in Nat
      /\ Bench!Below(v) < d + 1 /\ Bench!Below(v) \in Nat
  <2> HIDE DEF n, d
  <2> QED
    BY <1>2, <1>3, <1>5
<1> HIDE DEF d, v
<1>7. 100 * Bench!AtMost(v) > p * n /\ 100 * Bench!Below(v) <= p * n
  <2> DEFINE pn == p * n
             a == Bench!AtMost(v)
             b == Bench!Below(v)
  <2>1. pn \in Nat /\ a \in Nat /\ b \in Nat /\ d \in Nat /\ a >= d + 1 /\ b < d + 1
        /\ 100 * d <= pn /\ pn < 100 * (d + 1)
    BY <1>3, <1>6
  <2> HIDE DEF pn, a, b
  <2>2. 100 * a > pn /\ 100 * b <= pn
    BY <2>1
  <2> QED
    BY <2>2 DEF pn, a, b
<1> QED
  BY <1>4, <1>7 DEF Bench!Bracketed

LEMMA BracketStep ==
    ASSUME Recorded, Bench!ComputeMetrics, latencies # <<>>
    PROVE  LET m == metrics'
           IN  /\ Bench!Bracketed(m.p50, 50) /\ Bench!Bracketed(m.p90, 90)
               /\ Bench!Bracketed(m.p95, 95) /\ Bench!Bracketed(m.p99, 99)
               /\ m.min <= m.p50 /\ m.p50 <= m.p90 /\ m.p90 <= m.p95
               /\ m.p95 <= m.p99 /\ m.p99 <= m.max
               /\ m.min * m.mean[2] <= m.mean[1] /\ m.mean[1] <= m.max * m.mean[2]
<1> DEFINE m == metrics'
           n == Len(latencies)
           sorted == Bench!Sorted(latencies)
           rank(p) == (n * p) \div 100 + 1
<1>1. metrics' = Bench!Metrics
  BY DEF Bench!ComputeMetrics
<1>2. /\ m.min = sorted[1] /\ m.max = sorted[Len(sorted)]
      /\ m.mean = <<Bench!SumFunction(sorted), Len(sorted)>>
      /\ m.p50 = Bench!Percentile(sorted, 50) /\ m.p90 = Bench!Percentile(sorted, 90)
      /\ m.p95 = Bench!Percentile(sorted, 95) /\ m.p99 = Bench!Percentile(sorted, 99)
  BY <1>1 DEF Bench!Metrics
<1>3. n \in Nat \ {0} /\ \A i \in 1 .. n : latencies[i] \in Int
  BY DEF Recorded
<1> HIDE DEF m, sorted
<1>4. /\ Len(sorted) = n /\ DOMAIN sorted = 1 .. n /\ \A r \in 1 .. n : sorted[r] \in Int
      /\ \A r, t \in 1 .. n : r <= t => sorted[r] <= sorted[t]
  <2>1. Len(latencies) = n
    OBVIOUS
  <2> HIDE DEF n
  <2>2. InOrder(sorted, latencies, n)
    BY <1>3, <2>1, SortedIs DEF sorted
  <2> QED
    BY <2>2 DEF InOrder
<1>5. /\ Bench!Bracketed(m.p50, 50) /\ Bench!Bracketed(m.p90, 90)
      /\ Bench!Bracketed(m.p95, 95) /\ Bench!Bracketed(m.p99, 99)
  <2>1. 50 \in 0 .. 99 /\ 90 \in 0 .. 99 /\ 95 \in 0 .. 99 /\ 99 \in 0 .. 99
    OBVIOUS
  <2>2. \A p \in 0 .. 99 : Bench!Bracketed(Bench!Percentile(sorted, p), p)
    BY Percentiles DEF sorted
  <2> QED
    BY <1>2, <2>1, <2>2
<1>6. /\ rank(50) \in 1 .. n /\ rank(90) \in 1 .. n /\ rank(95) \in 1 .. n /\ rank(99) \in 1 .. n
      /\ rank(50) <= rank(90) /\ rank(90) <= rank(95) /\ rank(95) <= rank(99)
  <2> HIDE DEF n
  <2> QED
    BY <1>3
<1>7. /\ m.p50 = sorted[rank(50)] /\ m.p90 = sorted[rank(90)]
      /\ m.p95 = sorted[rank(95)] /\ m.p99 = sorted[rank(99)]
  BY <1>2, <1>4 DEF Bench!Percentile
<1> HIDE DEF rank
<1>8. 1 \in 1 .. n /\ n \in 1 .. n /\ \A r \in 1 .. n : 1 <= r /\ r <= n
  BY <1>3
<1> HIDE DEF n
<1>9. /\ m.min <= m.p50 /\ m.p50 <= m.p90 /\ m.p90 <= m.p95
      /\ m.p95 <= m.p99 /\ m.p99 <= m.max
  BY <1>2, <1>4, <1>6, <1>7, <1>8
<1>10. m.min * n <= m.mean[1] /\ m.mean[1] <= m.max * n /\ m.mean[2] = n
  <2> DEFINE S == 1 .. n
             lo == sorted[1]
             hi == sorted[n]
             sum == SumFunctionOnSet(sorted, S)
  <2>1. m.mean[1] = sum /\ m.mean[2] = n
    BY <1>2, <1>4, BenchSum
  <2>2. IsFiniteSet(S) /\ Cardinality(S) = n
    BY <1>3, FS_Interval
  <2>3. \A r \in S : sorted[r] \in Int
    BY <1>4
  <2>4. lo \in Int /\ hi \in Int /\ (\A r \in S : sorted[r] >= lo) /\ \A r \in S : sorted[r] <= hi
    BY <1>4, <1>8
  <2> HIDE DEF S, lo, hi
  <2>5. sum >= Cardinality(S) * lo
    BY <2>2, <2>3, <2>4, SumAtLeast
  <2>6. sum <= Cardinality(S) * hi
    BY <2>2, <2>3, <2>4, SumAtMost
  <2>7. n * lo = lo * n /\ n * hi = hi * n /\ lo * n \in Int /\ hi * n \in Int
    BY <1>3, <2>4
  <2>8. m.min = lo /\ m.max = hi
    BY <1>2, <1>4 DEF lo, hi
  <2>9. sum \in Int
    BY <2>2, <2>3, SumInt
  <2> HIDE DEF sum
  <2> QED
    BY <2>1, <2>2, <2>5, <2>6, <2>7, <2>8, <2>9
<1> QED
  BY <1>5, <1>9, <1>10 DEF m

(* For samples of every length, each percentile of compute_metrics has the right    *)
(* rank, and the percentiles, the mean and the extremes are in order.             *)
THEOREM PercentilesHold == Spec => PercentilesBracketed
<1>1. Init => Recorded
  BY RecordedInv
<1>2. Recorded /\ [Next]_vars => Recorded'
  BY RecordedInv
<1> DEFINE Right ==
        LET m == metrics'
        IN  /\ Bench!Bracketed(m.p50, 50) /\ Bench!Bracketed(m.p90, 90)
            /\ Bench!Bracketed(m.p95, 95) /\ Bench!Bracketed(m.p99, 99)
            /\ m.min <= m.p50 /\ m.p50 <= m.p90 /\ m.p90 <= m.p95
            /\ m.p95 <= m.p99 /\ m.p99 <= m.max
            /\ m.min * m.mean[2] <= m.mean[1] /\ m.mean[1] <= m.max * m.mean[2]
<1>3. ASSUME Recorded, Bench!ComputeMetrics, latencies # <<>> PROVE Right
  BY <1>3, BracketStep
<1> HIDE DEF Right
<1>4. Recorded /\ [Next]_vars => [Bench!ComputeMetrics /\ latencies # <<>> => Right]_(Bench!vars)
  BY <1>3
<1>5. [][Bench!ComputeMetrics /\ latencies # <<>> => Right]_(Bench!vars) => PercentilesBracketed
  BY PTL DEF PercentilesBracketed, Bench!PercentilesBracketed, Right
<1> QED
  BY <1>1, <1>2, <1>4, <1>5, PTL DEF Spec
=============================================================================
