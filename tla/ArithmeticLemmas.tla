---- MODULE ArithmeticLemmas ----
(***************************************************************************)
(* What several proofs need to know of numbers and of sums over finite     *)
(* sets.                                                                   *)
(*                                                                         *)
(* The provers know no exponentiation; that each power of two is twice the *)
(* one before it is a hypothesis here and comes from the modules.          *)
(*                                                                         *)
(* Sums are SumFunctionOnSet of the community module Functions, which the  *)
(* models use for amounts and bonds.  The sum of f over T is iter[T],      *)
(* where iter is a function on the subsets of T that a recursive           *)
(* definition chooses: it takes the elements out one at a time, in an      *)
(* order of its own.  That there is such a function, that the order does   *)
(* not matter, and that only the values of f on T do, are the first        *)
(* lemmas; the others need no recursion.  The inductions go over the       *)
(* subsets of a finite set, and say of which subsets something holds by    *)
(* the set of these.                                                       *)
(***************************************************************************)
EXTENDS Functions, FiniteSets, Integers, FiniteSetTheorems, TLAPS

----------------------------------------------------------------------------
\* Numbers, their quotients, and powers of two.

\* From each element of S there is a smaller one: S is empty.  Most inductions over numbers here are
\* by the set of those for which something does not hold.
LEMMA NoneIsLeast ==
    ASSUME NEW S, S \subseteq Nat, \A n \in S : \E m \in S : m < n
    PROVE  S = {}
  <1> SUFFICES ASSUME S # {} PROVE FALSE
    OBVIOUS
  <1>1. PICK m \in S : \A s \in S : ~ (<<s, m>> \in OpToRel(<, Nat))
    BY NatLessThanWellFounded, WFMin
  <1>2. PICK s \in S : s < m
    OBVIOUS
  <1>3. <<s, m>> \in OpToRel(<, Nat)
    BY <1>2 DEF OpToRel
  <1> QED BY <1>1, <1>3

LEMMA PowersPositive ==
    ASSUME NEW n \in Nat, 2^0 = 1, \A i \in 1 .. n : 2^i = 2 * 2^(i - 1)
    PROVE  \A i \in 0 .. n : 2^i \in Nat \ {0}
  <1> DEFINE Bad == {i \in 0 .. n : 2^i \notin Nat \ {0}}
  <1>1. ASSUME NEW i \in Bad PROVE \E j \in Bad : j < i
    <2>1. i # 0
      <3>1. 2^i # 1 /\ 2^0 = 1
        OBVIOUS
      <3> QED BY <3>1
    <2>2. i \in 1 .. n /\ 2^i = 2 * 2^(i - 1) /\ i - 1 \in 0 .. n /\ i - 1 < i
      BY <2>1
    <2> DEFINE below == 2^(i - 1)
    <2>3. below \notin Nat \ {0}
      <3>1. 2^i = 2 * below /\ 2^i \notin Nat \ {0}
        BY <2>2
      <3> HIDE DEF below
      <3> QED BY <3>1
    <2> QED BY <2>2, <2>3
  <1>2. Bad \subseteq Nat
    OBVIOUS
  <1> HIDE DEF Bad
  <1>3. Bad = {}
    BY <1>1, <1>2, NoneIsLeast
  <1> QED BY <1>3 DEF Bad

\* A power divides the greater ones.
LEMMA PowersDivide ==
    ASSUME NEW n \in Nat, 2^0 = 1, \A i \in 1 .. n : 2^i = 2 * 2^(i - 1)
    PROVE  \A i \in 0 .. n : \E m \in Nat : 2^n = m * 2^i
  <1> DEFINE Divides(i) == \E m \in Nat : 2^n = m * 2^i
             Bad == {k \in 0 .. n : ~ Divides(n - k)}
  <1>1. ASSUME NEW k \in Bad PROVE \E j \in Bad : j < k
    <2>1. k # 0
      <3> SUFFICES ASSUME k = 0 PROVE Divides(n)
        OBVIOUS
      <3>1. 2^n \in Nat
        BY PowersPositive
      <3> QED BY <3>1
    <2> DEFINE i == n - k
    <2>2. i \in Nat /\ i + 1 \in 1 .. n /\ k - 1 \in 0 .. n /\ k - 1 < k /\ n - (k - 1) = i + 1
      BY <2>1
    <2>3. ASSUME Divides(i + 1) PROVE Divides(i)
      <3>1. PICK m \in Nat : 2^n = m * 2^(i + 1)
        BY <2>3
      <3>2. 2^(i + 1) = 2 * 2^i
        <4>1. (i + 1) - 1 = i
          BY <2>2
        <4> HIDE DEF i
        <4> QED BY <2>2, <4>1
      <3>3. 2^i \in Nat
        BY <2>2, PowersPositive
      <3> DEFINE w == 2^i
      <3>4. m * (2 * w) = (2 * m) * w
        <4>1. w \in Nat
          BY <3>3
        <4> HIDE DEF w
        <4> QED BY <4>1
      <3>5. 2^n = (2 * m) * w /\ 2 * m \in Nat
        <4>1. 2^n = m * (2 * w)
          BY <3>1, <3>2
        <4> HIDE DEF w
        <4> QED BY <3>4, <4>1
      <3> QED BY <3>5
    <2>4. ~ Divides(i)
      OBVIOUS
    <2>5. ~ Divides(n - (k - 1))
      <3> HIDE DEF Divides
      <3> QED BY <2>2, <2>3, <2>4
    <2> QED BY <2>2, <2>5
  <1>2. Bad \subseteq Nat
    OBVIOUS
  <1>3. Bad = {}
    <2> HIDE DEF Bad
    <2> QED BY <1>1, <1>2, NoneIsLeast
  <1>4. ASSUME NEW i \in 0 .. n PROVE Divides(i)
    <2>1. n - i \in 0 .. n /\ n - (n - i) = i
      OBVIOUS
    <2> HIDE DEF Divides
    <2> QED BY <1>3, <2>1
  <1> QED BY <1>4

\* What is left after whole multiples is the remainder.
LEMMA QuotientIs ==
    ASSUME NEW n \in Nat \ {0}, NEW q \in Int, NEW r \in 0 .. n - 1
    PROVE  ((q * n) + r) \div n = q /\ ((q * n) + r) % n = r
  OBVIOUS

LEMMA QuotientOf ==
    ASSUME NEW x \in Nat, NEW w \in Nat \ {0}
    PROVE  /\ x \div w \in Nat /\ x % w \in 0 .. w - 1 /\ x = ((x \div w) * w) + (x % w)
  OBVIOUS

LEMMA HalfOf ==
    ASSUME NEW x \in Nat, NEW w \in Nat \ {0}
    PROVE  x \div (2 * w) = (x \div w) \div 2
  <1> DEFINE a == x \div w
             r == x % w
             b == a \div 2
             c == a % 2
  <1>1. a \in Nat /\ r \in 0 .. w - 1 /\ x = (a * w) + r
    BY QuotientOf
  <1>2. b \in Nat /\ c \in 0 .. 1 /\ a = (b * 2) + c
    <2> HIDE DEF a
    <2> QED BY <1>1
  <1> HIDE DEF a, r, b, c
  <1>3. a * w = (b * (2 * w)) + (c * w)
    BY <1>1, <1>2
  <1>4. c * w \in {0, w}
    BY <1>2
  <1>5. (c * w) + r \in 0 .. (2 * w) - 1 /\ 2 * w \in Nat \ {0} /\ x = (b * (2 * w)) + ((c * w) + r)
    BY <1>1, <1>3, <1>4, <1>2
  <1> DEFINE s == (c * w) + r
             v == 2 * w
  <1>6. s \in 0 .. v - 1 /\ v \in Nat \ {0} /\ x = (b * v) + s /\ b \in Int
    BY <1>2, <1>5
  <1> HIDE DEF s, v
  <1>7. x \div v = b
    BY <1>6, QuotientIs
  <1> QED BY <1>7 DEF v, b, a

LEMMA GreatestIs ==
    ASSUME NEW S, S \subseteq Nat, S # {}, NEW n \in Nat, \A s \in S : s <= n
    PROVE  \E m \in S : \A s \in S : s <= m
  <1> DEFINE gaps == {n - s : s \in S}
  <1>1. gaps \subseteq Nat /\ gaps # {}
    OBVIOUS
  <1>2. PICK g \in gaps : \A h \in gaps : ~ (<<h, g>> \in OpToRel(<, Nat))
    BY <1>1, NatLessThanWellFounded, WFMin
  <1>3. PICK m \in S : g = n - m
    BY <1>2
  <1>4. \A s \in S : s <= m
    <2> SUFFICES ASSUME NEW s \in S, m < s PROVE FALSE
      OBVIOUS
    <2>1. n - s \in Nat /\ g \in Nat /\ n - s < g /\ n - s \in gaps
      BY <1>1, <1>3
    <2>2. <<n - s, g>> \in OpToRel(<, Nat)
      BY <2>1 DEF OpToRel
    <2> QED BY <1>2, <2>1, <2>2
  <1> QED BY <1>4

----------------------------------------------------------------------------
\* Sums.

\* Induction over the subsets of a finite set: what holds of a set when it holds of the sets
\* with one element less holds of every subset.
LEMMA SubsetInduction ==
    ASSUME NEW S, IsFiniteSet(S), NEW Good, {} \in Good,
           \A T \in SUBSET S : T # {} /\ (\A x \in T : T \ {x} \in Good) => T \in Good
    PROVE  \A T \in SUBSET S : T \in Good
  <1> DEFINE Bad == {T \in SUBSET S : T \notin Good}
  <1> SUFFICES ASSUME Bad # {} PROVE FALSE
    OBVIOUS
  <1>1. Bad \subseteq FiniteSubsetsOf(S)
    BY FS_Subset DEF FiniteSubsetsOf
  <1>2. PICK T \in Bad : \A U \in Bad : ~(<<U, T>> \in StrictSubsetOrdering(S))
    BY <1>1, FS_StrictSubsetOrderingWellFounded, WFMin
  <1>3. ASSUME NEW x \in T, T \ {x} \notin Good PROVE FALSE
    <2>1. T \ {x} \in Bad /\ <<T \ {x}, T>> \in (SUBSET S) \X (SUBSET S)
      BY <1>3
    <2>2. <<T \ {x}, T>> \in StrictSubsetOrdering(S)
      BY <2>1 DEF StrictSubsetOrdering
    <2> QED BY <2>1, <2>2, <1>2
  <1> QED BY <1>2, <1>3

\* The function on the subsets in D that the definition of the sum of f chooses.
Step(f, g, s) ==
    IF s = {} THEN 0 ELSE f[CHOOSE x \in s : TRUE] + g[s \ {CHOOSE x \in s : TRUE}]
IsIter(f, g, D) == g = [s \in D |-> Step(f, g, s)]
Iter(f, T) == CHOOSE g : IsIter(f, g, SUBSET T)

LEMMA SumIsIter ==
    ASSUME NEW f, NEW T
    PROVE  SumFunctionOnSet(f, T) = Iter(f, T)[T]
  BY DEF SumFunctionOnSet, FoldFunctionOnSet, MapThenFoldSet, Iter, IsIter, Step

\* Two such functions agree where they and the values summed are both defined.
LEMMA IterUnique ==
    ASSUME NEW S, IsFiniteSet(S), NEW f, NEW h, \A x \in S : f[x] = h[x],
           NEW U, NEW V, S \subseteq U, S \subseteq V,
           IsIter(f, Iter(f, U), SUBSET U), IsIter(h, Iter(h, V), SUBSET V)
    PROVE  Iter(f, U)[S] = Iter(h, V)[S]
  <1> DEFINE g == Iter(f, U)
             k == Iter(h, V)
             Good == {T \in SUBSET S : g[T] = k[T]}
  <1>1. \A T \in SUBSET S : g[T] = Step(f, g, T) /\ k[T] = Step(h, k, T)
    <2>1. IsIter(f, g, SUBSET U) /\ IsIter(h, k, SUBSET V)
      OBVIOUS
    <2> HIDE DEF g, k
    <2> QED BY <2>1 DEF IsIter
  <1> HIDE DEF g, k
  <1>2. {} \in Good
    BY <1>1 DEF Step
  <1>3. ASSUME NEW T \in SUBSET S, T # {}, \A x \in T : T \ {x} \in Good PROVE T \in Good
    <2> DEFINE c == CHOOSE x \in T : TRUE
    <2>1. c \in T
      BY <1>3
    <2>2. T \ {c} \in Good /\ f[c] = h[c]
      BY <2>1, <1>3
    <2>3. g[T] = f[c] + g[T \ {c}] /\ k[T] = h[c] + k[T \ {c}]
      BY <1>1, <1>3 DEF Step
    <2> QED BY <2>2, <2>3
  <1> HIDE DEF Good
  <1>4. \A T \in SUBSET S : T \in Good
    BY <1>2, <1>3, SubsetInduction
  <1> QED BY <1>4 DEF Good, g, k

\* The one for a set is put together from those for its parts.
LEMMA IterExists ==
    ASSUME NEW S, IsFiniteSet(S), NEW f
    PROVE  \A T \in SUBSET S : IsIter(f, Iter(f, T), SUBSET T)
  <1> DEFINE Good == {T \in SUBSET S : \A U \in SUBSET T : IsIter(f, Iter(f, U), SUBSET U)}
  <1>1. ASSUME NEW T \in SUBSET S, \A U \in SUBSET T : U # T => IsIter(f, Iter(f, U), SUBSET U)
        PROVE  IsIter(f, Iter(f, T), SUBSET T)
    <2> DEFINE g == [s \in SUBSET T |-> Step(f, Iter(f, s \ {CHOOSE x \in s : TRUE}), s)]
    <2>1. ASSUME NEW s \in SUBSET T PROVE g[s] = Step(f, g, s)
      <3>1. CASE s = {}
        BY <3>1 DEF Step
      <3>2. CASE s # {}
        <4> DEFINE c == CHOOSE x \in s : TRUE
                   r == s \ {c}
                   d == CHOOSE x \in r : TRUE
        <4>1. c \in s /\ r \in SUBSET T /\ r # T
          BY <3>2
        <4>2. IsIter(f, Iter(f, r), SUBSET r)
          BY <4>1, <1>1
        <4>3. Iter(f, r)[r] = Step(f, Iter(f, r), r)
          BY <4>2 DEF IsIter
        <4>4. g[r] = Step(f, Iter(f, r \ {d}), r)
          BY <4>1
        <4>5. g[r] = Iter(f, r)[r]
          <5>1. CASE r = {}
            BY <5>1, <4>3, <4>4 DEF Step
          <5>2. CASE r # {}
            <6>1. d \in r
              BY <5>2
            <6>2. r \ {d} \in SUBSET T /\ r \ {d} # T /\ IsFiniteSet(r \ {d})
              BY <4>1, <6>1, FS_Subset
            <6>3. IsIter(f, Iter(f, r \ {d}), SUBSET (r \ {d}))
              BY <6>2, <1>1
            <6>4. Iter(f, r)[r \ {d}] = Iter(f, r \ {d})[r \ {d}]
              <7> DEFINE q == r \ {d}
              <7>1. /\ q \subseteq r /\ q \in SUBSET q /\ IsFiniteSet(q)
                    /\ IsIter(f, Iter(f, q), SUBSET q) /\ IsIter(f, Iter(f, r), SUBSET r)
                BY <6>2, <6>3, <4>2
              <7> HIDE DEF q, r
              <7>2. Iter(f, r)[q] = Iter(f, q)[q]
                BY <7>1, IterUnique
              <7> QED BY <7>2 DEF q
            <6> QED BY <6>4, <4>3, <4>4, <5>2 DEF Step
          <5> QED BY <5>1, <5>2
        <4>6. g[s] = f[c] + Iter(f, r)[r] /\ Step(f, g, s) = f[c] + g[r]
          BY <3>2 DEF Step
        <4> QED BY <4>5, <4>6
      <3> QED BY <3>1, <3>2
    <2>2. IsIter(f, g, SUBSET T)
      BY <2>1 DEF IsIter
    <2> HIDE DEF g
    <2> QED BY <2>2 DEF Iter
  <1>2. {} \in Good
    <2>1. ASSUME NEW U \in SUBSET {} PROVE IsIter(f, Iter(f, U), SUBSET U)
      <3>1. U = {} /\ {} \in SUBSET S
        OBVIOUS
      <3>2. \A V \in SUBSET {} : V = {}
        OBVIOUS
      <3> QED BY <3>1, <3>2, <1>1
    <2> QED BY <2>1
  <1>3. ASSUME NEW T \in SUBSET S, T # {}, \A x \in T : T \ {x} \in Good PROVE T \in Good
    <2>1. ASSUME NEW U \in SUBSET T, U # T PROVE IsIter(f, Iter(f, U), SUBSET U)
      <3>1. PICK x \in T : U \in SUBSET (T \ {x})
        BY <2>1
      <3> QED BY <3>1, <1>3
    <2> QED BY <2>1, <1>1
  <1> HIDE DEF Good
  <1>4. \A T \in SUBSET S : T \in Good
    BY <1>2, <1>3, SubsetInduction
  <1> QED BY <1>4 DEF Good

\* What the definition of a sum says, and that it depends on nothing but the values summed.
LEMMA SumStep ==
    ASSUME NEW T, IsFiniteSet(T), NEW f
    PROVE  SumFunctionOnSet(f, T) = IF T = {} THEN 0
            ELSE LET c == CHOOSE x \in T : TRUE
                 IN  f[c] + SumFunctionOnSet(f, T \ {c})
  <1> DEFINE c == CHOOSE x \in T : TRUE
             r == T \ {c}
  <1>1. IsIter(f, Iter(f, T), SUBSET T) /\ IsIter(f, Iter(f, r), SUBSET r)
    BY IterExists
  <1>2. IsFiniteSet(r) /\ r \subseteq T /\ r \in SUBSET r
    BY FS_Subset
  <1>3. Iter(f, T)[T] = Step(f, Iter(f, T), T)
    BY <1>1 DEF IsIter
  <1> HIDE DEF r
  <1>4. Iter(f, T)[r] = Iter(f, r)[r]
    BY <1>1, <1>2, IterUnique
  <1> QED BY <1>3, <1>4, SumIsIter DEF r, Step

LEMMA SumSame ==
    ASSUME NEW T, IsFiniteSet(T), NEW f, NEW h, \A x \in T : f[x] = h[x]
    PROVE  SumFunctionOnSet(f, T) = SumFunctionOnSet(h, T)
  <1>1. IsIter(f, Iter(f, T), SUBSET T) /\ IsIter(h, Iter(h, T), SUBSET T)
    BY IterExists
  <1>2. Iter(f, T)[T] = Iter(h, T)[T]
    BY <1>1, IterUnique
  <1> QED BY <1>2, SumIsIter

LEMMA SumEmpty ==
    ASSUME NEW f
    PROVE  SumFunctionOnSet(f, {}) = 0
  BY SumStep, FS_EmptySet

\* The sum of integers is one; so is, of natural numbers, a natural number.
LEMMA SumInt ==
    ASSUME NEW S, IsFiniteSet(S), NEW f, \A x \in S : f[x] \in Int
    PROVE  \A T \in SUBSET S : SumFunctionOnSet(f, T) \in Int
  <1> DEFINE Good == {T \in SUBSET S : SumFunctionOnSet(f, T) \in Int}
  <1>1. {} \in Good
    BY SumEmpty
  <1>2. ASSUME NEW T \in SUBSET S, T # {}, \A x \in T : T \ {x} \in Good PROVE T \in Good
    <2> DEFINE c == CHOOSE x \in T : TRUE
    <2>1. c \in T /\ SumFunctionOnSet(f, T) = f[c] + SumFunctionOnSet(f, T \ {c})
      BY <1>2, SumStep, FS_Subset
    <2> HIDE DEF c
    <2>2. SumFunctionOnSet(f, T \ {c}) \in Int
      BY <2>1, <1>2
    <2> QED BY <2>1, <2>2
  <1> HIDE DEF Good
  <1>3. \A T \in SUBSET S : T \in Good
    BY <1>1, <1>2, SubsetInduction
  <1> QED BY <1>3 DEF Good

LEMMA SumNat ==
    ASSUME NEW S, IsFiniteSet(S), NEW f, \A x \in S : f[x] \in Nat
    PROVE  \A T \in SUBSET S : SumFunctionOnSet(f, T) \in Nat
  <1> DEFINE Good == {T \in SUBSET S : SumFunctionOnSet(f, T) \in Nat}
  <1>1. {} \in Good
    BY SumEmpty
  <1>2. ASSUME NEW T \in SUBSET S, T # {}, \A x \in T : T \ {x} \in Good PROVE T \in Good
    <2> DEFINE c == CHOOSE x \in T : TRUE
    <2>1. c \in T /\ SumFunctionOnSet(f, T) = f[c] + SumFunctionOnSet(f, T \ {c})
      BY <1>2, SumStep, FS_Subset
    <2> HIDE DEF c
    <2>2. SumFunctionOnSet(f, T \ {c}) \in Nat
      BY <2>1, <1>2
    <2> QED BY <2>1, <2>2
  <1> HIDE DEF Good
  <1>3. \A T \in SUBSET S : T \in Good
    BY <1>1, <1>2, SubsetInduction
  <1> QED BY <1>3 DEF Good

\* Any element may be taken out first.
LEMMA SumRemoveAny ==
    ASSUME NEW S, IsFiniteSet(S), NEW f, \A x \in S : f[x] \in Int
    PROVE  \A T \in SUBSET S : \A x \in T :
            SumFunctionOnSet(f, T) = f[x] + SumFunctionOnSet(f, T \ {x})
  <1> DEFINE Sum(T) == SumFunctionOnSet(f, T)
             Good == {T \in SUBSET S : \A x \in T : Sum(T) = f[x] + Sum(T \ {x})}
  <1>1. \A T \in SUBSET S : T # {} =>
            Sum(T) = f[CHOOSE x \in T : TRUE] + Sum(T \ {CHOOSE x \in T : TRUE})
    BY SumStep, FS_Subset
  <1>2. \A T \in SUBSET S : Sum(T) \in Int
    BY SumInt
  <1> HIDE DEF Sum
  <1>3. {} \in Good
    OBVIOUS
  <1>4. ASSUME NEW T \in SUBSET S, T # {}, \A x \in T : T \ {x} \in Good PROVE T \in Good
    <2> DEFINE c == CHOOSE x \in T : TRUE
    <2>1. c \in T /\ Sum(T) = f[c] + Sum(T \ {c})
      BY <1>1, <1>4
    <2>2. \A x \in T : \A y \in T \ {x} : Sum(T \ {x}) = f[y] + Sum((T \ {x}) \ {y})
      BY <1>4
    <2> HIDE DEF c
    <2>3. ASSUME NEW x \in T, x # c PROVE Sum(T) = f[x] + Sum(T \ {x})
      <3> DEFINE rest == (T \ {c}) \ {x}
      <3>1. rest = (T \ {x}) \ {c} /\ x \in T \ {c} /\ c \in T \ {x}
        BY <2>1, <2>3
      <3>2. Sum(T \ {c}) = f[x] + Sum(rest) /\ Sum(T \ {x}) = f[c] + Sum(rest)
        BY <3>1, <2>1, <2>2
      <3>3. f[x] \in Int /\ f[c] \in Int /\ Sum(rest) \in Int
        BY <2>1, <1>2
      <3> HIDE DEF rest
      <3> QED BY <3>2, <3>3, <2>1
    <2> QED BY <2>1, <2>3
  <1> HIDE DEF Good
  <1>5. \A T \in SUBSET S : T \in Good
    BY <1>3, <1>4, SubsetInduction
  <1> QED BY <1>5 DEF Good, Sum

LEMMA SumRemove ==
    ASSUME NEW T, IsFiniteSet(T), NEW x \in T, NEW f, \A y \in T : f[y] \in Int
    PROVE  /\ SumFunctionOnSet(f, T) = f[x] + SumFunctionOnSet(f, T \ {x})
           /\ SumFunctionOnSet(f, T) \in Int /\ SumFunctionOnSet(f, T \ {x}) \in Int
  BY SumRemoveAny, SumInt

LEMMA SumAdd ==
    ASSUME NEW T, IsFiniteSet(T), NEW x, x \notin T, NEW f, \A y \in T \cup {x} : f[y] \in Int
    PROVE  /\ SumFunctionOnSet(f, T \cup {x}) = f[x] + SumFunctionOnSet(f, T)
           /\ SumFunctionOnSet(f, T) \in Int /\ SumFunctionOnSet(f, T \cup {x}) \in Int
  <1> DEFINE U == T \cup {x}
  <1>1. IsFiniteSet(U) /\ x \in U /\ U \ {x} = T /\ \A y \in U : f[y] \in Int
    BY FS_AddElement
  <1> HIDE DEF U
  <1>2. /\ SumFunctionOnSet(f, U) = f[x] + SumFunctionOnSet(f, U \ {x})
        /\ SumFunctionOnSet(f, U) \in Int /\ SumFunctionOnSet(f, U \ {x}) \in Int
    BY <1>1, SumRemove
  <1> QED BY <1>1, <1>2 DEF U

LEMMA SumOfOne ==
    ASSUME NEW x, NEW f, f[x] \in Int
    PROVE  SumFunctionOnSet(f, {x}) = f[x]
  <1> DEFINE T == {x}
  <1>1. IsFiniteSet(T) /\ x \in T /\ T \ {x} = {} /\ \A y \in T : f[y] \in Int
    BY FS_Singleton
  <1> HIDE DEF T
  <1>2. SumFunctionOnSet(f, T) = f[x] + SumFunctionOnSet(f, T \ {x})
    BY <1>1, SumRemove
  <1>3. SumFunctionOnSet(f, T) = f[x] + 0
    BY <1>1, <1>2, SumEmpty
  <1> QED BY <1>3 DEF T

LEMMA SumOfTwo ==
    ASSUME NEW x, NEW y, x # y, NEW f, f[x] \in Int, f[y] \in Int
    PROVE  SumFunctionOnSet(f, {x, y}) = f[x] + f[y]
  <1> DEFINE T == {x, y}
  <1>1. IsFiniteSet(T) /\ x \in T /\ T \ {x} = {y} /\ \A z \in T : f[z] \in Int
    <2>1. T = {x} \cup {y} /\ IsFiniteSet({x})
      BY FS_Singleton
    <2>2. IsFiniteSet({x} \cup {y})
      BY <2>1, FS_AddElement
    <2> QED BY <2>1, <2>2
  <1> HIDE DEF T
  <1>2. SumFunctionOnSet(f, T) = f[x] + SumFunctionOnSet(f, T \ {x})
    BY <1>1, SumRemove
  <1> QED BY <1>1, <1>2, SumOfOne DEF T

\* Sums of disjoint sets add up.
LEMMA SumUnion ==
    ASSUME NEW T, IsFiniteSet(T), NEW U, IsFiniteSet(U), T \cap U = {},
           NEW f, \A x \in T \cup U : f[x] \in Int
    PROVE  /\ SumFunctionOnSet(f, T \cup U) = SumFunctionOnSet(f, T) + SumFunctionOnSet(f, U)
           /\ SumFunctionOnSet(f, T) \in Int /\ SumFunctionOnSet(f, U) \in Int
  <1> DEFINE Sum(V) == SumFunctionOnSet(f, V)
             Good == {V \in SUBSET U : Sum(T \cup V) = Sum(T) + Sum(V)}
  <1>1. \A V \in SUBSET (T \cup U) :
            Sum(V) \in Int /\ \A x \in V : Sum(V) = f[x] + Sum(V \ {x})
    <2> DEFINE W == T \cup U
    <2>1. IsFiniteSet(W) /\ \A x \in W : f[x] \in Int
      BY FS_Union
    <2> HIDE DEF W
    <2>2. /\ \A V \in SUBSET W : Sum(V) \in Int
          /\ \A V \in SUBSET W : \A x \in V : Sum(V) = f[x] + Sum(V \ {x})
      BY <2>1, SumInt, SumRemoveAny
    <2> QED BY <2>2 DEF W
  <1>3. Sum({}) = 0
    BY SumEmpty
  <1> HIDE DEF Sum
  <1>4. {} \in Good
    <2>1. T \cup {} = T /\ T \in SUBSET (T \cup U) /\ {} \in SUBSET U
      OBVIOUS
    <2> QED BY <2>1, <1>1, <1>3
  <1>5. ASSUME NEW V \in SUBSET U, V # {}, \A x \in V : V \ {x} \in Good PROVE V \in Good
    <2>1. PICK x \in V : TRUE
      BY <1>5
    <2> DEFINE W == V \ {x}
    <2>2. /\ (T \cup V) \ {x} = T \cup W /\ x \in T \cup V
          /\ V \in SUBSET (T \cup U) /\ T \cup V \in SUBSET (T \cup U)
          /\ W \in SUBSET (T \cup U) /\ T \in SUBSET (T \cup U)
      OBVIOUS
    <2>3. Sum(V) = f[x] + Sum(W) /\ Sum(T \cup V) = f[x] + Sum(T \cup W)
      BY <2>2, <1>1
    <2>4. Sum(T \cup W) = Sum(T) + Sum(W)
      BY <1>5
    <2>5. f[x] \in Int /\ Sum(T) \in Int /\ Sum(W) \in Int
      BY <2>2, <1>1
    <2> HIDE DEF W
    <2>6. Sum(T \cup V) = Sum(T) + Sum(V)
      BY <2>3, <2>4, <2>5
    <2> QED BY <2>6
  <1> HIDE DEF Good
  <1>6. \A V \in SUBSET U : V \in Good
    BY <1>4, <1>5, SubsetInduction
  <1>7. Sum(T \cup U) = Sum(T) + Sum(U)
    BY <1>6 DEF Good
  <1> QED BY <1>1, <1>7 DEF Sum

\* The sum over a part, where no value is negative.
LEMMA SumSubset ==
    ASSUME NEW U, IsFiniteSet(U), NEW T, T \subseteq U, NEW f, \A x \in U : f[x] \in Nat
    PROVE  SumFunctionOnSet(f, T) <= SumFunctionOnSet(f, U)
  <1> DEFINE rest == U \ T
  <1>1. T \cup rest = U /\ T \cap rest = {} /\ IsFiniteSet(T) /\ IsFiniteSet(rest)
    BY FS_Subset
  <1>2. SumFunctionOnSet(f, rest) \in Nat /\ SumFunctionOnSet(f, T) \in Nat
    BY SumNat
  <1> HIDE DEF rest
  <1>3. \A x \in T \cup rest : f[x] \in Int
    BY <1>1
  <1>4. SumFunctionOnSet(f, T \cup rest) = SumFunctionOnSet(f, T) + SumFunctionOnSet(f, rest)
    BY <1>1, <1>3, SumUnion
  <1>5. SumFunctionOnSet(f, U) = SumFunctionOnSet(f, T) + SumFunctionOnSet(f, rest)
    BY <1>1, <1>4
  <1> QED BY <1>2, <1>5

\* A function that changes at one place.
LEMMA SumChange ==
    ASSUME NEW T, IsFiniteSet(T), NEW x \in T, NEW f, NEW h,
           \A y \in T : f[y] \in Int /\ h[y] \in Int,
           \A y \in T \ {x} : f[y] = h[y]
    PROVE  /\ SumFunctionOnSet(h, T) = SumFunctionOnSet(f, T) - f[x] + h[x]
           /\ SumFunctionOnSet(f, T) \in Int /\ SumFunctionOnSet(h, T) \in Int
  <1>1. /\ SumFunctionOnSet(f, T) = f[x] + SumFunctionOnSet(f, T \ {x})
        /\ SumFunctionOnSet(f, T) \in Int /\ SumFunctionOnSet(f, T \ {x}) \in Int
    BY SumRemove
  <1>2. /\ SumFunctionOnSet(h, T) = h[x] + SumFunctionOnSet(h, T \ {x})
        /\ SumFunctionOnSet(h, T) \in Int /\ SumFunctionOnSet(h, T \ {x}) \in Int
    BY SumRemove
  <1>3. SumFunctionOnSet(f, T \ {x}) = SumFunctionOnSet(h, T \ {x})
    BY SumSame, FS_Subset
  <1> QED BY <1>1, <1>2, <1>3

\* The sum over what a one-to-one function e makes of T.
LEMMA SumImage ==
    ASSUME NEW S, IsFiniteSet(S), NEW e, \A x, y \in S : e[x] = e[y] => x = y,
           NEW f, \A x \in S : f[e[x]] \in Int,
           NEW h, \A x \in S : h[x] = f[e[x]]
    PROVE  \A T \in SUBSET S :
            SumFunctionOnSet(f, {e[x] : x \in T}) = SumFunctionOnSet(h, T)
  <1> DEFINE image(T) == {e[x] : x \in T}
             Good == {T \in SUBSET S :
                IsFiniteSet(image(T)) /\ SumFunctionOnSet(f, image(T)) = SumFunctionOnSet(h, T)}
  <1>1. {} \in Good
    <2>1. image({}) = {}
      OBVIOUS
    <2> QED BY <2>1, SumEmpty, FS_EmptySet
  <1>2. ASSUME NEW T \in SUBSET S, T # {}, \A x \in T : T \ {x} \in Good PROVE T \in Good
    <2>1. PICK x \in T : TRUE
      BY <1>2
    <2> DEFINE V == T \ {x}
    <2>2. image(T) = image(V) \cup {e[x]} /\ e[x] \notin image(V)
      OBVIOUS
    <2>3. IsFiniteSet(image(V)) /\ SumFunctionOnSet(f, image(V)) = SumFunctionOnSet(h, V)
      BY <1>2
    <2>4. \A y \in image(V) \cup {e[x]} : f[y] \in Int
      OBVIOUS
    <2>5. IsFiniteSet(T) /\ \A y \in T : h[y] \in Int
      BY FS_Subset
    <2>6. SumFunctionOnSet(h, T) = h[x] + SumFunctionOnSet(h, V)
      BY <2>5, SumRemove
    <2> HIDE DEF V, image
    <2>7. SumFunctionOnSet(f, image(V) \cup {e[x]}) = f[e[x]] + SumFunctionOnSet(f, image(V))
      BY <2>2, <2>3, <2>4, SumAdd
    <2>8. IsFiniteSet(image(T))
      BY <2>2, <2>3, FS_AddElement
    <2> QED BY <2>2, <2>3, <2>6, <2>7, <2>8
  <1> HIDE DEF Good
  <1>3. \A T \in SUBSET S : T \in Good
    BY <1>1, <1>2, SubsetInduction
  <1> QED BY <1>3 DEF Good

\* Sums of two functions over one set add up place by place.
LEMMA SumPlus ==
    ASSUME NEW S, IsFiniteSet(S), NEW f, NEW h, NEW k,
           \A x \in S : f[x] \in Int /\ h[x] \in Int /\ k[x] = f[x] + h[x]
    PROVE  \A T \in SUBSET S :
            SumFunctionOnSet(k, T) = SumFunctionOnSet(f, T) + SumFunctionOnSet(h, T)
  <1> DEFINE Good == {T \in SUBSET S :
            SumFunctionOnSet(k, T) = SumFunctionOnSet(f, T) + SumFunctionOnSet(h, T)}
  <1>1. {} \in Good
    BY SumEmpty
  <1>2. ASSUME NEW T \in SUBSET S, T # {}, \A x \in T : T \ {x} \in Good PROVE T \in Good
    <2>1. PICK x \in T : TRUE
      BY <1>2
    <2>2. /\ SumFunctionOnSet(f, T) = f[x] + SumFunctionOnSet(f, T \ {x})
          /\ SumFunctionOnSet(h, T) = h[x] + SumFunctionOnSet(h, T \ {x})
          /\ SumFunctionOnSet(f, T \ {x}) \in Int /\ SumFunctionOnSet(h, T \ {x}) \in Int
      BY SumRemoveAny, SumInt
    <2>3. SumFunctionOnSet(k, T) = k[x] + SumFunctionOnSet(k, T \ {x})
      <3>1. \A y \in S : k[y] \in Int
        OBVIOUS
      <3> QED BY <3>1, SumRemoveAny
    <2>4. SumFunctionOnSet(k, T \ {x}) =
            SumFunctionOnSet(f, T \ {x}) + SumFunctionOnSet(h, T \ {x})
      BY <1>2
    <2> QED BY <2>2, <2>3, <2>4
  <1> HIDE DEF Good
  <1>3. \A T \in SUBSET S : T \in Good
    BY <1>1, <1>2, SubsetInduction
  <1> QED BY <1>3 DEF Good

\* The sum over the places where a function is not 0 is the sum over all.
LEMMA SumZero ==
    ASSUME NEW T, IsFiniteSet(T), NEW f, \A x \in T : f[x] = 0
    PROVE  SumFunctionOnSet(f, T) = 0
  <1> DEFINE Good == {U \in SUBSET T : SumFunctionOnSet(f, U) = 0}
  <1>1. {} \in Good
    BY SumEmpty
  <1>2. ASSUME NEW U \in SUBSET T, U # {}, \A x \in U : U \ {x} \in Good PROVE U \in Good
    <2>1. PICK x \in U : TRUE
      BY <1>2
    <2>2. SumFunctionOnSet(f, U) = f[x] + SumFunctionOnSet(f, U \ {x})
      BY SumRemoveAny
    <2> QED BY <2>2, <1>2
  <1> HIDE DEF Good
  <1>3. T \in Good
    BY <1>1, <1>2, SubsetInduction
  <1> QED BY <1>3 DEF Good

\* Summing what is at least as much everywhere gives at least as much.
LEMMA SumMonotone ==
    ASSUME NEW S, IsFiniteSet(S), NEW f, NEW h, \A x \in S : f[x] \in Int /\ h[x] \in Int /\ f[x] <= h[x]
    PROVE  \A T \in SUBSET S : SumFunctionOnSet(f, T) <= SumFunctionOnSet(h, T)
  <1> DEFINE k == [x \in S |-> h[x] - f[x]]
  <1>1. \A x \in S : k[x] \in Nat /\ k[x] \in Int /\ h[x] = f[x] + k[x]
    OBVIOUS
  <1> HIDE DEF k
  <1>2. \A T \in SUBSET S : SumFunctionOnSet(h, T) = SumFunctionOnSet(f, T) + SumFunctionOnSet(k, T)
    BY <1>1, SumPlus
  <1>3. \A T \in SUBSET S : SumFunctionOnSet(k, T) \in Nat /\ SumFunctionOnSet(f, T) \in Int
    BY <1>1, SumNat, SumInt
  <1> QED BY <1>2, <1>3

\* The sum over the union of a family of sets that have nothing in common is the sum of their sums.
LEMMA SumFamily ==
    ASSUME NEW S, IsFiniteSet(S), NEW F, \A t \in S : IsFiniteSet(F[t]),
           \A t, u \in S : t # u => F[t] \cap F[u] = {},
           NEW f, \A t \in S : \A x \in F[t] : f[x] \in Int,
           NEW g, \A t \in S : g[t] = SumFunctionOnSet(f, F[t]),
           NEW W, \A x : x \in W <=> \E t \in S : x \in F[t]
    PROVE  IsFiniteSet(W) /\ SumFunctionOnSet(f, W) = SumFunctionOnSet(g, S)
  <1> DEFINE all(T) == UNION {F[t] : t \in T}
             Good == {T \in SUBSET S : IsFiniteSet(all(T)) /\ SumFunctionOnSet(f, all(T)) = SumFunctionOnSet(g, T)}
  <1>1. {} \in Good
    <2>1. all({}) = {}
      OBVIOUS
    <2> QED BY <2>1, SumEmpty, FS_EmptySet
  <1>2. \A t \in S : g[t] \in Int
    BY SumInt
  <1>3. ASSUME NEW T \in SUBSET S, T # {}, \A t \in T : T \ {t} \in Good PROVE T \in Good
    <2>1. PICK t \in T : TRUE
      BY <1>3
    <2> DEFINE V == T \ {t}
               U == all(V)
               A == F[t]
    <2>2. all(T) = A \cup U /\ A \cap U = {}
      OBVIOUS
    <2>3. IsFiniteSet(A) /\ IsFiniteSet(U) /\ SumFunctionOnSet(f, U) = SumFunctionOnSet(g, V)
      BY <1>3
    <2>4. \A x \in A \cup U : f[x] \in Int
      OBVIOUS
    <2>5. SumFunctionOnSet(g, T) = g[t] + SumFunctionOnSet(g, V) /\ g[t] = SumFunctionOnSet(f, A)
      BY <1>2, SumRemoveAny
    <2> HIDE DEF V, U, A, all
    <2>6. SumFunctionOnSet(f, A \cup U) = SumFunctionOnSet(f, A) + SumFunctionOnSet(f, U)
      BY <2>2, <2>3, <2>4, SumUnion, ZenonT(60)
    <2>7. IsFiniteSet(A \cup U)
      BY <2>3, FS_Union
    <2> QED BY <2>2, <2>3, <2>5, <2>6, <2>7
  <1>4. W = all(S)
    OBVIOUS
  <1> HIDE DEF Good
  <1>5. \A T \in SUBSET S : T \in Good
    BY <1>1, <1>3, SubsetInduction
  <1>6. S \in Good
    BY <1>5
  <1> QED BY <1>4, <1>6 DEF Good
====
