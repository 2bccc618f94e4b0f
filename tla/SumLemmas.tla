------------------------------ MODULE SumLemmas ------------------------------
(***************************************************************************)
(* Facts about sums over finite sets, about sums that wrap and about       *)
(* divisions that round, and about the latest records of a log, which the  *)
(* proofs about the contracts' books rest on.                              *)
(*                                                                         *)
(* The sum of the library is a fold, defined by recursion over the subsets *)
(* of the set.  The induction these facts need is the search for a minimal *)
(* counterexample: the finite subsets of a set are well-founded.           *)
(***************************************************************************)
EXTENDS RecordLog, Functions, FiniteSetTheorems, SequenceTheorems, WellFoundedInduction, TLAPS

(* The element the folds of the library take next.                         *)
PickOne(s) == CHOOSE x \in s : TRUE

(* h sums f over the subsets of S, one picked element at a time.           *)
SumsUp(h, f, S) ==
  h = [s \in SUBSET S |-> IF s = {} THEN 0 ELSE f[PickOne(s)] + h[s \ {PickOne(s)}]]

(* It picks an element when there is one.                                  *)
LEMMA PickIn == ASSUME NEW s, s # {} PROVE PickOne(s) \in s
  BY DEF PickOne

(* Induction on finite sets, for a set of counterexamples.                 *)
LEMMA MinimalSubset ==
  ASSUME NEW S, IsFiniteSet(S), NEW B, B \subseteq SUBSET S, B # {}
  PROVE  \E s \in B : \A t \in B : t \subseteq s => t = s
<1>1. FiniteSubsetsOf(S) = SUBSET S
  BY FS_FiniteSubsetsOfFinite
<1>2. IsWellFoundedOn(StrictSubsetOrdering(S), SUBSET S)
  BY <1>1, FS_StrictSubsetOrderingWellFounded
<1>3. PICK s \in B : \A t \in B : ~(<<t, s>> \in StrictSubsetOrdering(S))
  BY <1>2, WFMin
<1>4. ASSUME NEW t \in B, t \subseteq s PROVE t = s
  BY <1>3, <1>4 DEF StrictSubsetOrdering
<1> QED
  BY <1>4

(* What sums over the subsets of S also sums over those of T.              *)
LEMMA SumsUnique ==
  ASSUME NEW f, NEW S, IsFiniteSet(S), NEW T, T \subseteq S, NEW g, NEW h, SumsUp(g, f, S), SumsUp(h, f, T)
  PROVE  \A s \in SUBSET T : g[s] = h[s]
<1> DEFINE B == {s \in SUBSET T : g[s] # h[s]}
<1>1. SUFFICES ASSUME B # {} PROVE FALSE
  OBVIOUS
<1>0. IsFiniteSet(T)
  BY FS_Subset
<1>2. PICK s \in B : \A t \in B : t \subseteq s => t = s
  <2>1. B \subseteq SUBSET T
    OBVIOUS
  <2> HIDE DEF B
  <2> QED
    BY <1>0, <1>1, <2>1, MinimalSubset
<1>3. g[s] = IF s = {} THEN 0 ELSE f[PickOne(s)] + g[s \ {PickOne(s)}]
  BY DEF SumsUp
<1>4. h[s] = IF s = {} THEN 0 ELSE f[PickOne(s)] + h[s \ {PickOne(s)}]
  BY DEF SumsUp
<1>5. s # {}
  BY <1>3, <1>4
<1>6. s \ {PickOne(s)} \in SUBSET T /\ s \ {PickOne(s)} # s /\ s \ {PickOne(s)} \subseteq s
  BY <1>5, PickIn
<1>7. g[s \ {PickOne(s)}] = h[s \ {PickOne(s)}]
  BY <1>2, <1>6
<1> QED
  BY <1>3, <1>4, <1>5, <1>7

(* There is a function that sums f over the subsets of a finite set: of a  *)
(* minimal set without one, the sums over its proper subsets make one.     *)
LEMMA SumsExist ==
  ASSUME NEW f, NEW S, IsFiniteSet(S)
  PROVE  \E h : SumsUp(h, f, S)
<1> DEFINE B == {T \in SUBSET S : ~ \E h : SumsUp(h, f, T)}
<1>1. SUFFICES ASSUME B # {} PROVE FALSE
  OBVIOUS
<1>2. PICK T \in B : \A U \in B : U \subseteq T => U = T
  <2>1. B \subseteq SUBSET S
    OBVIOUS
  <2> HIDE DEF B
  <2> QED
    BY <1>1, <2>1, MinimalSubset
<1> DEFINE sums(U) == CHOOSE h : SumsUp(h, f, U)
           below(U) == sums(U)[U]
           h == [s \in SUBSET T |->
                  IF s = {} THEN 0
                  ELSE f[PickOne(s)] + below(s \ {PickOne(s)})]
<1>3. ASSUME NEW U \in SUBSET T, U # T PROVE SumsUp(sums(U), f, U)
  <2>1. U \notin B /\ U \in SUBSET S
    BY <1>2, <1>3
  <2>2. \E g : SumsUp(g, f, U)
    BY <2>1
  <2> QED
    BY <2>2
<1>4. ASSUME NEW s \in SUBSET T, s # T PROVE h[s] = below(s)
  <2>1. SumsUp(sums(s), f, s)
    BY <1>3, <1>4
  <2>2. below(s) = IF s = {} THEN 0 ELSE f[PickOne(s)] + sums(s)[s \ {PickOne(s)}]
    BY <2>1 DEF SumsUp
  <2>3. CASE s # {}
    <3> DEFINE r == s \ {PickOne(s)}
    <3>1. r \subseteq s /\ r # T /\ r \in SUBSET T /\ IsFiniteSet(s)
      BY <2>3, PickIn, FS_Subset
    <3>2. SumsUp(sums(r), f, r)
      BY <1>3, <3>1
    <3>3. sums(s)[r] = sums(r)[r]
      <4> HIDE DEF r, sums
      <4>1. r \in SUBSET r
        OBVIOUS
      <4> QED
        BY <2>1, <3>1, <3>2, <4>1, SumsUnique
    <3> QED
      BY <2>2, <2>3, <3>3
  <2>4. CASE s = {}
    BY <2>2, <2>4
  <2> QED
    BY <2>3, <2>4
<1>5. SumsUp(h, f, T)
  <2>1. ASSUME NEW s \in SUBSET T, s # {} PROVE h[s \ {PickOne(s)}] = below(s \ {PickOne(s)})
    <3>1. s \ {PickOne(s)} \in SUBSET T /\ s \ {PickOne(s)} # T
      BY <2>1, PickIn
    <3> HIDE DEF h, below
    <3> QED
      BY <3>1, <1>4
  <2>2. ASSUME NEW s \in SUBSET T
        PROVE  h[s] = IF s = {} THEN 0 ELSE f[PickOne(s)] + h[s \ {PickOne(s)}]
    <3>1. h[s] = IF s = {} THEN 0 ELSE f[PickOne(s)] + below(s \ {PickOne(s)})
      OBVIOUS
    <3> HIDE DEF h, below
    <3> QED
      BY <2>1, <3>1
  <2>3. h = [s \in SUBSET T |-> h[s]]
    OBVIOUS
  <2> HIDE DEF h
  <2> QED
    BY <2>2, <2>3 DEF SumsUp
<1> QED
  BY <1>2, <1>5

(* The sum of the library, unfolded once.                                  *)
LEMMA SumIsSums ==
  ASSUME NEW f, NEW S, IsFiniteSet(S)
  PROVE  \E h : SumsUp(h, f, S) /\ SumFunctionOnSet(f, S) = h[S]
<1> DEFINE h == CHOOSE h : h = [s \in SUBSET S |-> IF s = {} THEN 0 ELSE f[PickOne(s)] + h[s \ {PickOne(s)}]]
<1>1. SumsUp(h, f, S)
  <2>1. \E g : SumsUp(g, f, S)
    BY SumsExist
  <2> QED
    BY <2>1 DEF SumsUp
<1>2. SumFunctionOnSet(f, S) = h[S]
  BY DEF SumFunctionOnSet, FoldFunctionOnSet, MapThenFoldSet, PickOne
<1> QED
  BY <1>1, <1>2

(* The sum over nothing is nothing.                                        *)
LEMMA SumEmpty == ASSUME NEW f PROVE SumFunctionOnSet(f, {}) = 0
<1>1. IsFiniteSet({})
  BY FS_EmptySet
<1>2. PICK h : SumsUp(h, f, {}) /\ SumFunctionOnSet(f, {}) = h[{}]
  BY <1>1, SumIsSums
<1> QED
  BY <1>2 DEF SumsUp

(* The element summed last is the one that is picked.                      *)
LEMMA SumPicked ==
  ASSUME NEW f, NEW S, IsFiniteSet(S), S # {}
  PROVE  SumFunctionOnSet(f, S) = f[PickOne(S)] + SumFunctionOnSet(f, S \ {PickOne(S)})
<1> DEFINE T == S \ {PickOne(S)}
<1>1. IsFiniteSet(T) /\ T \subseteq S
  BY FS_Subset
<1>2. PICK h : SumsUp(h, f, S) /\ SumFunctionOnSet(f, S) = h[S]
  BY SumIsSums
<1>3. PICK g : SumsUp(g, f, T) /\ SumFunctionOnSet(f, T) = g[T]
  BY <1>1, SumIsSums
<1>4. h[T] = g[T]
  <2>1. T \in SUBSET T
    OBVIOUS
  <2> HIDE DEF T
  <2> QED
    BY <1>1, <1>2, <1>3, <2>1, SumsUnique
<1>5. h[S] = f[PickOne(S)] + h[T]
  BY <1>2 DEF SumsUp
<1> QED
  BY <1>2, <1>3, <1>4, <1>5

(* A sum of integers is an integer, and any of its elements may be taken   *)
(* out of it.                                                              *)
LEMMA SumRemove ==
  ASSUME NEW S, IsFiniteSet(S), NEW f, \A x \in S : f[x] \in Int
  PROVE  /\ SumFunctionOnSet(f, S) \in Int
         /\ \A x \in S : SumFunctionOnSet(f, S) = f[x] + SumFunctionOnSet(f, S \ {x})
<1> DEFINE Sum(T) == SumFunctionOnSet(f, T)
           Good(T) == Sum(T) \in Int /\ \A x \in T : Sum(T) = f[x] + Sum(T \ {x})
           B == {T \in SUBSET S : ~Good(T)}
<1>1. SUFFICES ASSUME B # {} PROVE FALSE
  OBVIOUS
<1>2. PICK T \in B : \A U \in B : U \subseteq T => U = T
  <2>1. B \subseteq SUBSET S
    OBVIOUS
  <2> HIDE DEF B
  <2> QED
    BY <1>1, <2>1, MinimalSubset
<1>3. ASSUME NEW U \in SUBSET T, U # T PROVE Good(U)
  BY <1>2, <1>3
<1>4. IsFiniteSet(T) /\ T \subseteq S /\ ~Good(T)
  BY FS_Subset
<1>5. CASE T = {}
  BY <1>4, <1>5, SumEmpty
<1>6. CASE T # {}
  <2> DEFINE y == PickOne(T)
  <2>1. y \in T /\ Sum(T) = f[y] + Sum(T \ {y})
    BY <1>4, <1>6, PickIn, SumPicked
  <2> HIDE DEF Sum, y
  <2>2. Sum(T \ {y}) \in Int
    BY <1>3, <2>1
  <2>3. Sum(T) \in Int
    BY <1>4, <2>1, <2>2
  <2>4. ASSUME NEW x \in T PROVE Sum(T) = f[x] + Sum(T \ {x})
    <3>1. CASE x = y
      BY <2>1, <3>1
    <3>2. CASE x # y
      <4> DEFINE V == (T \ {y}) \ {x}
      <4>1. V = (T \ {x}) \ {y}
        OBVIOUS
      <4>2. Sum(T \ {y}) = f[x] + Sum(V)
        BY <1>3, <2>1, <3>2
      <4>3. Sum(T \ {x}) = f[y] + Sum(V)
        BY <1>3, <2>1, <3>2, <4>1
      <4>4. Sum(V) \in Int
        BY <1>3, <2>1
      <4>5. f[x] \in Int /\ f[y] \in Int
        BY <1>4, <2>1
      <4> HIDE DEF V
      <4> QED
        BY <2>1, <4>2, <4>3, <4>4, <4>5
    <3> QED
      BY <3>1, <3>2
  <2> QED
    BY <1>4, <2>3, <2>4
<1> QED
  BY <1>5, <1>6

(* A sum depends on the values that are summed only.                       *)
LEMMA SumSame ==
  ASSUME NEW S, IsFiniteSet(S), NEW f, NEW g, \A x \in S : f[x] = g[x]
  PROVE  SumFunctionOnSet(f, S) = SumFunctionOnSet(g, S)
<1> DEFINE B == {T \in SUBSET S : SumFunctionOnSet(f, T) # SumFunctionOnSet(g, T)}
<1>1. SUFFICES ASSUME B # {} PROVE FALSE
  OBVIOUS
<1>2. PICK T \in B : \A U \in B : U \subseteq T => U = T
  <2>1. B \subseteq SUBSET S
    OBVIOUS
  <2> HIDE DEF B
  <2> QED
    BY <1>1, <2>1, MinimalSubset
<1>3. IsFiniteSet(T) /\ T \subseteq S
  BY FS_Subset
<1>4. T # {}
  BY SumEmpty
<1>5. PickOne(T) \in T
  BY <1>4, PickIn
<1>6. SumFunctionOnSet(f, T \ {PickOne(T)}) = SumFunctionOnSet(g, T \ {PickOne(T)})
  BY <1>2, <1>5
<1>7. /\ SumFunctionOnSet(f, T) = f[PickOne(T)] + SumFunctionOnSet(f, T \ {PickOne(T)})
      /\ SumFunctionOnSet(g, T) = g[PickOne(T)] + SumFunctionOnSet(g, T \ {PickOne(T)})
  BY <1>3, <1>4, SumPicked
<1> QED
  BY <1>2, <1>3, <1>5, <1>6, <1>7

(* When one value changes the sum changes by as much.                      *)
LEMMA SumChange ==
  ASSUME NEW S, IsFiniteSet(S), NEW f, \A y \in S : f[y] \in Int,
         NEW x \in S, NEW g, g[x] \in Int, \A y \in S \ {x} : g[y] = f[y]
  PROVE  SumFunctionOnSet(g, S) = SumFunctionOnSet(f, S) + g[x] - f[x]
<1>1. IsFiniteSet(S \ {x})
  BY FS_RemoveElement
<1>2. SumFunctionOnSet(g, S \ {x}) = SumFunctionOnSet(f, S \ {x})
  BY <1>1, SumSame
<1>3. SumFunctionOnSet(f, S \ {x}) \in Int
  BY <1>1, SumRemove
<1>4. SumFunctionOnSet(f, S) = f[x] + SumFunctionOnSet(f, S \ {x})
  BY SumRemove
<1>5. SumFunctionOnSet(g, S) = g[x] + SumFunctionOnSet(g, S \ {x})
  <2>1. \A y \in S : g[y] \in Int
    OBVIOUS
  <2> QED
    BY <2>1, SumRemove
<1> QED
  BY <1>2, <1>3, <1>4, <1>5

(* A sum over one element more.                                            *)
LEMMA SumAdd ==
  ASSUME NEW S, IsFiniteSet(S), NEW x, x \notin S, NEW f, \A y \in S \union {x} : f[y] \in Int
  PROVE  SumFunctionOnSet(f, S \union {x}) = SumFunctionOnSet(f, S) + f[x]
<1> DEFINE T == S \union {x}
<1>1. IsFiniteSet(T) /\ T \ {x} = S /\ x \in T
  BY FS_AddElement
<1>2. SumFunctionOnSet(f, T) = f[x] + SumFunctionOnSet(f, T \ {x})
  BY <1>1, SumRemove
<1>3. SumFunctionOnSet(f, S) \in Int /\ f[x] \in Int
  BY SumRemove
<1>4. SumFunctionOnSet(f, T) = f[x] + SumFunctionOnSet(f, S)
  BY <1>1, <1>2
<1> HIDE DEF T
<1>5. SumFunctionOnSet(f, T) = SumFunctionOnSet(f, S) + f[x]
  BY <1>3, <1>4
<1> QED
  BY <1>5 DEF T

(* One element grows: so does the sum over whatever holds it.              *)
LEMMA SumRaise ==
  ASSUME NEW S, IsFiniteSet(S), NEW f, \A y \in S : f[y] \in Int, NEW x, f[x] \in Int,
         NEW n \in Int, NEW g, g[x] = f[x] + n, \A y \in S \ {x} : g[y] = f[y]
  PROVE  /\ SumFunctionOnSet(g, S) = SumFunctionOnSet(f, S) + (IF x \in S THEN n ELSE 0)
         /\ SumFunctionOnSet(f, S) \in Int
<1>1. SumFunctionOnSet(f, S) \in Int
  BY SumRemove
<1>2. CASE x \in S
  <2>1. g[x] \in Int
    OBVIOUS
  <2>2. SumFunctionOnSet(g, S) = SumFunctionOnSet(f, S) + g[x] - f[x]
    BY <1>2, <2>1, SumChange
  <2> QED
    BY <1>1, <1>2, <2>2
<1>3. CASE x \notin S
  <2>1. \A y \in S : f[y] = g[y]
    BY <1>3
  <2>2. SumFunctionOnSet(g, S) = SumFunctionOnSet(f, S)
    BY <2>1, SumSame
  <2> QED
    BY <1>1, <1>3, <2>2
<1> QED
  BY <1>1, <1>2, <1>3

(* A sum of zeros is zero.                                                 *)
LEMMA SumZero ==
  ASSUME NEW S, IsFiniteSet(S), NEW f, \A x \in S : f[x] = 0
  PROVE  SumFunctionOnSet(f, S) = 0
<1> DEFINE B == {T \in SUBSET S : SumFunctionOnSet(f, T) # 0}
<1>1. SUFFICES ASSUME B # {} PROVE FALSE
  OBVIOUS
<1>2. PICK T \in B : \A U \in B : U \subseteq T => U = T
  <2>1. B \subseteq SUBSET S
    OBVIOUS
  <2> HIDE DEF B
  <2> QED
    BY <1>1, <2>1, MinimalSubset
<1>3. IsFiniteSet(T) /\ T \subseteq S /\ T # {}
  BY FS_Subset, SumEmpty
<1>4. PickOne(T) \in T
  BY <1>3, PickIn
<1>5. SumFunctionOnSet(f, T \ {PickOne(T)}) = 0
  BY <1>2, <1>4
<1>6. SumFunctionOnSet(f, T) = f[PickOne(T)] + SumFunctionOnSet(f, T \ {PickOne(T)})
  BY <1>3, SumPicked
<1> QED
  BY <1>2, <1>3, <1>4, <1>5, <1>6

(* A sum of natural numbers is one, and none of them exceeds it.           *)
LEMMA SumNat ==
  ASSUME NEW S, IsFiniteSet(S), NEW f, \A x \in S : f[x] \in Nat
  PROVE  /\ SumFunctionOnSet(f, S) \in Nat
         /\ \A x \in S : f[x] <= SumFunctionOnSet(f, S)
<1> DEFINE Sum(T) == SumFunctionOnSet(f, T)
           B == {T \in SUBSET S : Sum(T) \notin Nat}
<1>0. ASSUME B # {} PROVE FALSE
  <2>1. B \subseteq SUBSET S
    OBVIOUS
  <2>2. PICK T \in B : \A U \in B : U \subseteq T => U = T
    <3> HIDE DEF B
    <3> QED
      BY <1>0, <2>1, MinimalSubset
  <2>3. T \subseteq S /\ IsFiniteSet(T) /\ Sum(T) \notin Nat
    BY <2>2, FS_Subset
  <2>4. T # {}
    BY <2>3, SumEmpty
  <2>5. PickOne(T) \in T
    BY <2>4, PickIn
  <2>6. T \ {PickOne(T)} \in SUBSET S /\ T \ {PickOne(T)} # T
    BY <2>3, <2>5
  <2>7. Sum(T \ {PickOne(T)}) \in Nat
    BY <2>2, <2>6
  <2>8. Sum(T) = f[PickOne(T)] + Sum(T \ {PickOne(T)})
    BY <2>3, <2>4, SumPicked
  <2>9. f[PickOne(T)] \in Nat
    BY <2>3, <2>5
  <2> QED
    BY <2>3, <2>7, <2>8, <2>9
<1>1. \A T \in SUBSET S : Sum(T) \in Nat
  BY <1>0
<1>2. \A x \in S : Sum(S) = f[x] + Sum(S \ {x})
  BY SumRemove
<1>3. \A x \in S : S \ {x} \in SUBSET S
  OBVIOUS
<1> HIDE DEF Sum
<1>4. ASSUME NEW x \in S PROVE f[x] <= Sum(S)
  <2>1. f[x] \in Nat /\ Sum(S \ {x}) \in Nat /\ Sum(S) = f[x] + Sum(S \ {x})
    BY <1>1, <1>2, <1>3
  <2> QED
    BY <2>1
<1>5. Sum(S) \in Nat
  BY <1>1
<1> QED
  BY <1>4, <1>5 DEF Sum

(* A sum of values to which a multiple of others is added.                 *)
LEMMA SumLinear ==
  ASSUME NEW S, IsFiniteSet(S), NEW c \in Int, NEW f, NEW h, NEW g,
         \A x \in S : f[x] \in Int, \A x \in S : h[x] \in Int,
         \A x \in S : g[x] = f[x] + c * h[x]
  PROVE  SumFunctionOnSet(g, S) = SumFunctionOnSet(f, S) + c * SumFunctionOnSet(h, S)
<1> DEFINE Ok(T) == SumFunctionOnSet(g, T) = SumFunctionOnSet(f, T) + c * SumFunctionOnSet(h, T)
           B == {T \in SUBSET S : ~ Ok(T)}
<1>0. ASSUME B # {} PROVE FALSE
  <2>1. B \subseteq SUBSET S
    OBVIOUS
  <2>2. PICK T \in B : \A U \in B : U \subseteq T => U = T
    <3> HIDE DEF B
    <3> QED
      BY <1>0, <2>1, MinimalSubset
  <2>3. T \subseteq S /\ IsFiniteSet(T) /\ ~ Ok(T)
    BY <2>2, FS_Subset
  <2>4. T # {}
    <3>1. c * 0 = 0
      OBVIOUS
    <3>2. Ok({})
      BY <3>1, SumEmpty
    <3> QED
      BY <2>3, <3>2
  <2> DEFINE x == PickOne(T)
             U == T \ {x}
  <2>5. x \in S /\ x \in T
    BY <2>3, <2>4, PickIn
  <2>6. U \in SUBSET S /\ U # T /\ U \subseteq T /\ IsFiniteSet(U)
    BY <2>3, <2>5, FS_Subset
  <2>7. Ok(U)
    BY <2>2, <2>6
  <2>8. /\ SumFunctionOnSet(g, T) = g[x] + SumFunctionOnSet(g, U)
        /\ SumFunctionOnSet(f, T) = f[x] + SumFunctionOnSet(f, U)
        /\ SumFunctionOnSet(h, T) = h[x] + SumFunctionOnSet(h, U)
    BY <2>3, <2>4, SumPicked
  <2>9. /\ SumFunctionOnSet(f, U) \in Int /\ SumFunctionOnSet(h, U) \in Int
        /\ f[x] \in Int /\ h[x] \in Int /\ g[x] = f[x] + c * h[x]
    <3>1. /\ \A y \in U : f[y] \in Int /\ h[y] \in Int
      BY <2>6
    <3>2. /\ \A y \in U : f[y] \in Int
          /\ \A y \in U : h[y] \in Int
      BY <3>1
    <3>3. SumFunctionOnSet(f, U) \in Int /\ SumFunctionOnSet(h, U) \in Int
      BY <2>6, <3>2, SumRemove
    <3> QED
      BY <2>5, <3>3
  <2> DEFINE sf == SumFunctionOnSet(f, U)
             sh == SumFunctionOnSet(h, U)
  <2>10. sf \in Int /\ sh \in Int /\ SumFunctionOnSet(g, U) = sf + c * sh
    BY <2>7, <2>9
  <2> HIDE DEF sf, sh, x, U
  <2>11. c * (h[x] + sh) = c * h[x] + c * sh
    BY <2>9, <2>10
  <2>12. f[x] + c * h[x] + (sf + c * sh) = f[x] + sf + c * (h[x] + sh)
    <3>1. c * h[x] \in Int /\ c * sh \in Int
      BY <2>9, <2>10
    <3> QED
      BY <2>9, <2>10, <2>11, <3>1
  <2>13. Ok(T)
    BY <2>8, <2>9, <2>10, <2>12 DEF sf, sh
  <2> QED
    BY <2>3, <2>13
<1>1. \A T \in SUBSET S : Ok(T)
  BY <1>0
<1> QED
  BY <1>1

(* Smaller values have a smaller sum.                                      *)
LEMMA SumLeq ==
  ASSUME NEW S, IsFiniteSet(S), NEW f, NEW g,
         \A x \in S : f[x] \in Int, \A x \in S : g[x] \in Int, \A x \in S : f[x] <= g[x]
  PROVE  SumFunctionOnSet(f, S) <= SumFunctionOnSet(g, S)
<1> DEFINE h == [x \in S |-> g[x] - f[x]]
           one == 1
<1>1. \A x \in S : h[x] \in Nat
  OBVIOUS
<1>2. one \in Int /\ \A x \in S : g[x] = f[x] + one * h[x]
  OBVIOUS
<1> HIDE DEF h, one
<1>3. \A x \in S : h[x] \in Int
  BY <1>1
<1>4. SumFunctionOnSet(g, S) = SumFunctionOnSet(f, S) + one * SumFunctionOnSet(h, S)
  BY <1>2, <1>3, SumLinear
<1>5. SumFunctionOnSet(h, S) \in Nat
  BY <1>1, SumNat
<1>6. SumFunctionOnSet(f, S) \in Int
  BY SumRemove
<1> QED
  BY <1>4, <1>5, <1>6 DEF one

(* What leaves one place for another, or for the same, changes no sum.     *)
LEMMA SumMove ==
  ASSUME NEW S, IsFiniteSet(S), NEW f, \A x \in S : f[x] \in Int,
         NEW a \in S, NEW b \in S, NEW n \in Int, NEW g,
         a = b => g[a] = f[a],
         a # b => g[a] = f[a] - n /\ g[b] = f[b] + n,
         \A x \in S \ {a, b} : g[x] = f[x]
  PROVE  SumFunctionOnSet(g, S) = SumFunctionOnSet(f, S)
<1>1. CASE a = b
  <2>1. \A x \in S : g[x] = f[x]
    BY <1>1
  <2> QED
    BY <2>1, SumSame
<1>2. CASE a # b
  <2> DEFINE m == [x \in S |-> IF x = a THEN f[a] - n ELSE f[x]]
  <2>1. m[a] = f[a] - n /\ \A x \in S \ {a} : m[x] = f[x]
    OBVIOUS
  <2>2. \A x \in S : m[x] \in Int
    OBVIOUS
  <2>3. g[b] = m[b] + n /\ m[b] = f[b] /\ \A x \in S \ {b} : g[x] = m[x]
    BY <1>2
  <2> HIDE DEF m
  <2>4. SumFunctionOnSet(m, S) = SumFunctionOnSet(f, S) + m[a] - f[a]
    BY <2>1, <2>2, SumChange
  <2>5. g[b] \in Int
    BY <2>2, <2>3
  <2>6. SumFunctionOnSet(g, S) = SumFunctionOnSet(m, S) + g[b] - m[b]
    <3>1. \A x \in S \ {b} : g[x] = m[x]
      BY <2>3
    <3> QED
      BY <2>2, <2>5, <3>1, SumChange
  <2>7. SumFunctionOnSet(f, S) \in Int
    BY SumRemove
  <2> QED
    BY <2>1, <2>2, <2>3, <2>4, <2>6, <2>7
<1> QED
  BY <1>1, <1>2

(* The sum of a function with one argument more.                           *)
LEMMA SumExtend ==
  ASSUME NEW S, IsFiniteSet(S), NEW x, x \notin S,
         NEW f, DOMAIN f = S, NEW g, DOMAIN g = S \union {x},
         \A y \in S : f[y] \in Int /\ g[y] = f[y], g[x] \in Int
  PROVE  SumFunction(f) \in Int /\ SumFunction(g) = SumFunction(f) + g[x]
<1>1. SumFunction(f) = SumFunctionOnSet(f, S) /\ SumFunction(g) = SumFunctionOnSet(g, S \union {x})
  BY DEF SumFunction
<1>2. SumFunctionOnSet(f, S) \in Int
  BY SumRemove
<1>3. SumFunctionOnSet(g, S) = SumFunctionOnSet(f, S)
  BY SumSame
<1>4. SumFunctionOnSet(g, S \union {x}) = SumFunctionOnSet(g, S) + g[x]
  <2>1. \A y \in S \union {x} : g[y] \in Int
    OBVIOUS
  <2> QED
    BY <2>1, SumAdd
<1> QED
  BY <1>1, <1>2, <1>3, <1>4

-----------------------------------------------------------------------------
(* What % and \div are for a positive divisor.                             *)
LEMMA DivMod == ASSUME NEW a \in Int, NEW m \in Nat \ {0}
  PROVE a = m * (a \div m) + (a % m) /\ a % m \in 0 .. m - 1 /\ a \div m \in Int
  OBVIOUS

(* The remainder is the only one there is.                                 *)
LEMMA ModUnique == ASSUME NEW m \in Nat \ {0}, NEW q \in Int, NEW r \in 0 .. m - 1
  PROVE (m * q + r) % m = r
  OBVIOUS

(* A sum that wraps at every step wraps once.                              *)
LEMMA ModAdd == ASSUME NEW a \in Int, NEW b \in Int, NEW m \in Nat \ {0}
  PROVE ((a % m) + b) % m = (a + b) % m
<1> DEFINE p == a \div m
           c == (a % m) + b
           q == c \div m
           r == c % m
<1>1. a = m * p + (a % m) /\ p \in Int /\ a % m \in Int
  BY DivMod
<1>2. c \in Int /\ a + b = m * p + c
  <2>1. m * p \in Int
    BY <1>1
  <2> DEFINE mp == m * p
  <2> HIDE DEF mp, p
  <2>2. mp \in Int /\ a = mp + (a % m)
    BY <1>1, <2>1 DEF mp
  <2>3. c \in Int /\ a + b = mp + c
    BY <1>1, <2>2
  <2> QED
    BY <2>3 DEF mp
<1> HIDE DEF p, c
<1>3. c = m * q + r /\ q \in Int /\ r \in 0 .. m - 1
  BY <1>2, DivMod
<1> HIDE DEF q, r
<1>4. m * (p + q) = m * p + m * q /\ p + q \in Int
  BY <1>1, <1>3
<1>5. a + b = m * (p + q) + r
  <2> DEFINE mp == m * p
             mq == m * q
             all == m * (p + q)
  <2>1. mp \in Int /\ mq \in Int /\ all = mp + mq /\ a + b = mp + c /\ c = mq + r
    BY <1>1, <1>2, <1>3, <1>4
  <2> HIDE DEF mp, mq, all
  <2>2. a + b = all + r
    BY <1>3, <2>1
  <2> QED
    BY <2>2 DEF all
<1>6. (a + b) % m = r
  BY <1>3, <1>4, <1>5, ModUnique
<1> QED
  BY <1>6 DEF c, r

(* Factors may be replaced by larger ones.                                 *)
LEMMA TimesGrows == \A a, b, c \in Nat : a <= b => a * c <= b * c
OBVIOUS

(* A common factor may be left out.                                        *)
LEMMA TimesCancels == \A a, b \in Int : \A m \in Nat \ {0} : a * m <= b * m => a <= b
<1> SUFFICES ASSUME NEW a \in Int, NEW b \in Int, NEW m \in Nat \ {0}, a > b
             PROVE  a * m > b * m
  OBVIOUS
<1> DEFINE d == a - b
<1>1. d \in Nat \ {0} /\ a = b + d
  OBVIOUS
<1> HIDE DEF d
<1>2. (b + d) * m = b * m + d * m
  BY <1>1
<1>3. d * m \in Nat \ {0}
  BY <1>1
<1> QED
  BY <1>1, <1>2, <1>3

(* Rounding down gives no more, and less by less than one.                 *)
LEMMA RoundedDown == ASSUME NEW a \in Nat, NEW m \in Nat \ {0}
  PROVE a \div m \in Nat /\ (a \div m) * m <= a /\ a < (a \div m) * m + m
<1>1. a = m * (a \div m) + (a % m) /\ a % m \in 0 .. m - 1 /\ a \div m \in Int
  BY DivMod
<1>2. a \div m \in Nat
  OBVIOUS
<1> DEFINE q == a \div m
<1>3. m * q = q * m
  BY <1>2
<1>4. m * q \in Nat
  BY <1>2
<1> QED
  BY <1>1, <1>2, <1>3, <1>4

(* A set of numbers has a least one.                                       *)
LEMMA LeastNumber ==
  ASSUME NEW B, B \subseteq Nat, B # {}
  PROVE  \E n \in B : \A m \in B : n <= m
<1>1. PICK n \in B : \A m \in B : ~(<<m, n>> \in OpToRel(<, Nat))
  BY NatLessThanWellFounded, WFMin
<1>2. ASSUME NEW m \in B PROVE n <= m
  <2>1. m \in Nat /\ n \in Nat
    OBVIOUS
  <2>2. ~(m < n)
    BY <1>1, <2>1 DEF OpToRel
  <2> QED
    BY <2>1, <2>2
<1> QED
  BY <1>2

(* Quotients and products of naturals.                                     *)
LEMMA NatQuotient == \A a \in Nat : \A m \in Nat \ {0} : a \div m \in Nat
  BY RoundedDown
LEMMA NatProduct == \A a, b \in Nat : a * b \in Nat
OBVIOUS

(* A larger number has a larger square.                                    *)
LEMMA SquaresGrow == \A a, b \in Nat : a <= b => a * a <= b * b
<1> SUFFICES ASSUME NEW a \in Nat, NEW b \in Nat, a <= b PROVE a * a <= b * b
  OBVIOUS
<1>1. a * a <= b * a
  BY TimesGrows
<1>2. a * b <= b * b
  BY TimesGrows
<1>3. a * b = b * a /\ a * a \in Nat /\ a * b \in Nat /\ b * b \in Nat
  OBVIOUS
<1> QED
  BY <1>1, <1>2, <1>3

(* Twice the greater mean of two numbers, squared, is four times their     *)
(* product at least.                                                       *)
LEMMA MeansSquared ==
  ASSUME NEW x \in Nat, NEW p \in Nat
  PROVE  (x + p) * (x + p) >= 4 * (x * p)
<1> DEFINE d == x - p
<1>1. d * d \in Nat
  <2>1. CASE x >= p
    <3>1. d \in Nat
      BY <2>1
    <3> HIDE DEF d
    <3> QED
      BY <3>1
  <2>2. CASE x < p
    <3>1. -d \in Nat /\ d \in Int
      BY <2>2
    <3> HIDE DEF d
    <3>2. (-d) * (-d) \in Nat
      BY <3>1
    <3>3. (-d) * (-d) = d * d
      BY <3>1
    <3> QED
      BY <3>2, <3>3
  <2> QED
    BY <2>1, <2>2
<1>2. (x + p) * (x + p) = d * d + 4 * (x * p)
  <2>1. (x + p) * (x + p) = x * x + 2 * (x * p) + p * p
    OBVIOUS
  <2>2. d * d = x * x - 2 * (x * p) + p * p
    OBVIOUS
  <2>3. x * x \in Nat /\ x * p \in Nat /\ p * p \in Nat
    OBVIOUS
  <2> HIDE DEF d
  <2> QED
    BY <2>1, <2>2, <2>3
<1>3. x * p \in Nat
  OBVIOUS
<1> HIDE DEF d
<1> QED
  BY <1>1, <1>2, <1>3

(* The summands of a sum have a common factor.                             *)
LEMMA SumScaled ==
  ASSUME NEW S, IsFiniteSet(S), NEW c \in Int, NEW h, NEW g,
         \A x \in S : h[x] \in Int, \A x \in S : g[x] = c * h[x]
  PROVE  SumFunctionOnSet(g, S) = c * SumFunctionOnSet(h, S)
<1> DEFINE z == [x \in S |-> 0]
<1>1. (\A x \in S : z[x] = 0) /\ (\A x \in S : z[x] \in Int) /\ \A x \in S : g[x] = z[x] + c * h[x]
  OBVIOUS
<1> HIDE DEF z
<1>2. SumFunctionOnSet(g, S) = SumFunctionOnSet(z, S) + c * SumFunctionOnSet(h, S)
  BY <1>1, SumLinear
<1>3. SumFunctionOnSet(z, S) = 0
  BY <1>1, SumZero
<1>4. c * SumFunctionOnSet(h, S) \in Int
  <2>1. SumFunctionOnSet(h, S) \in Int
    BY SumRemove
  <2> QED
    BY <2>1
<1> QED
  BY <1>2, <1>3, <1>4

(* A sum of ones counts them.                                              *)
LEMMA SumOnes ==
  ASSUME NEW S, IsFiniteSet(S), NEW f, \A x \in S : f[x] = 1
  PROVE  SumFunctionOnSet(f, S) = Cardinality(S)
<1> DEFINE B == {T \in SUBSET S : SumFunctionOnSet(f, T) # Cardinality(T)}
<1>1. SUFFICES ASSUME B # {} PROVE FALSE
  OBVIOUS
<1>2. PICK T \in B : \A U \in B : U \subseteq T => U = T
  <2>1. B \subseteq SUBSET S
    OBVIOUS
  <2> HIDE DEF B
  <2> QED
    BY <1>1, <2>1, MinimalSubset
<1>3. IsFiniteSet(T) /\ T \subseteq S
  BY FS_Subset
<1>4. T # {}
  BY SumEmpty, FS_EmptySet
<1>5. PICK x \in T : TRUE
  BY <1>4
<1>6. T \ {x} \in SUBSET S /\ T \ {x} # T /\ T \ {x} \subseteq T
  BY <1>3
<1>7. SumFunctionOnSet(f, T \ {x}) = Cardinality(T \ {x})
  BY <1>2, <1>6
<1>8. SumFunctionOnSet(f, T) = f[x] + SumFunctionOnSet(f, T \ {x})
  <2>1. \A y \in T : f[y] \in Int
    BY <1>3
  <2> QED
    BY <1>3, <2>1, SumRemove
<1>9. Cardinality(T) = Cardinality(T \ {x}) + 1
  <2>1. Cardinality(T) \in Nat /\ Cardinality(T \ {x}) = Cardinality(T) - 1
    BY <1>3, FS_RemoveElement, FS_CardinalityType
  <2> QED
    BY <2>1
<1>10. f[x] = 1 /\ Cardinality(T \ {x}) \in Nat
  BY <1>3, FS_RemoveElement, FS_CardinalityType
<1> QED
  BY <1>7, <1>8, <1>9, <1>10

-----------------------------------------------------------------------------
(* The latest records of a log are records, as many as the cap lets be,    *)
(* and each stands where the log has it.                                   *)
LEMMA LatestOfLog ==
  ASSUME NEW S, NEW log \in Seq(S), NEW cap \in Nat \ {0}
  PROVE  /\ Latest(log, cap) \in Seq(S)
         /\ Len(Latest(log, cap)) = IF Len(log) <= cap THEN Len(log) ELSE cap
         /\ \A i \in 1 .. Len(Latest(log, cap)) :
              Latest(log, cap)[i] = log[IF Len(log) <= cap THEN i ELSE Len(log) - cap + i]
<1>1. Len(log) \in Nat
  BY LenProperties
<1>2. CASE Len(log) <= cap
  BY <1>1, <1>2 DEF Latest
<1>3. CASE ~(Len(log) <= cap)
  <2> DEFINE m == Len(log) - cap + 1
             n == Len(log)
  <2>1. m \in Int /\ n \in Int /\ m \in 1 .. n /\ n - m + 1 = cap
    BY <1>1, <1>3
  <2>2. \A i \in m .. n : log[i] \in S
    BY <2>1, ElementOfSeq
  <2>3. Latest(log, cap) = SubSeq(log, m, n)
    BY <1>3 DEF Latest
  <2>4. m - 1 = Len(log) - cap
    BY <1>1
  <2> HIDE DEF m, n
  <2>5. /\ SubSeq(log, m, n) \in Seq(S)
        /\ Len(SubSeq(log, m, n)) = IF m <= n THEN n - m + 1 ELSE 0
        /\ \A i \in 1 .. n - m + 1 : SubSeq(log, m, n)[i] = log[m + i - 1]
    BY <2>1, <2>2, SubSeqProperties
  <2>6. PICK t \in Seq(S) : t = SubSeq(log, m, n)
    BY <2>5
  <2>7. Len(t) = cap
    BY <2>1, <2>5, <2>6
  <2>8. ASSUME NEW i \in 1 .. cap PROVE t[i] = log[Len(log) - cap + i]
    <3>1. m + i - 1 = Len(log) - cap + i
      BY <1>1, <2>1, <2>4
    <3>2. t[i] = log[m + i - 1]
      BY <2>1, <2>5, <2>6
    <3> QED
      BY <3>1, <3>2
  <2>9. Latest(log, cap) = t
    BY <2>3, <2>6
  <2> QED
    BY <1>3, <2>7, <2>8, <2>9
<1> QED
  BY <1>2, <1>3

(* A history that is full drops its oldest record for a new one and so     *)
(* goes on to hold the latest records of the log.                          *)
LEMMA LatestAppend ==
  ASSUME NEW S, NEW log \in Seq(S), NEW x \in S, NEW cap \in Nat \ {0},
         NEW h, h = Latest(log, cap)
  PROVE  Append(IF Len(h) >= cap THEN Tail(h) ELSE h, x) = Latest(Append(log, x), cap)
<1>1. /\ h \in Seq(S) /\ Len(h) = IF Len(log) <= cap THEN Len(log) ELSE cap
      /\ \A i \in 1 .. Len(h) : h[i] = log[IF Len(log) <= cap THEN i ELSE Len(log) - cap + i]
  BY LatestOfLog
<1>2. Len(log) \in Nat /\ Len(h) \in Nat
  BY <1>1, LenProperties
<1> DEFINE longer == Append(log, x)
           rest == IF Len(h) >= cap THEN Tail(h) ELSE h
           kept == Latest(longer, cap)
<1>3. /\ longer \in Seq(S) /\ Len(longer) = Len(log) + 1
      /\ \A i \in 1 .. Len(log) : longer[i] = log[i]
      /\ longer[Len(log) + 1] = x
  BY AppendProperties
<1>4. /\ rest \in Seq(S)
      /\ Len(rest) = IF Len(h) >= cap THEN cap - 1 ELSE Len(h)
      /\ \A i \in 1 .. Len(rest) : rest[i] = h[IF Len(h) >= cap THEN i + 1 ELSE i]
  <2>1. CASE Len(h) >= cap
    <3>1. h # << >> /\ Len(h) = cap
      BY <1>1, <1>2, <2>1
    <3>2. /\ Tail(h) \in Seq(S) /\ Len(Tail(h)) = Len(h) - 1
          /\ \A i \in 1 .. Len(Tail(h)) : Tail(h)[i] = h[i + 1]
      BY <1>1, <3>1, HeadTailProperties
    <3> QED
      BY <2>1, <3>1, <3>2
  <2>2. CASE ~(Len(h) >= cap)
    BY <1>1, <2>2
  <2> QED
    BY <2>1, <2>2
<1> HIDE DEF longer, rest
<1> HIDE DEF kept
<1>5. /\ kept \in Seq(S)
      /\ Len(kept) = IF Len(longer) <= cap THEN Len(longer) ELSE cap
      /\ \A i \in 1 .. Len(kept) :
           kept[i] = longer[IF Len(longer) <= cap THEN i ELSE Len(longer) - cap + i]
  <2>1. longer \in Seq(S)
    BY <1>3
  <2>2. /\ Latest(longer, cap) \in Seq(S)
        /\ Len(Latest(longer, cap)) = IF Len(longer) <= cap THEN Len(longer) ELSE cap
        /\ \A i \in 1 .. Len(Latest(longer, cap)) :
             Latest(longer, cap)[i]
               = longer[IF Len(longer) <= cap THEN i ELSE Len(longer) - cap + i]
    BY <2>1, LatestOfLog
  <2> QED
    BY <2>2 DEF kept
<1> DEFINE made == Append(rest, x)
<1>6. /\ made \in Seq(S) /\ Len(made) = Len(rest) + 1
      /\ \A i \in 1 .. Len(rest) : made[i] = rest[i]
      /\ made[Len(rest) + 1] = x
  BY <1>4, AppendProperties
<1> HIDE DEF made
<1>7. Len(made) = Len(kept)
  BY <1>1, <1>2, <1>3, <1>4, <1>5, <1>6
<1>8. ASSUME NEW i \in 1 .. Len(made) PROVE made[i] = kept[i]
  <2>1. CASE i = Len(rest) + 1
    <3> DEFINE k == IF Len(longer) <= cap THEN i ELSE Len(longer) - cap + i
    <3>1. k = Len(log) + 1
      <4>1. /\ Len(h) = IF Len(log) <= cap THEN Len(log) ELSE cap
            /\ Len(rest) = IF Len(h) >= cap THEN cap - 1 ELSE Len(h)
            /\ Len(longer) = Len(log) + 1 /\ i = Len(rest) + 1
        BY <1>1, <1>3, <1>4, <2>1
      <4>2. CASE Len(log) < cap
        <5>1. Len(longer) <= cap /\ Len(rest) = Len(log)
          BY <1>2, <4>1, <4>2
        <5> QED
          BY <4>1, <5>1
      <4>3. CASE ~(Len(log) < cap)
        <5>1. ~(Len(longer) <= cap) /\ Len(rest) = cap - 1
          BY <1>2, <4>1, <4>3
        <5>2. i = cap /\ cap \in Int /\ Len(log) \in Int /\ Len(longer) = Len(log) + 1
          BY <1>2, <4>1, <5>1
        <5>3. k = Len(longer) - cap + i
          BY <5>1
        <5> HIDE DEF k
        <5>4. Len(longer) - cap + i = Len(log) + 1
          BY <5>2
        <5> QED
          BY <5>3, <5>4
      <4> QED
        BY <4>2, <4>3
    <3>2. kept[i] = longer[k]
      BY <1>5, <1>7
    <3> QED
      BY <1>3, <1>6, <2>1, <3>1, <3>2
  <2>2. CASE i # Len(rest) + 1
    <3>1. i \in 1 .. Len(rest)
      BY <1>2, <1>4, <1>6, <2>2
    <3> DEFINE j == IF Len(h) >= cap THEN i + 1 ELSE i
    <3>2. j \in 1 .. Len(h) /\ made[i] = h[j]
      BY <1>2, <1>4, <1>6, <3>1
    <3> DEFINE k == IF Len(log) <= cap THEN j ELSE Len(log) - cap + j
    <3>3. k \in 1 .. Len(log) /\ h[j] = log[k]
      BY <1>1, <1>2, <3>2
    <3>4. k = IF Len(longer) <= cap THEN i ELSE Len(longer) - cap + i
      BY <1>1, <1>2, <1>3
    <3> HIDE DEF j, k
    <3>5. longer[k] = log[k]
      BY <1>3, <3>3
    <3>6. kept[i] = longer[k]
      BY <1>5, <1>7, <3>4
    <3> QED
      BY <3>2, <3>3, <3>5, <3>6
  <2> QED
    BY <2>1, <2>2
<1>9. made = kept
  BY <1>5, <1>6, <1>7, <1>8, SeqEqual
<1> QED
  BY <1>9 DEF made, kept, rest, longer
=============================================================================
