-------------------------------- MODULE Sums --------------------------------
(***************************************************************************)
(* What the proofs need to know of sums over finite sets.                  *)
(* SumFunctionOnSet is a fold with a recursive function in it, so these    *)
(* are facts about data.  The induction is over finite sets and is stated  *)
(* with a set of good subsets in place of a predicate.                     *)
(***************************************************************************)
EXTENDS FiniteSetsExt, FiniteSetTheorems, TLAPS

\* Sets whose smaller subsets are good only if they are themselves: all are good.
LEMMA SubsetInduction ==
    ASSUME NEW S, IsFiniteSet(S), NEW Good,
           \A T \in SUBSET S : (\A U \in SUBSET T : U # T => U \in Good) => T \in Good
    PROVE  \A T \in SUBSET S : T \in Good
<1> DEFINE R == StrictSubsetOrdering(S)
           Bad == {T \in SUBSET S : T \notin Good}
<1>1. IsWellFoundedOn(R, SUBSET S)
  BY FS_StrictSubsetOrderingWellFounded, FS_FiniteSubsetsOfFinite
<1>2. SUFFICES ASSUME Bad # {} PROVE FALSE
  OBVIOUS
<1>3. PICK T \in Bad : \A U \in Bad : <<U, T>> \notin R
  <2> HIDE DEF R
  <2>1. Bad \subseteq SUBSET S
    OBVIOUS
  <2> HIDE DEF Bad
  <2> QED BY <1>1, <1>2, <2>1, WFMin
<1>4. ASSUME NEW U \in SUBSET T, U # T PROVE U \in Good
  <2>1. U \in SUBSET S /\ <<U, T>> \in R
    BY <1>4 DEF StrictSubsetOrdering
  <2> QED BY <1>3, <2>1
<1> QED BY <1>3, <1>4

Pick(s) == CHOOSE x \in s : TRUE

LEMMA Picks == ASSUME NEW s, s # {} PROVE Pick(s) \in s
BY DEF Pick

\* h is the table of the sums of w over the subsets of S.
Adds(h, w, S) ==
    h = [s \in SUBSET S |-> IF s = {} THEN 0 ELSE w[Pick(s)] + h[s \ {Pick(s)}]]

\* A sum is the last entry of a table.
LEMMA SumIsTable ==
    ASSUME NEW w, NEW S
    PROVE  SumFunctionOnSet(w, S) = (CHOOSE h : Adds(h, w, S))[S]
BY DEF SumFunctionOnSet, FoldFunctionOnSet, MapThenFoldSet, Adds, Pick

\* Two tables agree on what both have.
LEMMA TablesAgree ==
    ASSUME NEW w, NEW S, IsFiniteSet(S), NEW U, S \subseteq U,
           NEW h, Adds(h, w, S), NEW k, Adds(k, w, U)
    PROVE  \A s \in SUBSET S : h[s] = k[s]
<1> DEFINE Good == {s \in SUBSET S : h[s] = k[s]}
<1>1. ASSUME NEW T \in SUBSET S, \A V \in SUBSET T : V # T => V \in Good
      PROVE  T \in Good
  <2>1. CASE T = {}
    BY <2>1 DEF Adds
  <2>2. CASE T # {}
    <3> DEFINE V == T \ {Pick(T)}
    <3>1. V \in SUBSET T /\ V # T
      BY <2>2, Picks
    <3>2. h[V] = k[V]
      BY <1>1, <3>1
    <3>3. h[T] = w[Pick(T)] + h[V]
      BY <2>2 DEF Adds
    <3>4. k[T] = w[Pick(T)] + k[V]
      BY <2>2 DEF Adds
    <3> QED BY <3>2, <3>3, <3>4
  <2> QED BY <2>1, <2>2
<1> HIDE DEF Good
<1>2. \A T \in SUBSET S : T \in Good
  BY <1>1, SubsetInduction
<1> QED BY <1>2 DEF Good

\* There is a table for every finite set.
LEMMA TableExists ==
    ASSUME NEW w, NEW S, IsFiniteSet(S)
    PROVE  \A T \in SUBSET S : \E h : Adds(h, w, T)
<1> DEFINE Good == {T \in SUBSET S : \E h : Adds(h, w, T)}
           Table(T) == CHOOSE h : Adds(h, w, T)
<1>1. ASSUME NEW T \in SUBSET S, \A U \in SUBSET T : U # T => U \in Good
      PROVE  T \in Good
  <2> DEFINE total(s) ==
               IF s = {} THEN 0
               ELSE w[Pick(s)] + Table(s \ {Pick(s)})[s \ {Pick(s)}]
             h == [s \in SUBSET T |-> total(s)]
  <2>1. ASSUME NEW U \in SUBSET T, U # T PROVE Adds(Table(U), w, U)
    <3>1. \E k : Adds(k, w, U)
      BY <1>1, <2>1
    <3> QED BY <3>1
  <2> HIDE DEF Table
  <2>2. ASSUME NEW U \in SUBSET T, U # T PROVE Table(U)[U] = total(U)
    <3>1. Adds(Table(U), w, U)
      BY <2>1, <2>2
    <3>2. CASE U = {}
      BY <3>1, <3>2 DEF Adds
    <3>3. CASE U # {}
      <4> DEFINE V == U \ {Pick(U)}
      <4>1. V \in SUBSET U /\ V \in SUBSET T /\ V # T
        BY <2>2
      <4>2. Table(U)[U] = w[Pick(U)] + Table(U)[V]
        BY <3>1, <3>3 DEF Adds
      <4>3. Adds(Table(V), w, V)
        BY <2>1, <4>1
      <4>4. IsFiniteSet(V)
        BY <4>1, FS_Subset
      <4> HIDE DEF V
      <4>5. Table(V)[V] = Table(U)[V]
        BY <3>1, <4>1, <4>3, <4>4, TablesAgree
      <4> QED BY <3>3, <4>2, <4>5 DEF V
    <3> QED BY <3>2, <3>3
  <2>3. ASSUME NEW s \in SUBSET T
        PROVE  total(s) = IF s = {} THEN 0 ELSE w[Pick(s)] + h[s \ {Pick(s)}]
    <3>1. CASE s = {}
      BY <3>1
    <3>2. CASE s # {}
      <4> DEFINE V == s \ {Pick(s)}
      <4>1. V \in SUBSET T /\ V # T
        BY <3>2, Picks
      <4>2. h[V] = Table(V)[V]
        BY <2>2, <4>1
      <4> QED BY <3>2, <4>2
    <3> QED BY <3>1, <3>2
  <2>4. Adds(h, w, T)
    <3> HIDE DEF total
    <3> QED BY <2>3 DEF Adds
  <2> QED BY <2>4
<1> HIDE DEF Good
<1>2. \A T \in SUBSET S : T \in Good
  BY <1>1, SubsetInduction
<1> QED BY <1>2 DEF Good

-----------------------------------------------------------------------------
\* The sum of nothing, and a sum without one of its terms

\* The sum over a subset is its entry in the table.
LEMMA SumTable ==
    ASSUME NEW w, NEW S, IsFiniteSet(S)
    PROVE  \E h : Adds(h, w, S) /\ \A T \in SUBSET S : SumFunctionOnSet(w, T) = h[T]
<1>1. ASSUME NEW T \in SUBSET S PROVE Adds(CHOOSE h : Adds(h, w, T), w, T)
  BY TableExists
<1> DEFINE h == CHOOSE h : Adds(h, w, S)
<1>2. Adds(h, w, S)
  BY <1>1
<1>3. ASSUME NEW T \in SUBSET S PROVE SumFunctionOnSet(w, T) = h[T]
  <2> DEFINE k == CHOOSE k : Adds(k, w, T)
  <2>1. Adds(k, w, T)
    BY <1>1
  <2>2. IsFiniteSet(T)
    BY FS_Subset
  <2>3. SumFunctionOnSet(w, T) = k[T]
    BY SumIsTable
  <2> HIDE DEF h, k
  <2>4. k[T] = h[T]
    BY <1>2, <2>1, <2>2, TablesAgree
  <2> QED BY <2>3, <2>4
<1> QED BY <1>2, <1>3

LEMMA SumOfNone == ASSUME NEW w PROVE SumFunctionOnSet(w, {}) = 0
<1>1. IsFiniteSet({})
  BY FS_EmptySet
<1> QED BY <1>1, SumTable DEF Adds

\* A sum is one of its terms and the sum of the others.
LEMMA SumPicks ==
    ASSUME NEW w, NEW S, IsFiniteSet(S), S # {}
    PROVE  SumFunctionOnSet(w, S) =
              w[Pick(S)] + SumFunctionOnSet(w, S \ {Pick(S)})
<1>1. PICK h : Adds(h, w, S) /\ \A T \in SUBSET S : SumFunctionOnSet(w, T) = h[T]
  BY SumTable
<1>2. h[S] = w[Pick(S)] + h[S \ {Pick(S)}]
  BY <1>1 DEF Adds
<1> QED BY <1>1, <1>2

\* Sums of naturals are naturals.
LEMMA SumNat ==
    ASSUME NEW S, IsFiniteSet(S), NEW w, \A x \in S : w[x] \in Nat
    PROVE  \A T \in SUBSET S : SumFunctionOnSet(w, T) \in Nat
<1> DEFINE Good == {T \in SUBSET S : SumFunctionOnSet(w, T) \in Nat}
<1>1. ASSUME NEW T \in SUBSET S, \A U \in SUBSET T : U # T => U \in Good
      PROVE  T \in Good
  <2>1. CASE T = {}
    BY <2>1, SumOfNone
  <2>2. CASE T # {}
    <3> DEFINE V == T \ {Pick(T)}
    <3>1. Pick(T) \in T /\ V \in SUBSET T /\ V # T
      BY <2>2, Picks
    <3>2. SumFunctionOnSet(w, V) \in Nat
      BY <1>1, <3>1
    <3>3. IsFiniteSet(T)
      BY FS_Subset
    <3>4. SumFunctionOnSet(w, T) = w[Pick(T)] + SumFunctionOnSet(w, V)
      BY <2>2, <3>3, SumPicks
    <3> QED BY <3>1, <3>2, <3>4
  <2> QED BY <2>1, <2>2
<1> HIDE DEF Good
<1>2. \A T \in SUBSET S : T \in Good
  BY <1>1, SubsetInduction
<1> QED BY <1>2 DEF Good

\* Whichever term is taken out.
LEMMA SumTakesOut ==
    ASSUME NEW S, IsFiniteSet(S), NEW w, \A x \in S : w[x] \in Nat
    PROVE  \A T \in SUBSET S : \A x \in T :
              SumFunctionOnSet(w, T) = w[x] + SumFunctionOnSet(w, T \ {x})
<1> DEFINE Good ==
      {T \in SUBSET S : \A x \in T :
          SumFunctionOnSet(w, T) = w[x] + SumFunctionOnSet(w, T \ {x})}
<1>1. ASSUME NEW T \in SUBSET S, \A U \in SUBSET T : U # T => U \in Good, NEW x \in T
      PROVE  SumFunctionOnSet(w, T) = w[x] + SumFunctionOnSet(w, T \ {x})
  <2> DEFINE y == Pick(T)
             V == T \ {x}
             U == T \ {y}
             W == T \ {x, y}
  <2>1. IsFiniteSet(T) /\ y \in T
    BY <1>1, Picks, FS_Subset
  <2>2. SumFunctionOnSet(w, T) = w[y] + SumFunctionOnSet(w, U)
    BY <1>1, <2>1, SumPicks
  <2>3. CASE x = y
    BY <2>2, <2>3
  <2>4. CASE x # y
    <3> HIDE DEF y
    <3>1. /\ V \in SUBSET T /\ V # T /\ y \in V /\ V \ {y} = W
          /\ U \in SUBSET T /\ U # T /\ x \in U /\ U \ {x} = W /\ W \in SUBSET S
      BY <2>1, <2>4, <1>1
    <3>2. SumFunctionOnSet(w, V) = w[y] + SumFunctionOnSet(w, V \ {y})
      BY <1>1, <3>1
    <3>3. SumFunctionOnSet(w, U) = w[x] + SumFunctionOnSet(w, U \ {x})
      BY <1>1, <3>1
    <3>4. w[x] \in Nat /\ w[y] \in Nat /\ SumFunctionOnSet(w, W) \in Nat
      BY <1>1, <2>1, <3>1, SumNat
    <3> HIDE DEF U, V, W
    <3>5. /\ SumFunctionOnSet(w, V) = w[y] + SumFunctionOnSet(w, W)
          /\ SumFunctionOnSet(w, U) = w[x] + SumFunctionOnSet(w, W)
      BY <3>1, <3>2, <3>3
    <3>6. SumFunctionOnSet(w, T) = w[x] + SumFunctionOnSet(w, V)
      BY <2>2, <3>4, <3>5
    <3> QED BY <3>6 DEF V
  <2> QED BY <2>3, <2>4
<1>2. \A T \in SUBSET S : T \in Good
  <2>1. ASSUME NEW T \in SUBSET S, \A U \in SUBSET T : U # T => U \in Good
        PROVE  T \in Good
    BY <1>1, <2>1
  <2> HIDE DEF Good
  <2> QED BY <2>1, SubsetInduction
<1> QED BY <1>2

\* A sum without one of its terms.
LEMMA SumWithout ==
    ASSUME NEW S, IsFiniteSet(S), NEW w, \A y \in S : w[y] \in Nat, NEW x \in S
    PROVE  /\ SumFunctionOnSet(w, S) = w[x] + SumFunctionOnSet(w, S \ {x})
           /\ SumFunctionOnSet(w, S \ {x}) \in Nat
BY SumTakesOut, SumNat

\* A sum with one term more.
LEMMA SumWith ==
    ASSUME NEW S, IsFiniteSet(S), NEW w, \A y \in S : w[y] \in Nat,
           NEW x, x \notin S, w[x] \in Nat
    PROVE  SumFunctionOnSet(w, S \cup {x}) = w[x] + SumFunctionOnSet(w, S)
<1>1. IsFiniteSet(S \cup {x}) /\ (S \cup {x}) \ {x} = S
  BY FS_AddElement
<1> QED BY <1>1, SumWithout

-----------------------------------------------------------------------------
\* Comparing sums

\* Only the terms count.
LEMMA SumAgrees ==
    ASSUME NEW S, IsFiniteSet(S), NEW w, NEW v, \A x \in S : w[x] = v[x]
    PROVE  SumFunctionOnSet(w, S) = SumFunctionOnSet(v, S)
<1> DEFINE Good == {T \in SUBSET S : SumFunctionOnSet(w, T) = SumFunctionOnSet(v, T)}
<1>1. ASSUME NEW T \in SUBSET S, \A U \in SUBSET T : U # T => U \in Good
      PROVE  T \in Good
  <2>1. CASE T = {}
    BY <2>1, SumOfNone
  <2>2. CASE T # {}
    <3> DEFINE V == T \ {Pick(T)}
    <3>1. Pick(T) \in T /\ V \in SUBSET T /\ V # T /\ IsFiniteSet(T)
      BY <2>2, Picks, FS_Subset
    <3>2. SumFunctionOnSet(w, V) = SumFunctionOnSet(v, V)
      BY <1>1, <3>1
    <3>3. /\ SumFunctionOnSet(w, T) = w[Pick(T)] + SumFunctionOnSet(w, V)
          /\ SumFunctionOnSet(v, T) = v[Pick(T)] + SumFunctionOnSet(v, V)
      BY <2>2, <3>1, SumPicks
    <3> QED BY <3>1, <3>2, <3>3
  <2> QED BY <2>1, <2>2
<1> HIDE DEF Good
<1>2. \A T \in SUBSET S : T \in Good
  BY <1>1, SubsetInduction
<1> QED BY <1>2 DEF Good

\* Replacing one term replaces it in the sum.
LEMMA SumChanges ==
    ASSUME NEW S, IsFiniteSet(S), NEW w, NEW v,
           \A y \in S : w[y] \in Nat /\ v[y] \in Nat,
           NEW x \in S, \A y \in S \ {x} : v[y] = w[y]
    PROVE  /\ SumFunctionOnSet(w, S) \in Nat /\ SumFunctionOnSet(v, S) \in Nat
           /\ SumFunctionOnSet(v, S) + w[x] = SumFunctionOnSet(w, S) + v[x]
<1>1. IsFiniteSet(S \ {x})
  BY FS_Subset
<1>2. SumFunctionOnSet(v, S \ {x}) = SumFunctionOnSet(w, S \ {x})
  BY <1>1, SumAgrees
<1>3. /\ SumFunctionOnSet(w, S) = w[x] + SumFunctionOnSet(w, S \ {x})
      /\ SumFunctionOnSet(w, S \ {x}) \in Nat
  BY SumWithout
<1>4. SumFunctionOnSet(v, S) = v[x] + SumFunctionOnSet(v, S \ {x})
  BY SumWithout
<1>5. w[x] \in Nat /\ v[x] \in Nat
  OBVIOUS
<1> QED BY <1>2, <1>3, <1>4, <1>5

\* Leaving terms out leaves less.
LEMMA SumOfPart ==
    ASSUME NEW S, IsFiniteSet(S), NEW w, \A y \in S : w[y] \in Nat, NEW A \in SUBSET S
    PROVE  SumFunctionOnSet(w, A) <= SumFunctionOnSet(w, S)
<1> DEFINE Good == {T \in SUBSET S :
                      SumFunctionOnSet(w, T \cap A) <= SumFunctionOnSet(w, T)}
<1>1. ASSUME NEW T \in SUBSET S, \A U \in SUBSET T : U # T => U \in Good
      PROVE  T \in Good
  <2>1. CASE T = {}
    BY <2>1, SumOfNone
  <2>2. CASE T # {}
    <3> DEFINE x == Pick(T)
               U == T \ {x}
    <3>1. x \in T /\ U \in SUBSET T /\ U # T
      BY <2>2, Picks
    <3>2. SumFunctionOnSet(w, U \cap A) <= SumFunctionOnSet(w, U)
      BY <1>1, <3>1
    <3>3. SumFunctionOnSet(w, T) = w[x] + SumFunctionOnSet(w, U)
      BY <3>1, SumTakesOut
    <3>4. /\ w[x] \in Nat /\ SumFunctionOnSet(w, U) \in Nat
          /\ SumFunctionOnSet(w, U \cap A) \in Nat
      BY <3>1, SumNat
    <3>5. x \in A => SumFunctionOnSet(w, T \cap A) = w[x] + SumFunctionOnSet(w, U \cap A)
      <4>1. x \in A => x \in T \cap A /\ (T \cap A) \ {x} = U \cap A
        BY <3>1
      <4>2. T \cap A \in SUBSET S
        OBVIOUS
      <4> HIDE DEF x, U
      <4> QED BY <4>1, <4>2, SumTakesOut
    <3>6. x \notin A => T \cap A = U \cap A
      OBVIOUS
    <3> HIDE DEF x, U
    <3>7. CASE x \in A
      <4>1. SumFunctionOnSet(w, T \cap A) = w[x] + SumFunctionOnSet(w, U \cap A)
        BY <3>5, <3>7
      <4> QED BY <3>2, <3>3, <3>4, <4>1
    <3>8. CASE x \notin A
      <4>1. SumFunctionOnSet(w, T \cap A) = SumFunctionOnSet(w, U \cap A)
        BY <3>6, <3>8
      <4> QED BY <3>2, <3>3, <3>4, <4>1
    <3> QED BY <3>7, <3>8
  <2> QED BY <2>1, <2>2
<1> HIDE DEF Good
<1>2. \A T \in SUBSET S : T \in Good
  BY <1>1, SubsetInduction
<1>3. S \cap A = A
  OBVIOUS
<1> QED BY <1>2, <1>3 DEF Good

\* Terms that each have a larger counterpart of their own sum up to less.
LEMMA SumMatched ==
    ASSUME NEW S, IsFiniteSet(S), NEW w, \A x \in S : w[x] \in Nat,
           NEW T, IsFiniteSet(T), NEW v, \A y \in T : v[y] \in Nat,
           NEW f, \A x \in S : f[x] \in T /\ w[x] <= v[f[x]],
           \A x, y \in S : f[x] = f[y] => x = y
    PROVE  SumFunctionOnSet(w, S) <= SumFunctionOnSet(v, T)
<1> DEFINE Image(A) == {f[x] : x \in A}
           Good == {A \in SUBSET S :
                      SumFunctionOnSet(w, A) <= SumFunctionOnSet(v, Image(A))}
<1>0. \A A \in SUBSET S : Image(A) \in SUBSET T
  OBVIOUS
<1>1. ASSUME NEW A \in SUBSET S, \A B \in SUBSET A : B # A => B \in Good
      PROVE  A \in Good
  <2>1. CASE A = {}
    <3>1. Image(A) = {}
      BY <2>1
    <3> QED BY <2>1, <3>1, SumOfNone
  <2>2. CASE A # {}
    <3> DEFINE B == A \ {Pick(A)}
               y == f[Pick(A)]
    <3>1. Pick(A) \in A /\ B \in SUBSET A /\ B # A /\ B \in SUBSET S
      BY <2>2, Picks
    <3>2. SumFunctionOnSet(w, B) <= SumFunctionOnSet(v, Image(B))
      BY <1>1, <3>1
    <3>3. y \in Image(A) /\ Image(B) = Image(A) \ {y}
      BY <3>1
    <3>4. IsFiniteSet(A) /\ IsFiniteSet(Image(A)) /\ Image(A) \in SUBSET T
      BY <1>0, FS_Subset
    <3>5. \A z \in Image(A) : v[z] \in Nat
      BY <3>4
    <3>6. SumFunctionOnSet(w, A) = w[Pick(A)] + SumFunctionOnSet(w, B)
      BY <2>2, <3>4, SumPicks
    <3> HIDE DEF y, B, Image
    <3>7. /\ SumFunctionOnSet(v, Image(A)) = v[y] + SumFunctionOnSet(v, Image(A) \ {y})
          /\ SumFunctionOnSet(v, Image(A) \ {y}) \in Nat
      BY <3>3, <3>4, <3>5, SumWithout
    <3>8. SumFunctionOnSet(w, B) \in Nat /\ w[Pick(A)] \in Nat /\ w[Pick(A)] <= v[y]
          /\ v[y] \in Nat
      BY <3>1, SumNat DEF y
    <3>9. SumFunctionOnSet(w, A) <= SumFunctionOnSet(v, Image(A))
      BY <3>2, <3>3, <3>6, <3>7, <3>8
    <3> QED BY <3>9
  <2> QED BY <2>1, <2>2
<1>2. SumFunctionOnSet(w, S) <= SumFunctionOnSet(v, Image(S))
  <2> HIDE DEF Good
  <2>1. \A A \in SUBSET S : A \in Good
    BY <1>1, SubsetInduction
  <2> QED BY <2>1 DEF Good
<1> HIDE DEF Image, Good
<1>3. SumFunctionOnSet(v, Image(S)) <= SumFunctionOnSet(v, T)
  BY <1>0, SumOfPart
<1>4. Image(S) \in SUBSET T
  BY <1>0
<1>5. /\ SumFunctionOnSet(w, S) \in Nat /\ SumFunctionOnSet(v, T) \in Nat
      /\ SumFunctionOnSet(v, Image(S)) \in Nat
  BY <1>4, SumNat
<1> QED BY <1>2, <1>3, <1>4, <1>5

-----------------------------------------------------------------------------
\* Sums of all values of a function

\* No values.
LEMMA TotalOfNone == ASSUME NEW f, DOMAIN f = {} PROVE SumFunction(f) = 0
BY SumOfNone DEF SumFunction

\* Naturals sum up to a natural.
LEMMA TotalNat ==
    ASSUME NEW S, IsFiniteSet(S), NEW f \in [S -> Nat]
    PROVE  SumFunction(f) \in Nat
BY SumNat DEF SumFunction

\* One more value.
LEMMA TotalGrows ==
    ASSUME NEW S, IsFiniteSet(S), NEW f \in [S -> Nat],
           NEW x, x \notin S, NEW h \in [S \cup {x} -> Nat], \A y \in S : h[y] = f[y]
    PROVE  SumFunction(h) = h[x] + SumFunction(f) /\ SumFunction(f) \in Nat
<1>1. SumFunctionOnSet(h, S) = SumFunctionOnSet(f, S)
  BY SumAgrees
<1>2. SumFunctionOnSet(h, S \cup {x}) = h[x] + SumFunctionOnSet(h, S)
  BY SumWith
<1>3. DOMAIN f = S /\ DOMAIN h = S \cup {x}
  OBVIOUS
<1> QED BY <1>1, <1>2, <1>3, TotalNat DEF SumFunction

\* Another value in one place.
LEMMA TotalChanges ==
    ASSUME NEW S, IsFiniteSet(S), NEW f \in [S -> Nat], NEW h \in [S -> Nat],
           NEW x \in S, \A y \in S \ {x} : h[y] = f[y]
    PROVE  /\ SumFunction(f) \in Nat /\ SumFunction(h) \in Nat
           /\ SumFunction(h) + f[x] = SumFunction(f) + h[x]
BY SumChanges DEF SumFunction

\* Values that each have a larger counterpart of their own.
LEMMA TotalMatched ==
    ASSUME NEW S, IsFiniteSet(S), NEW w \in [S -> Nat],
           NEW T, IsFiniteSet(T), NEW v \in [T -> Nat],
           NEW f, \A x \in S : f[x] \in T /\ w[x] <= v[f[x]],
           \A x, y \in S : f[x] = f[y] => x = y
    PROVE  SumFunction(w) <= SumFunction(v)
<1>1. (\A x \in S : w[x] \in Nat) /\ (\A y \in T : v[y] \in Nat)
  OBVIOUS
<1>2. SumFunctionOnSet(w, S) <= SumFunctionOnSet(v, T)
  BY <1>1, SumMatched
<1> QED BY <1>2 DEF SumFunction

\* Nothing but zeros.
LEMMA TotalOfZeros ==
    ASSUME NEW S, IsFiniteSet(S), NEW f \in [S -> Nat], \A x \in S : f[x] = 0
    PROVE  SumFunction(f) = 0
<1> DEFINE Good == {T \in SUBSET S : SumFunctionOnSet(f, T) = 0}
<1>1. ASSUME NEW T \in SUBSET S, \A U \in SUBSET T : U # T => U \in Good
      PROVE  T \in Good
  <2>1. CASE T = {}
    BY <2>1, SumOfNone
  <2>2. CASE T # {}
    <3> DEFINE V == T \ {Pick(T)}
    <3>1. Pick(T) \in T /\ V \in SUBSET T /\ V # T
      BY <2>2, Picks
    <3>2. SumFunctionOnSet(f, V) = 0
      BY <1>1, <3>1
    <3>3. SumFunctionOnSet(f, T) = f[Pick(T)] + SumFunctionOnSet(f, V)
      BY <3>1, SumTakesOut
    <3> QED BY <3>1, <3>2, <3>3
  <2> QED BY <2>1, <2>2
<1> HIDE DEF Good
<1>2. \A T \in SUBSET S : T \in Good
  BY <1>1, SubsetInduction
<1> QED BY <1>2 DEF Good, SumFunction
=============================================================================
