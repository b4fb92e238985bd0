----------------------------- MODULE SumTheorems -----------------------------
(***************************************************************************)
(* What SumFunctionOnSet and SumFunction of the community module Functions *)
(* return, for any function and any finite set of indices: they are        *)
(* recursive functions on sets, about which the library has no theorem.    *)
(*                                                                         *)
(* Instead of an induction, each proof takes a smallest set of indices for *)
(* which the claim fails (SmallestSubset) and shows that there is none.    *)
(***************************************************************************)
EXTENDS Integers, FiniteSets, Functions, FiniteSetTheorems, TLAPS

\* A nonempty set of subsets of a finite set has an element that is minimal under inclusion.
LEMMA SmallestSubset ==
  ASSUME NEW D, IsFiniteSet(D), NEW F, F \subseteq SUBSET D, F # {}
  PROVE  \E A \in F : \A B \in F : B \subseteq A => B = A
<1>1. FiniteSubsetsOf(D) = SUBSET D
  BY FS_FiniteSubsetsOfFinite
<1>2. \E A \in F : \A B \in F : ~ (<<B, A>> \in StrictSubsetOrdering(D))
  BY <1>1, FS_StrictSubsetOrderingWellFounded, WFMin
<1> QED
  BY <1>2 DEF StrictSubsetOrdering

Pick(s) == CHOOSE x \in s : TRUE

LEMMA PickIsElement == \A s : s # {} => Pick(s) \in s
BY DEF Pick

\* g adds up f over the subsets of D.
Adds(g, f, D) ==
  g = [s \in SUBSET D |-> IF s = {} THEN 0 ELSE f[Pick(s)] + g[s \ {Pick(s)}]]

\* One adder does what another one does on the smaller of their domains.
LEMMA AddersAgree ==
  ASSUME NEW f, NEW C, NEW D, D \subseteq C, IsFiniteSet(D),
         NEW g, Adds(g, f, C), NEW h, Adds(h, f, D)
  PROVE  \A s \in SUBSET D : g[s] = h[s]
<1> DEFINE F == {s \in SUBSET D : g[s] # h[s]}
<1> SUFFICES ASSUME NEW s \in SUBSET D, g[s] # h[s] PROVE FALSE
  OBVIOUS
<1>1. PICK A \in F : \A B \in F : B \subseteq A => B = A
  <2>1. s \in F /\ F \subseteq SUBSET D
    OBVIOUS
  <2> HIDE DEF F
  <2> QED
    BY <2>1, SmallestSubset
<1>2. /\ g[A] = IF A = {} THEN 0 ELSE f[Pick(A)] + g[A \ {Pick(A)}]
      /\ h[A] = IF A = {} THEN 0 ELSE f[Pick(A)] + h[A \ {Pick(A)}]
  BY DEF Adds
<1>3. A # {}
  BY <1>2
<1>4. A \ {Pick(A)} \subseteq A /\ A \ {Pick(A)} # A /\ A \ {Pick(A)} \in SUBSET D
  BY <1>3, PickIsElement
<1>5. g[A \ {Pick(A)}] = h[A \ {Pick(A)}]
  BY <1>1, <1>4
<1> QED
  BY <1>2, <1>5

\* Every function can be added up over a finite set.
LEMMA AdderExists ==
  ASSUME NEW f, NEW D, IsFiniteSet(D)
  PROVE  \E g : Adds(g, f, D)
<1> DEFINE F == {B \in SUBSET D : ~ \E g : Adds(g, f, B)}
<1> SUFFICES ASSUME ~ \E g : Adds(g, f, D) PROVE FALSE
  OBVIOUS
<1>1. PICK A \in F : \A B \in F : B \subseteq A => B = A
  <2>1. D \in F /\ F \subseteq SUBSET D
    OBVIOUS
  <2> HIDE DEF F
  <2> QED
    BY <2>1, SmallestSubset
<1> DEFINE G(B) == CHOOSE g : Adds(g, f, B)
           Rest(s) == s \ {Pick(s)}
           g == [s \in SUBSET A |-> IF s = {} THEN 0 ELSE f[Pick(s)] + G(Rest(s))[Rest(s)]]
<1>2. \A B \in SUBSET A : B # A => Adds(G(B), f, B) /\ IsFiniteSet(B)
  <2> SUFFICES ASSUME NEW B \in SUBSET A, B # A PROVE Adds(G(B), f, B) /\ IsFiniteSet(B)
    OBVIOUS
  <2>1. B \notin F /\ B \in SUBSET D
    BY <1>1
  <2>2. \E x : Adds(x, f, B)
    BY <2>1
  <2> QED
    BY <2>1, <2>2, FS_Subset
<1>3. ASSUME NEW s \in SUBSET A, s # {}
      PROVE  g[Rest(s)] = G(Rest(s))[Rest(s)]
  <2> DEFINE t == Rest(s)
  <2>1. t \in SUBSET A /\ t # A
    BY <1>3, PickIsElement
  <2>2. Adds(G(t), f, t)
    BY <1>2, <2>1
  <2>3. G(t)[t] = IF t = {} THEN 0 ELSE f[Pick(t)] + G(t)[Rest(t)]
    BY <2>2 DEF Adds
  <2>4. g[t] = IF t = {} THEN 0 ELSE f[Pick(t)] + G(Rest(t))[Rest(t)]
    BY <2>1
  <2>5. CASE t = {}
    BY <2>3, <2>4, <2>5
  <2>6. CASE t # {}
    <3>1. Rest(t) \in SUBSET A /\ Rest(t) # A /\ Rest(t) \subseteq t
      BY <2>1
    <3>2. Adds(G(Rest(t)), f, Rest(t)) /\ IsFiniteSet(Rest(t))
      BY <1>2, <3>1
    <3>3. G(t)[Rest(t)] = G(Rest(t))[Rest(t)]
      <4> HIDE DEF G, Rest, t
      <4> QED
        BY <2>2, <3>1, <3>2, AddersAgree
    <3> QED
      BY <2>3, <2>4, <2>6, <3>3
  <2> QED
    BY <2>5, <2>6
<1>4. g = [s \in SUBSET A |-> IF s = {} THEN 0 ELSE f[Pick(s)] + g[Rest(s)]]
  <2> HIDE DEF G, Rest
  <2>1. \A s \in SUBSET A : s # {} => G(Rest(s))[Rest(s)] = g[Rest(s)]
    BY <1>3
  <2> QED
    BY <2>1
<1>5. Adds(g, f, A)
  BY <1>4 DEF Adds
<1> QED
  BY <1>5

LEMMA SumIsAdded ==
  ASSUME NEW f, NEW S, IsFiniteSet(S)
  PROVE  \E g : Adds(g, f, S) /\ SumFunctionOnSet(f, S) = g[S]
<1> DEFINE g == CHOOSE h : Adds(h, f, S)
<1>1. SumFunctionOnSet(f, S) = g[S]
  BY Zenon DEF SumFunctionOnSet, FoldFunctionOnSet, MapThenFoldSet, Pick, Adds
<1>2. Adds(g, f, S)
  BY AdderExists
<1> QED
  BY <1>1, <1>2

------------------------------------------------------------------------------
\* The sum over no index, and over the others with the one that Pick gives.
LEMMA SumPick ==
  ASSUME NEW f, NEW S, IsFiniteSet(S)
  PROVE  /\ S = {} => SumFunctionOnSet(f, S) = 0
         /\ S # {} => SumFunctionOnSet(f, S) = f[Pick(S)] + SumFunctionOnSet(f, S \ {Pick(S)})
<1>1. PICK g : Adds(g, f, S) /\ SumFunctionOnSet(f, S) = g[S]
  BY SumIsAdded
<1>2. g[S] = IF S = {} THEN 0 ELSE f[Pick(S)] + g[S \ {Pick(S)}]
  BY <1>1 DEF Adds
<1>3. ASSUME S # {} PROVE g[S \ {Pick(S)}] = SumFunctionOnSet(f, S \ {Pick(S)})
  <2> DEFINE T == S \ {Pick(S)}
  <2>1. T \subseteq S /\ IsFiniteSet(T)
    BY FS_Subset
  <2>2. PICK h : Adds(h, f, T) /\ SumFunctionOnSet(f, T) = h[T]
    BY <2>1, SumIsAdded
  <2> HIDE DEF T
  <2>3. g[T] = h[T]
    BY <1>1, <2>1, <2>2, AddersAgree
  <2> QED
    BY <2>2, <2>3 DEF T
<1> QED
  BY <1>1, <1>2, <1>3

LEMMA SumEmpty == ASSUME NEW f PROVE SumFunctionOnSet(f, {}) = 0
BY SumPick, FS_EmptySet

\* A sum depends on the values that are added, and is a number if they are.
LEMMA SumAgree ==
  ASSUME NEW f, NEW g, NEW S, IsFiniteSet(S), \A x \in S : f[x] = g[x]
  PROVE  SumFunctionOnSet(f, S) = SumFunctionOnSet(g, S)
<1> DEFINE F == {B \in SUBSET S : SumFunctionOnSet(f, B) # SumFunctionOnSet(g, B)}
<1> SUFFICES ASSUME SumFunctionOnSet(f, S) # SumFunctionOnSet(g, S) PROVE FALSE
  OBVIOUS
<1>1. PICK A \in F : \A B \in F : B \subseteq A => B = A
  <2>1. S \in F /\ F \subseteq SUBSET S
    OBVIOUS
  <2> HIDE DEF F
  <2> QED
    BY <2>1, SmallestSubset
<1>2. IsFiniteSet(A)
  BY FS_Subset
<1>3. A # {}
  BY <1>2, SumPick
<1>4. Pick(A) \in A /\ A \ {Pick(A)} \notin F /\ A \ {Pick(A)} \in SUBSET S
  BY <1>1, <1>3, PickIsElement
<1> QED
  BY <1>2, <1>3, <1>4, SumPick

LEMMA SumIsInteger ==
  ASSUME NEW f, NEW S, IsFiniteSet(S), \A x \in S : f[x] \in Int
  PROVE  SumFunctionOnSet(f, S) \in Int
<1> DEFINE F == {B \in SUBSET S : SumFunctionOnSet(f, B) \notin Int}
<1> SUFFICES ASSUME SumFunctionOnSet(f, S) \notin Int PROVE FALSE
  OBVIOUS
<1>1. PICK A \in F : \A B \in F : B \subseteq A => B = A
  <2>1. S \in F /\ F \subseteq SUBSET S
    OBVIOUS
  <2> HIDE DEF F
  <2> QED
    BY <2>1, SmallestSubset
<1>2. IsFiniteSet(A)
  BY FS_Subset
<1>3. A # {}
  BY SumEmpty
<1>4. Pick(A) \in A /\ A \ {Pick(A)} \notin F /\ A \ {Pick(A)} \in SUBSET S
  BY <1>1, <1>3, PickIsElement
<1> QED
  BY <1>2, <1>3, <1>4, SumPick

\* Any index may be the last one.
LEMMA SumRemove ==
  ASSUME NEW f, NEW S, IsFiniteSet(S), \A x \in S : f[x] \in Int, NEW y \in S
  PROVE  SumFunctionOnSet(f, S) = f[y] + SumFunctionOnSet(f, S \ {y})
<1> DEFINE Fails(B) == \E x \in B : SumFunctionOnSet(f, B) # f[x] + SumFunctionOnSet(f, B \ {x})
           F == {B \in SUBSET S : Fails(B)}
<1> SUFFICES ASSUME Fails(S) PROVE FALSE
  OBVIOUS
<1>1. PICK A \in F : \A B \in F : B \subseteq A => B = A
  <2>1. S \in F /\ F \subseteq SUBSET S
    OBVIOUS
  <2> HIDE DEF F
  <2> QED
    BY <2>1, SmallestSubset
<1>2. PICK x \in A : SumFunctionOnSet(f, A) # f[x] + SumFunctionOnSet(f, A \ {x})
  OBVIOUS
<1> DEFINE p == Pick(A)
<1>3. /\ IsFiniteSet(A) /\ IsFiniteSet(A \ {x}) /\ IsFiniteSet(A \ {p}) /\ IsFiniteSet(A \ {p, x})
      /\ p \in A
  BY <1>2, FS_Subset, PickIsElement
<1>4. SumFunctionOnSet(f, A) = f[p] + SumFunctionOnSet(f, A \ {p})
  BY <1>2, <1>3, SumPick
<1>5. x # p
  BY <1>2, <1>4
<1> HIDE DEF p
<1>6. ~Fails(A \ {p}) /\ ~Fails(A \ {x})
  BY <1>1, <1>2, <1>3
<1>7. x \in A \ {p} /\ p \in A \ {x} /\ (A \ {p}) \ {x} = A \ {p, x} /\ (A \ {x}) \ {p} = A \ {p, x}
  BY <1>2, <1>3, <1>5
<1>8. /\ SumFunctionOnSet(f, A \ {p}) = f[x] + SumFunctionOnSet(f, A \ {p, x})
      /\ SumFunctionOnSet(f, A \ {x}) = f[p] + SumFunctionOnSet(f, A \ {p, x})
  BY <1>6, <1>7
<1>9. f[x] \in Int /\ f[p] \in Int /\ SumFunctionOnSet(f, A \ {p, x}) \in Int
  BY <1>2, <1>3, SumIsInteger
<1> QED
  BY <1>2, <1>4, <1>8, <1>9

LEMMA SumAdd ==
  ASSUME NEW f, NEW S, IsFiniteSet(S), NEW y, y \notin S, \A x \in S \cup {y} : f[x] \in Int
  PROVE  SumFunctionOnSet(f, S \cup {y}) = f[y] + SumFunctionOnSet(f, S)
<1>1. IsFiniteSet(S \cup {y}) /\ (S \cup {y}) \ {y} = S
  BY FS_AddElement
<1> QED
  BY <1>1, SumRemove

\* The elements of a sequence are added up one after the other.
LEMMA SumUpTo ==
  ASSUME NEW f, NEW n \in Nat, \A i \in 1..(n + 1) : f[i] \in Int
  PROVE  SumFunctionOnSet(f, 1..(n + 1)) = f[n + 1] + SumFunctionOnSet(f, 1..n)
<1> DEFINE S == 1..(n + 1)
           m == n + 1
<1>1. IsFiniteSet(S) /\ m \in S /\ S \ {m} = 1..n
  BY FS_Interval
<1> HIDE DEF S, m
<1>2. SumFunctionOnSet(f, S) = f[m] + SumFunctionOnSet(f, S \ {m})
  BY <1>1, SumRemove DEF S
<1> QED
  BY <1>1, <1>2 DEF S, m

\* Naturals add up to a natural.
LEMMA SumIsNatural ==
  ASSUME NEW f, NEW S, IsFiniteSet(S), \A x \in S : f[x] \in Nat
  PROVE  SumFunctionOnSet(f, S) \in Nat
<1> DEFINE F == {B \in SUBSET S : SumFunctionOnSet(f, B) \notin Nat}
<1> SUFFICES ASSUME SumFunctionOnSet(f, S) \notin Nat PROVE FALSE
  OBVIOUS
<1>1. PICK A \in F : \A B \in F : B \subseteq A => B = A
  <2>1. S \in F /\ F \subseteq SUBSET S
    OBVIOUS
  <2> HIDE DEF F
  <2> QED
    BY <2>1, SmallestSubset
<1>2. IsFiniteSet(A)
  BY FS_Subset
<1>3. A # {}
  BY SumEmpty
<1>4. Pick(A) \in A /\ A \ {Pick(A)} \notin F /\ A \ {Pick(A)} \in SUBSET S
  BY <1>1, <1>3, PickIsElement
<1> QED
  BY <1>2, <1>3, <1>4, SumPick

\* Greater numbers add up to a greater sum.
LEMMA SumMonotone ==
  ASSUME NEW f, NEW g, NEW S, IsFiniteSet(S),
         \A x \in S : f[x] \in Int /\ g[x] \in Int /\ f[x] <= g[x]
  PROVE  SumFunctionOnSet(f, S) <= SumFunctionOnSet(g, S)
<1> DEFINE F == {B \in SUBSET S : ~ (SumFunctionOnSet(f, B) <= SumFunctionOnSet(g, B))}
<1> SUFFICES ASSUME ~ (SumFunctionOnSet(f, S) <= SumFunctionOnSet(g, S)) PROVE FALSE
  OBVIOUS
<1>1. PICK A \in F : \A B \in F : B \subseteq A => B = A
  <2>1. S \in F /\ F \subseteq SUBSET S
    OBVIOUS
  <2> HIDE DEF F
  <2> QED
    BY <2>1, SmallestSubset
<1> DEFINE p == Pick(A)
<1>2. IsFiniteSet(A) /\ IsFiniteSet(A \ {p})
  BY FS_Subset
<1>3. A # {}
  BY SumEmpty
<1>4. p \in A /\ A \ {p} \notin F /\ A \ {p} \in SUBSET S
  BY <1>1, <1>3, PickIsElement
<1>5. /\ SumFunctionOnSet(f, A \ {p}) \in Int
      /\ SumFunctionOnSet(g, A \ {p}) \in Int
      /\ SumFunctionOnSet(f, A \ {p}) <= SumFunctionOnSet(g, A \ {p})
  BY <1>2, <1>4, SumIsInteger
<1>6. /\ SumFunctionOnSet(f, A) = f[p] + SumFunctionOnSet(f, A \ {p})
      /\ SumFunctionOnSet(g, A) = g[p] + SumFunctionOnSet(g, A \ {p})
  BY <1>2, <1>3, SumPick
<1>7. f[p] \in Int /\ g[p] \in Int /\ f[p] <= g[p]
  BY <1>4
<1>8. ~ (SumFunctionOnSet(f, A) <= SumFunctionOnSet(g, A))
  OBVIOUS
<1> HIDE DEF p, F
<1> QED
  BY <1>5, <1>6, <1>7, <1>8

\* The sum of two functions, added up, is the sum of their sums.
LEMMA SumPlus ==
  ASSUME NEW f, NEW g, NEW h, NEW S, IsFiniteSet(S),
         \A x \in S : f[x] \in Int /\ g[x] \in Int /\ h[x] = f[x] + g[x]
  PROVE  SumFunctionOnSet(h, S) = SumFunctionOnSet(f, S) + SumFunctionOnSet(g, S)
<1> DEFINE F == {B \in SUBSET S :
                   SumFunctionOnSet(h, B) # SumFunctionOnSet(f, B) + SumFunctionOnSet(g, B)}
<1> SUFFICES ASSUME SumFunctionOnSet(h, S) # SumFunctionOnSet(f, S) + SumFunctionOnSet(g, S)
             PROVE FALSE
  OBVIOUS
<1>1. PICK A \in F : \A B \in F : B \subseteq A => B = A
  <2>1. S \in F /\ F \subseteq SUBSET S
    OBVIOUS
  <2> HIDE DEF F
  <2> QED
    BY <2>1, SmallestSubset
<1> DEFINE p == Pick(A)
<1>2. IsFiniteSet(A) /\ IsFiniteSet(A \ {p})
  BY FS_Subset
<1>3. A # {}
  <2>1. /\ SumFunctionOnSet(f, {}) = 0 /\ SumFunctionOnSet(g, {}) = 0
        /\ SumFunctionOnSet(h, {}) = 0
    BY SumEmpty
  <2>2. 0 = 0 + 0
    OBVIOUS
  <2> QED
    BY <2>1, <2>2
<1>4. p \in A /\ A \ {p} \notin F /\ A \ {p} \in SUBSET S
  BY <1>1, <1>3, PickIsElement
<1>5. /\ SumFunctionOnSet(f, A \ {p}) \in Int
      /\ SumFunctionOnSet(g, A \ {p}) \in Int
  BY <1>2, <1>4, SumIsInteger
<1>6. SumFunctionOnSet(h, A \ {p}) = SumFunctionOnSet(f, A \ {p}) + SumFunctionOnSet(g, A \ {p})
  BY <1>4
<1>7. /\ SumFunctionOnSet(f, A) = f[p] + SumFunctionOnSet(f, A \ {p})
      /\ SumFunctionOnSet(g, A) = g[p] + SumFunctionOnSet(g, A \ {p})
      /\ SumFunctionOnSet(h, A) = h[p] + SumFunctionOnSet(h, A \ {p})
  BY <1>2, <1>3, SumPick
<1>8. f[p] \in Int /\ g[p] \in Int /\ h[p] = f[p] + g[p]
  BY <1>4
<1>9. SumFunctionOnSet(h, A) # SumFunctionOnSet(f, A) + SumFunctionOnSet(g, A)
  OBVIOUS
<1> HIDE DEF p, F
<1> QED
  BY <1>5, <1>6, <1>7, <1>8, <1>9

\* Disjoint sets of indices are added up one after the other.
LEMMA SumUnion ==
  ASSUME NEW f, NEW S, IsFiniteSet(S), NEW T, IsFiniteSet(T), S \cap T = {},
         \A x \in S \cup T : f[x] \in Int
  PROVE  SumFunctionOnSet(f, S \cup T) = SumFunctionOnSet(f, S) + SumFunctionOnSet(f, T)
<1> DEFINE Fails(B) == SumFunctionOnSet(f, S \cup B) # SumFunctionOnSet(f, S) + SumFunctionOnSet(f, B)
           F == {B \in SUBSET T : Fails(B)}
<1> SUFFICES ASSUME Fails(T) PROVE FALSE
  OBVIOUS
<1>1. PICK A \in F : \A B \in F : B \subseteq A => B = A
  <2>1. T \in F /\ F \subseteq SUBSET T
    OBVIOUS
  <2> HIDE DEF F
  <2> QED
    BY <2>1, SmallestSubset
<1> DEFINE p == Pick(A)
<1>2. IsFiniteSet(A) /\ IsFiniteSet(A \ {p}) /\ IsFiniteSet(S \cup (A \ {p}))
  BY FS_Subset, FS_Union
<1>3. A # {}
  <2>1. SumFunctionOnSet(f, {}) = 0 /\ SumFunctionOnSet(f, S) \in Int /\ S \cup {} = S
    BY SumEmpty, SumIsInteger
  <2>2. ~ Fails({})
    BY <2>1
  <2> QED
    BY <2>2
<1>4. p \in A /\ ~Fails(A \ {p}) /\ A \ {p} \in SUBSET T
  BY <1>1, <1>3, PickIsElement
<1>5. SumFunctionOnSet(f, S) \in Int /\ SumFunctionOnSet(f, A \ {p}) \in Int
  BY <1>2, <1>4, SumIsInteger
<1>6. SumFunctionOnSet(f, A) = f[p] + SumFunctionOnSet(f, A \ {p})
  BY <1>2, <1>3, SumPick
<1>7. SumFunctionOnSet(f, S \cup A) = f[p] + SumFunctionOnSet(f, S \cup (A \ {p}))
  <2>1. S \cup A = (S \cup (A \ {p})) \cup {p} /\ p \notin S \cup (A \ {p})
    BY <1>4
  <2>2. \A x \in (S \cup (A \ {p})) \cup {p} : f[x] \in Int
    BY <2>1
  <2> HIDE DEF p
  <2> QED
    BY <1>2, <2>1, <2>2, SumAdd
<1>8. f[p] \in Int
  BY <1>4
<1>9. Fails(A)
  OBVIOUS
<1> HIDE DEF p, F
<1> QED
  BY <1>4, <1>5, <1>6, <1>7, <1>8, <1>9

\* Renaming the indices does not change the sum.
LEMMA SumReindex ==
  ASSUME NEW g, NEW f, NEW S, NEW T, IsFiniteSet(T), NEW m,
         \A x \in T : m[x] \in S,
         \A y \in S : \E x \in T : m[x] = y,
         \A x, y \in T : m[x] = m[y] => x = y,
         \A x \in T : f[x] \in Int /\ g[m[x]] = f[x]
  PROVE  SumFunctionOnSet(g, S) = SumFunctionOnSet(f, T)
<1> DEFINE Image(B) == {m[x] : x \in B}
           Fails(B) == SumFunctionOnSet(g, Image(B)) # SumFunctionOnSet(f, B)
           F == {B \in SUBSET T : Fails(B)}
<1>0. Image(T) = S
  OBVIOUS
<1> SUFFICES ASSUME Fails(T) PROVE FALSE
  BY <1>0
<1>1. PICK A \in F : \A B \in F : B \subseteq A => B = A
  <2>1. T \in F /\ F \subseteq SUBSET T
    OBVIOUS
  <2> HIDE DEF F
  <2> QED
    BY <2>1, SmallestSubset
<1> DEFINE p == Pick(A)
<1>2. IsFiniteSet(A) /\ IsFiniteSet(A \ {p})
  BY FS_Subset
<1>3. IsFiniteSet(Image(A \ {p}))
  <2> DEFINE e == [x \in A \ {p} |-> m[x]]
  <2>1. e \in Surjection(A \ {p}, Image(A \ {p}))
    BY DEF Surjection
  <2> HIDE DEF e, p, Image
  <2> QED
    BY <1>2, <2>1, FS_Surjection
<1>4. A # {}
  <2>1. Image({}) = {}
    OBVIOUS
  <2>2. ~ Fails({})
    BY <2>1, SumEmpty
  <2> QED
    BY <2>2
<1>5. p \in A /\ ~Fails(A \ {p}) /\ A \ {p} \in SUBSET T
  BY <1>1, <1>4, PickIsElement
<1>6. SumFunctionOnSet(f, A) = f[p] + SumFunctionOnSet(f, A \ {p})
  BY <1>2, <1>4, SumPick
<1>7. SumFunctionOnSet(g, Image(A)) = g[m[p]] + SumFunctionOnSet(g, Image(A \ {p}))
  <2>1. Image(A) = Image(A \ {p}) \cup {m[p]} /\ m[p] \notin Image(A \ {p})
    BY <1>5
  <2>2. \A x \in Image(A \ {p}) \cup {m[p]} : g[x] \in Int
    BY <1>5
  <2> HIDE DEF p, Image
  <2> QED
    BY <1>3, <2>1, <2>2, SumAdd
<1>8. g[m[p]] = f[p]
  BY <1>5
<1>9. Fails(A)
  OBVIOUS
<1> HIDE DEF p, F
<1> QED
  BY <1>5, <1>6, <1>7, <1>8, <1>9
====
