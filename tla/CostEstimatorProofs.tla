------------------------- MODULE CostEstimatorProofs -------------------------
(***************************************************************************)
(* Proofs about CostEstimator, for every set of folders, every             *)
(* configuration and catalog, and every order of loading: the loader and   *)
(* the HPAs; the estimate, which is what the set of documents costs; the   *)
(* summary; the order of the columns.                                      *)
(***************************************************************************)
EXTENDS CostEstimator, SumTheorems, TLAPS

------------------------------------------------------------------------------
(* The loader.                                                               *)

IInv == TypeOK /\ RefOK /\ HPAOnItsTarget

\* Both keys under which an object is registered match it.
LEMMA RegisteredKeys ==
  ASSUME NEW d
  PROVE  KeyMatches(KeyOf(d), KeyOf(d)) /\ KeyMatches(buildKindName(KeyOf(d)), KeyOf(d))
BY DEF KeyMatches, KeyOf, buildKindName, buildAPIVersionKindName

\* What the builders make of a document of the folders is what TypeOK expects.
LEMMA BuiltObjects ==
  ASSUME NEW d \in Documents
  PROVE  /\ d.kind = HPAKind => buildHPA(d) \in HPAs
         /\ d.kind \in Scalable => /\ buildScalable(d) \in ScalableObjects
                                   /\ buildScalable(d).key = KeyOf(d)
                                   /\ buildScalable(d).hpa = Nil
<1>1. d.kind = HPAKind => buildHPA(d) \in HPAs
  BY DEF HPAs
<1>2. d.kind \in Scalable => /\ KeyOf(d) \in {KeyOf(x) : x \in Workloads}
                             /\ OrDefault(d.replicas, 1)
                                  \in {OrDefault(x.replicas, 1) : x \in Workloads}
                             /\ buildContainers(d) \in {buildContainers(x) : x \in Workloads}
  BY DEF Workloads
<1>3. QED
  BY <1>1, <1>2 DEF buildScalable, ScalableObjects

\* A document that is still to be loaded belongs to a folder.
LEMMA TodoIsDocuments ==
  ASSUME TypeOK, NEW d \in todo
  PROVE  d \in Documents
<1>1. folder[path] \in Folders
  BY DEF TypeOK
<1>2. QED
  BY <1>1 DEF TypeOK, Documents

\* The loader starts empty.
LEMMA InitIInv == Init => IInv
<1> SUFFICES ASSUME Init PROVE IInv
  OBVIOUS
<1>1. TypeOK
  BY DEF Init, TypeOK, Paths
<1>2. RefOK /\ HPAOnItsTarget
  BY DEF Init, RefOK, HPAOnItsTarget
<1>3. QED
  BY <1>1, <1>2 DEF IInv

\* A new object is registered under keys that it matches.
LEMMA LoadScalableKeepsIInv ==
  ASSUME IInv, NEW d \in todo, LoadScalable(d)
  PROVE  IInv'
<1> DEFINE n == Len(scalables) + 1
           s == buildScalable(d)
<1>1. d \in Documents /\ d.kind \in Scalable
  BY TodoIsDocuments DEF IInv, LoadScalable, Takes
<1>2. s \in ScalableObjects /\ s.key = KeyOf(d) /\ s.hpa = Nil
  BY <1>1, BuiltObjects
<1>3. scalables \in Seq(ScalableObjects)
  BY DEF IInv, TypeOK
<1>4. scalables' = Append(scalables, s)
  BY DEF LoadScalable
<1> HIDE DEF s
<1>5. /\ scalables' \in Seq(ScalableObjects) /\ Len(scalables') = n /\ n \in Nat
      /\ scalables'[n] = s
      /\ \A i \in 1..Len(scalables) : scalables'[i] = scalables[i]
      /\ 1..n = (1..Len(scalables)) \cup {n}
  BY <1>2, <1>3, <1>4
<1>6. ref' = [k \in DOMAIN ref \cup {KeyOf(d), buildKindName(KeyOf(d))} |->
                IF k \in {KeyOf(d), buildKindName(KeyOf(d))} THEN n ELSE ref[k]]
  BY DEF LoadScalable, Register
<1> HIDE DEF n
<1>7. ASSUME NEW k \in DOMAIN ref'
      PROVE  \/ k \in {KeyOf(d), buildKindName(KeyOf(d))} /\ ref'[k] = n
             \/ k \in DOMAIN ref /\ ref'[k] = ref[k] /\ ref[k] \in 1..Len(scalables)
  BY <1>6 DEF IInv, TypeOK
<1>8. TypeOK'
  <2>1. \A k \in DOMAIN ref' : ref'[k] \in 1..Len(scalables')
    BY <1>5, <1>7
  <2>2. QED
    BY <1>5, <2>1 DEF IInv, TypeOK, LoadScalable, Loaded, input
<1>9. RefOK'
  <2> SUFFICES ASSUME NEW k \in DOMAIN ref'
               PROVE  KeyMatches(k, scalables'[ref'[k]].key)
    BY DEF RefOK, KeyMatches
  <2>1. CASE k \in {KeyOf(d), buildKindName(KeyOf(d))} /\ ref'[k] = n
    BY <2>1, <1>2, <1>5, RegisteredKeys
  <2>2. CASE k \in DOMAIN ref /\ ref'[k] = ref[k] /\ ref[k] \in 1..Len(scalables)
    BY <2>2, <1>5 DEF IInv, RefOK
  <2>3. QED
    BY <1>7, <2>1, <2>2
<1>10. HPAOnItsTarget'
  <2> SUFFICES ASSUME NEW i \in 1..Len(scalables'), scalables'[i].hpa # Nil
               PROVE  KeyMatches(scalables'[i].hpa.targetRef, scalables'[i].key)
    BY DEF HPAOnItsTarget, KeyMatches
  <2>1. i \in 1..Len(scalables) /\ scalables'[i] = scalables[i]
    BY <1>2, <1>5
  <2>2. QED
    BY <2>1 DEF IInv, HPAOnItsTarget
<1>11. QED
  BY <1>8, <1>9, <1>10 DEF IInv

\* An HPA goes where its targetRef leads, which RefOK says it matches.
LEMMA LinkHPAKeepsIInv ==
  ASSUME IInv, LinkHPA
  PROVE  IInv'
<1> DEFINE h == hpas[linked + 1]
<1>1. linked \in Nat /\ linked + 1 \in 1..Len(hpas) /\ h \in HPAs
  BY DEF IInv, TypeOK, LinkHPA
<1>2. CASE h.targetRef \notin DOMAIN ref
  <2>1. UNCHANGED <<scalables, ref, hpas, folder, path, todo>> /\ linked' = linked + 1
    BY <1>2 DEF LinkHPA, input
  <2>2. TypeOK'
    BY <1>1, <2>1 DEF IInv, TypeOK
  <2>3. QED
    BY <2>1, <2>2 DEF IInv, RefOK, HPAOnItsTarget, KeyMatches
<1>3. CASE h.targetRef \in DOMAIN ref
  <2> DEFINE t == ref[h.targetRef]
             s == [scalables[t] EXCEPT !.hpa = h]
  <2>1. t \in 1..Len(scalables) /\ KeyMatches(h.targetRef, scalables[t].key)
    BY <1>3 DEF IInv, TypeOK, RefOK
  <2>2. scalables \in Seq(ScalableObjects) /\ scalables[t] \in ScalableObjects
    BY <2>1 DEF IInv, TypeOK
  <2>3. s \in ScalableObjects /\ s.key = scalables[t].key /\ s.hpa = h
    BY <1>1, <2>2 DEF ScalableObjects
  <2>4. scalables' = [scalables EXCEPT ![t] = s]
    BY <1>3 DEF LinkHPA
  <2>5. UNCHANGED <<ref, hpas, folder, path, todo>> /\ linked' = linked + 1
    BY DEF LinkHPA, input
  <2> HIDE DEF s, t, h
  <2>6. /\ scalables' \in Seq(ScalableObjects) /\ Len(scalables') = Len(scalables)
        /\ scalables'[t] = s
        /\ \A i \in 1..Len(scalables) : i # t => scalables'[i] = scalables[i]
    BY <2>1, <2>2, <2>3, <2>4
  <2>7. TypeOK'
    BY <1>1, <2>5, <2>6 DEF IInv, TypeOK
  <2>8. RefOK'
    <3> SUFFICES ASSUME NEW k \in DOMAIN ref
                 PROVE  KeyMatches(k, scalables'[ref[k]].key)
      BY <2>5 DEF RefOK, KeyMatches
    <3>1. ref[k] \in 1..Len(scalables) /\ KeyMatches(k, scalables[ref[k]].key)
      BY DEF IInv, TypeOK, RefOK
    <3>2. scalables'[ref[k]].key = scalables[ref[k]].key
      BY <2>3, <2>6, <3>1
    <3>3. QED
      BY <3>1, <3>2
  <2>9. HPAOnItsTarget'
    <3> SUFFICES ASSUME NEW i \in 1..Len(scalables), scalables'[i].hpa # Nil
                 PROVE  KeyMatches(scalables'[i].hpa.targetRef, scalables'[i].key)
      BY <2>6 DEF HPAOnItsTarget, KeyMatches
    <3>1. CASE i = t
      BY <2>1, <2>3, <2>6, <3>1
    <3>2. CASE i # t
      BY <2>6, <3>2 DEF IInv, HPAOnItsTarget
    <3>3. QED
      BY <3>1, <3>2
  <2>10. QED
    BY <2>7, <2>8, <2>9 DEF IInv
<1>4. QED
  BY <1>2, <1>3

\* The steps that leave the loaded objects alone, or drop them all.
LEMMA OtherStepsKeepIInv ==
  ASSUME IInv,
         \/ UNCHANGED <<input, path, scalables, ref, hpas, linked>> /\ todo' \subseteq todo
         \/ ReadCatalog
         \/ EstimateCost
  PROVE  IInv'
<1>1. CASE UNCHANGED <<input, path, scalables, ref, hpas, linked>> /\ todo' \subseteq todo
  BY <1>1 DEF IInv, TypeOK, RefOK, HPAOnItsTarget, KeyMatches, input
<1>2. CASE ReadCatalog
  <2>1. UNCHANGED <<folder, path, scalables, ref, hpas, linked>> /\ todo' = folder[path]
    BY <1>2 DEF ReadCatalog, input, manifests
  <2>2. QED
    BY <2>1 DEF IInv, TypeOK, RefOK, HPAOnItsTarget, KeyMatches
<1>3. CASE EstimateCost
  <2>1. CASE path = "k8s" /\ folder["k8s-prev"] # Nil
    <3>1. /\ path' = "k8s-prev" /\ todo' = folder["k8s-prev"] /\ folder' = folder
          /\ scalables' = <<>> /\ ref' = <<>> /\ hpas' = <<>> /\ linked' = 0
      BY <1>3, <2>1 DEF EstimateCost, input
    <3>2. QED
      BY <2>1, <3>1 DEF IInv, TypeOK, RefOK, HPAOnItsTarget, Paths
  <2>2. CASE ~(path = "k8s" /\ folder["k8s-prev"] # Nil)
    <3>1. UNCHANGED <<folder, path, todo, scalables, ref, hpas, linked>>
      BY <1>3, <2>2 DEF EstimateCost, input, manifests
    <3>2. QED
      BY <3>1 DEF IInv, TypeOK, RefOK, HPAOnItsTarget, KeyMatches
  <2>3. QED
    BY <2>1, <2>2
<1>4. QED
  BY <1>1, <1>2, <1>3

\* IInv is inductive.
LEMMA NextKeepsIInv == IInv /\ [Next]_vars => IInv'
<1> SUFFICES ASSUME IInv, [Next]_vars PROVE IInv'
  OBVIOUS
<1>1. CASE ReadCatalog \/ EstimateCost
  BY <1>1, OtherStepsKeepIInv
<1>2. CASE CatalogFails \/ Output \/ OutputDiff \/ CreateDiff \/ EncodeDiff \/ Done \/ UNCHANGED vars
  BY <1>2, OtherStepsKeepIInv
     DEF CatalogFails, Exit, Output, OutputDiff, SaveMarkdown, CreateDiff, EncodeDiff, Done, vars, manifests
<1>3. CASE LinkHPA
  BY <1>3, LinkHPAKeepsIInv
<1>4. ASSUME NEW d \in todo, LoadObject(d)
      PROVE  IInv'
  <2>1. CASE SkipObject(d) \/ LoadDaemonSet(d) \/ LoadVolumeClaim(d)
    BY <2>1, OtherStepsKeepIInv
       DEF SkipObject, LoadDaemonSet, LoadVolumeClaim, Loaded, manifests
  <2>2. CASE DecodeFails(d) \/ ReadFails(d)
    BY <2>2, OtherStepsKeepIInv DEF DecodeFails, ReadFails, Exit, manifests
  <2>3. CASE LoadScalable(d)
    BY <2>3, LoadScalableKeepsIInv
  <2>4. CASE LoadHPA(d)
    <3>1. buildHPA(d) \in HPAs
      BY <2>4, TodoIsDocuments, BuiltObjects DEF IInv, LoadHPA, Takes
    <3>2. hpas' \in Seq(HPAs) /\ linked \in 0..Len(hpas')
      BY <2>4, <3>1 DEF IInv, TypeOK, LoadHPA
    <3>3. UNCHANGED <<folder, path, scalables, ref, linked>> /\ todo' \subseteq todo
      BY <2>4 DEF LoadHPA, Loaded, input
    <3>4. QED
      BY <3>2, <3>3 DEF IInv, TypeOK, RefOK, HPAOnItsTarget, KeyMatches
  <2>5. QED
    BY <1>4, <2>1, <2>2, <2>3, <2>4 DEF LoadObject
<1>5. QED
  BY <1>1, <1>2, <1>3, <1>4 DEF Next

\* The objects held by the loader are those of the documents, and every key
\* of its maps leads to one of them (types.go, manifests.go:158-228).
THEOREM LoaderTypeCorrect == Spec => []TypeOK
<1>1. IInv => TypeOK
  BY DEF IInv
<1>2. QED
  BY <1>1, InitIInv, NextKeepsIInv, PTL DEF Spec

\* No HPA ever sizes a workload of another namespace, kind or name
\* (prepareForCostEstimation), whatever is in the folders.
THEOREM HPAsStayOnTarget == Spec => []HPAOnItsTarget
<1>1. IInv => HPAOnItsTarget
  BY DEF IInv
<1>2. QED
  BY <1>1, InitIInv, NextKeepsIInv, PTL DEF Spec

------------------------------------------------------------------------------
(* Sums of cost ranges, column by column.                                    *)

IsRange(x) == \A c \in Columns : x[c] \in Int

AreRanges(r) == IsFiniteSet(DOMAIN r) /\ \A i \in DOMAIN r : IsRange(r[i])

\* The empty range is a range of numbers.
LEMMA ZeroIsRange == IsRange(ZeroRange)
BY DEF IsRange, ZeroRange

\* A column of the sum is the sum of the column, however the column is written.
LEMMA SumRangesColumn ==
  ASSUME NEW r, IsFiniteSet(DOMAIN r), NEW c \in Columns, NEW g, \A i \in DOMAIN r : g[i] = r[i][c]
  PROVE  SumRanges(r)[c] = SumFunctionOnSet(g, DOMAIN r)
<1> DEFINE f == [i \in DOMAIN r |-> r[i][c]]
<1>1. SumRanges(r)[c] = SumFunctionOnSet(f, DOMAIN r)
  BY DEF SumRanges, SumFunction
<1>2. SumFunctionOnSet(f, DOMAIN r) = SumFunctionOnSet(g, DOMAIN r)
  BY SumAgree
<1> QED
  BY <1>1, <1>2

\* A sum of ranges has the five columns and no other.
LEMMA SumRangesIsFunction == ASSUME NEW r PROVE SumRanges(r) = [c \in Columns |-> SumRanges(r)[c]]
BY DEF SumRanges

\* A sum of ranges of numbers is a range of numbers.
LEMMA SumRangesIsRange ==
  ASSUME NEW r, AreRanges(r)
  PROVE  SumRanges(r) \in [Columns -> Int]
<1>1. ASSUME NEW c \in Columns PROVE SumRanges(r)[c] \in Int
  <2> DEFINE f == [i \in DOMAIN r |-> r[i][c]]
  <2>1. IsFiniteSet(DOMAIN r) /\ \A i \in DOMAIN r : f[i] \in Int
    BY DEF AreRanges, IsRange
  <2>2. SumRanges(r)[c] = SumFunctionOnSet(f, DOMAIN r)
    BY <2>1, SumRangesColumn
  <2> HIDE DEF f
  <2> QED
    BY <2>1, <2>2, SumIsInteger
<1> QED
  BY <1>1, SumRangesIsFunction

\* The sum of no range at all.
LEMMA SumRangesEmpty == ASSUME NEW r, DOMAIN r = {} PROVE SumRanges(r) = ZeroRange
<1>1. ASSUME NEW c \in Columns PROVE SumRanges(r)[c] = 0
  <2>1. SumRanges(r)[c] = SumFunctionOnSet(r, DOMAIN r)
    BY SumRangesColumn, FS_EmptySet
  <2> QED
    BY <2>1, SumEmpty
<1> QED
  BY <1>1, SumRangesIsFunction DEF ZeroRange

\* One range more.
LEMMA SumRangesAdd ==
  ASSUME NEW r, NEW q, AreRanges(q), NEW x, x \notin DOMAIN r, DOMAIN q = DOMAIN r \cup {x},
         \A i \in DOMAIN r : q[i] = r[i]
  PROVE  SumRanges(q) = AddRanges(SumRanges(r), q[x])
<1>1. ASSUME NEW c \in Columns PROVE SumRanges(q)[c] = SumRanges(r)[c] + q[x][c]
  <2> DEFINE f == [i \in DOMAIN q |-> q[i][c]]
  <2>1. IsFiniteSet(DOMAIN q) /\ IsFiniteSet(DOMAIN r)
    BY FS_Subset DEF AreRanges
  <2>2. \A i \in DOMAIN q : f[i] \in Int
    BY DEF AreRanges, IsRange
  <2>3. SumRanges(q)[c] = SumFunctionOnSet(f, DOMAIN q)
    BY <2>1, SumRangesColumn
  <2>4. SumRanges(r)[c] = SumFunctionOnSet(f, DOMAIN r)
    BY <2>1, SumRangesColumn
  <2>5. f[x] = q[x][c]
    OBVIOUS
  <2> HIDE DEF f
  <2>6. SumFunctionOnSet(f, DOMAIN r \cup {x}) = f[x] + SumFunctionOnSet(f, DOMAIN r)
    BY <2>1, <2>2, SumAdd
  <2>7. f[x] \in Int /\ SumFunctionOnSet(f, DOMAIN r) \in Int
    BY <2>1, <2>2, SumIsInteger
  <2> QED
    BY <2>3, <2>4, <2>5, <2>6, <2>7
<1> QED
  BY <1>1, SumRangesIsFunction DEF AddRanges

\* Two ranges for every index.
LEMMA SumRangesPlus ==
  ASSUME NEW p, NEW q, NEW r, AreRanges(p), AreRanges(q), DOMAIN q = DOMAIN p, DOMAIN r = DOMAIN p,
         \A i \in DOMAIN p : \A c \in Columns : r[i][c] = p[i][c] + q[i][c]
  PROVE  SumRanges(r) = AddRanges(SumRanges(p), SumRanges(q))
<1>1. ASSUME NEW c \in Columns PROVE SumRanges(r)[c] = SumRanges(p)[c] + SumRanges(q)[c]
  <2> DEFINE f == [i \in DOMAIN p |-> p[i][c]]
             g == [i \in DOMAIN p |-> q[i][c]]
             h == [i \in DOMAIN p |-> r[i][c]]
  <2>1. IsFiniteSet(DOMAIN p)
    BY DEF AreRanges
  <2>2. /\ SumRanges(p)[c] = SumFunctionOnSet(f, DOMAIN p)
        /\ SumRanges(q)[c] = SumFunctionOnSet(g, DOMAIN p)
        /\ SumRanges(r)[c] = SumFunctionOnSet(h, DOMAIN p)
    BY <2>1, SumRangesColumn
  <2>3. \A i \in DOMAIN p : f[i] \in Int /\ g[i] \in Int /\ h[i] = f[i] + g[i]
    BY DEF AreRanges, IsRange
  <2> HIDE DEF f, g, h
  <2> QED
    BY <2>1, <2>2, <2>3, SumPlus
<1> QED
  BY <1>1, SumRangesIsFunction DEF AddRanges

\* Two sequences of ranges, one after the other.
LEMMA SumRangesConcat ==
  ASSUME NEW p, NEW q, NEW r, NEW m \in Nat, NEW n \in Nat,
         DOMAIN p = 1..m, DOMAIN q = 1..n, DOMAIN r = 1..(m + n), AreRanges(r),
         \A i \in 1..m : r[i] = p[i],
         \A i \in 1..n : r[m + i] = q[i]
  PROVE  SumRanges(r) = AddRanges(SumRanges(p), SumRanges(q))
<1> DEFINE Q == m + 1 .. m + n
<1>0. IsFiniteSet(1..m) /\ IsFiniteSet(1..n) /\ IsFiniteSet(Q)
  BY FS_Interval
<1>1. 1..(m + n) = (1..m) \cup Q /\ (1..m) \cap Q = {}
  OBVIOUS
<1>2. ASSUME NEW c \in Columns PROVE SumRanges(r)[c] = SumRanges(p)[c] + SumRanges(q)[c]
  <2> DEFINE f == [i \in 1..(m + n) |-> r[i][c]]
             g == [i \in 1..n |-> q[i][c]]
             shift == [i \in 1..n |-> m + i]
  <2>1. SumRanges(r)[c] = SumFunctionOnSet(f, 1..(m + n))
    BY SumRangesColumn DEF AreRanges
  <2>2. SumRanges(p)[c] = SumFunctionOnSet(f, 1..m)
    <3>1. \A i \in 1..m : f[i] = p[i][c]
      BY <1>1
    <3> QED
      BY <1>0, <3>1, SumRangesColumn
  <2>3. SumRanges(q)[c] = SumFunctionOnSet(g, 1..n)
    BY <1>0, SumRangesColumn
  <2>4. \A i \in 1..(m + n) : f[i] \in Int
    BY DEF AreRanges, IsRange
  <2>5. \A i \in 1..n : shift[i] \in Q /\ f[shift[i]] = g[i] /\ g[i] \in Int
    <3> SUFFICES ASSUME NEW i \in 1..n PROVE shift[i] \in Q /\ f[shift[i]] = g[i] /\ g[i] \in Int
      OBVIOUS
    <3>1. m + i \in Q /\ m + i \in 1..(m + n)
      OBVIOUS
    <3>2. f[m + i] = g[i]
      BY <3>1
    <3>3. shift[i] = m + i /\ f[m + i] \in Int
      BY <2>4, <3>1
    <3> QED
      BY <3>1, <3>2, <3>3
  <2>6. ASSUME NEW k \in Q PROVE \E i \in 1..n : shift[i] = k
    <3>1. k \in Int /\ m + 1 <= k /\ k <= m + n
      OBVIOUS
    <3>2. k - m \in 1..n /\ m + (k - m) = k
      BY <3>1
    <3>3. shift[k - m] = m + (k - m)
      BY <3>2
    <3> QED
      BY <3>2, <3>3
  <2>7. \A i, j \in 1..n : shift[i] = shift[j] => i = j
    OBVIOUS
  <2> HIDE DEF f, g, shift
  <2> HIDE DEF Q
  <2>8. SumFunctionOnSet(f, Q) = SumFunctionOnSet(g, 1..n)
    <3> DEFINE I == 1..n
    <3>1. /\ IsFiniteSet(I)
          /\ \A i \in I : shift[i] \in Q
          /\ \A k \in Q : \E i \in I : shift[i] = k
          /\ \A i, j \in I : shift[i] = shift[j] => i = j
          /\ \A i \in I : g[i] \in Int /\ f[shift[i]] = g[i]
      BY <1>0, <2>5, <2>6, <2>7
    <3> HIDE DEF I
    <3>2. SumFunctionOnSet(f, Q) = SumFunctionOnSet(g, I)
      BY <3>1, SumReindex
    <3> QED
      BY <3>2 DEF I
  <2>9. SumFunctionOnSet(f, 1..(m + n)) = SumFunctionOnSet(f, 1..m) + SumFunctionOnSet(f, Q)
    BY <1>0, <1>1, <2>4, SumUnion
  <2> QED
    BY <2>1, <2>2, <2>3, <2>8, <2>9
<1> QED
  BY <1>2, SumRangesIsFunction DEF AddRanges

------------------------------------------------------------------------------
(* The costs are numbers.                                                    *)

\* An element of a sequence is in the set that the sequence is over.
LEMMA ElementOf == ASSUME NEW T, NEW s \in Seq(T), NEW i \in 1..Len(s) PROVE s[i] \in T
OBVIOUS

\* The largest of finitely many integers exists.
LEMMA MaxIsMember ==
  ASSUME NEW S, S \subseteq Int, IsFiniteSet(S), S # {}
  PROVE  Max(S) \in S
<1> DEFINE From(x) == {y \in S : x <= y}
           F == {A \in SUBSET S : \E x \in S : A = From(x)}
<1>1. PICK A \in F : \A B \in F : B \subseteq A => B = A
  <2>1. PICK x \in S : From(x) \in F
    OBVIOUS
  <2>2. F \subseteq SUBSET S
    OBVIOUS
  <2>3. F # {}
    BY <2>1
  <2> HIDE DEF F, From
  <2> QED
    BY ONLY <2>2, <2>3, IsFiniteSet(S), SmallestSubset
<1>2. PICK x \in S : A = From(x)
  OBVIOUS
<1>3. \A y \in S : x >= y
  <2> SUFFICES ASSUME NEW y \in S, ~ (x >= y) PROVE FALSE
    OBVIOUS
  <2>1. x \in Int /\ y \in Int /\ x < y
    OBVIOUS
  <2>2. From(y) \subseteq From(x)
    <3> SUFFICES ASSUME NEW z \in S, y <= z PROVE x <= z
      OBVIOUS
    <3>1. z \in Int
      OBVIOUS
    <3> QED
      BY <2>1, <3>1
  <2>3. From(y) = From(x)
    BY <1>1, <1>2, <2>2
  <2>4. x \in From(x) /\ x \notin From(y)
    BY <2>1
  <2> QED
    BY <2>3, <2>4
<1> QED
  BY <1>3 DEF Max

\* What buildHPA reads off an HPA are numbers.
LEMMA HPANumbers ==
  ASSUME NEW N \in {Int, Nat}, AmountsIn(N), NEW h \in Documents, h.kind = HPAKind
  PROVE  /\ buildHPA(h).minReplicas = OrDefault(h.minReplicas, 1)
         /\ buildHPA(h).maxReplicas = h.maxReplicas
         /\ buildHPA(h).targetCPU = TargetCPU(h.metrics)
         /\ buildHPA(h).minReplicas \in N
         /\ buildHPA(h).maxReplicas \in N
         /\ buildHPA(h).targetCPU \in Int
<1>1. h.minReplicas \in N \cup {Nil} /\ h.maxReplicas \in N
  BY DEF AmountsIn
<1>2. OrDefault(h.minReplicas, 1) \in N
  BY <1>1 DEF OrDefault
<1>3. TargetCPU(h.metrics) \in Int
  <2> DEFINE cpu == {i \in DOMAIN h.metrics : h.metrics[i].name = "cpu"
                                              /\ h.metrics[i].utilization # Nil}
  <2>1. h.metrics \in Seq([name : STRING, utilization : Int \cup {Nil}])
    BY GoTypes
  <2>2. CASE cpu # {}
    <3>1. cpu \subseteq 1..Len(h.metrics) /\ Len(h.metrics) \in Nat
      BY <2>1
    <3>2. IsFiniteSet(cpu) /\ cpu \subseteq Int
      <4>1. IsFiniteSet(1..Len(h.metrics)) /\ 1..Len(h.metrics) \subseteq Int
        BY <3>1, FS_Interval
      <4> HIDE DEF cpu
      <4> QED
        BY <3>1, <4>1, FS_Subset
    <3>3. Max(cpu) \in cpu
      <4> HIDE DEF cpu
      <4> QED
        BY <2>2, <3>2, MaxIsMember
    <3>4. h.metrics[Max(cpu)].utilization \in Int
      <4>1. /\ Max(cpu) \in 1..Len(h.metrics)
            /\ h.metrics[Max(cpu)].utilization # Nil
        BY <3>1, <3>3
      <4>2. h.metrics[Max(cpu)] \in [name : STRING, utilization : Int \cup {Nil}]
        BY <2>1, <4>1, ElementOf
      <4> HIDE DEF cpu
      <4>3. h.metrics[Max(cpu)].utilization \in Int \cup {Nil}
        BY <4>2
      <4> QED
        BY <4>1, <4>3
    <3> QED
      BY <2>2, <3>4 DEF TargetCPU
  <2>3. CASE cpu = {}
    BY <2>3 DEF TargetCPU
  <2> QED
    BY <2>2, <2>3
<1> QED
  BY <1>1, <1>2, <1>3 DEF buildHPA

\* A configuration in which zeros are replaced.
LEMMA ConfigNumbers ==
  ASSUME NEW N \in {Int, Nat}, AmountsIn(N)
  PROVE  LET conf == populateConfigNotProvided(Conf)
         IN \A p \in {"cpu", "memory", "increase", "nodes"} : conf[p] \in N
<1>1. Conf \in [{"cpu", "memory", "increase", "nodes"} -> N]
  BY DEF AmountsIn
<1> QED
  BY <1>1 DEF populateConfigNotProvided, ConfigDefaults

\* Integers and naturals are closed under what the estimator computes.
LEMMA Closed ==
  ASSUME NEW N \in {Int, Nat}
  PROVE  \A a, b \in N : /\ a + b \in N /\ a * b \in N /\ a \div 100 \in N
                         /\ 100 * a \in N /\ a \in Int
<1>1. CASE N = Int
  BY <1>1
<1>2. CASE N = Nat
  BY <1>2
<1> QED
  BY <1>1, <1>2

\* A container costs a number, with its defaults filled in.
LEMMA ContainerNumbers ==
  ASSUME NEW N \in {Int, Nat}, AmountsIn(N),
         NEW c \in [requests : [cpu : N, memory : N], limits : [cpu : N, memory : N]]
  PROVE  LET b == buildContainer(c, populateConfigNotProvided(Conf))
         IN Price(b.requests) \in N /\ Price(b.limits) \in N
<1> DEFINE conf == populateConfigNotProvided(Conf)
           b == buildContainer(c, conf)
<1>1. CPUPrice \in N /\ MemoryPrice \in N
  BY DEF AmountsIn
<1>2. ASSUME NEW r \in {"cpu", "memory"} PROVE b.requests[r] \in N /\ b.limits[r] \in N
  <2>1. conf[r] \in N /\ conf.increase \in N
    BY ConfigNumbers
  <2>2. c.requests[r] \in N /\ c.limits[r] \in N
    OBVIOUS
  <2>3. b.requests[r] = FirstNonZero(FirstNonZero(c.requests[r], c.limits[r]), conf[r])
    BY DEF buildContainer
  <2>4. b.limits[r] = FirstNonZero(c.limits[r],
                                   b.requests[r] + (conf.increase * b.requests[r]) \div 100)
    BY DEF buildContainer
  <2> HIDE DEF b, conf
  <2>5. b.requests[r] \in N
    BY <2>1, <2>2, <2>3 DEF FirstNonZero
  <2>6. b.requests[r] + (conf.increase * b.requests[r]) \div 100 \in N
    BY <2>1, <2>5, Closed
  <2> QED
    BY <2>2, <2>4, <2>5, <2>6 DEF FirstNonZero
<1> HIDE DEF b
<1>3. b.requests.cpu \in N /\ b.requests.memory \in N /\ b.limits.cpu \in N /\ b.limits.memory \in N
  BY <1>2
<1>4. Price(b.requests) \in N /\ Price(b.limits) \in N
  BY <1>1, <1>3, Closed DEF Price
<1> QED
  BY <1>4 DEF b

\* The containers of a workload cost a number.
LEMMA ContainersNumbers ==
  ASSUME NEW N \in {Int, Nat}, AmountsIn(N), NEW d \in Documents,
         d.kind \in Scalable \cup {"DaemonSet"}
  PROVE  Requested(buildContainers(d)) \in N /\ Limited(buildContainers(d)) \in N
<1> DEFINE Amounts == [cpu : N, memory : N]
           cs == buildContainers(d)
           f == [i \in DOMAIN cs |-> Price(cs[i].requests)]
           g == [i \in DOMAIN cs |-> Price(cs[i].limits)]
           I == DOMAIN d.containers
<1>1. d.containers \in Seq([requests : Amounts, limits : Amounts])
  BY DEF AmountsIn
<1>2. DOMAIN cs = I /\ I = 1..Len(d.containers) /\ Len(d.containers) \in Nat
  BY <1>1 DEF buildContainers
<1>3. IsFiniteSet(I)
  BY <1>2, FS_Interval
<1>4. \A i \in I : f[i] \in N /\ g[i] \in N
  <2> SUFFICES ASSUME NEW i \in I PROVE f[i] \in N /\ g[i] \in N
    OBVIOUS
  <2>1. d.containers[i] \in [requests : Amounts, limits : Amounts]
    <3> HIDE DEF Amounts
    <3>1. i \in 1..Len(d.containers)
      BY <1>2
    <3> QED
      BY <1>1, <3>1, ElementOf
  <2>2. cs[i] = buildContainer(d.containers[i], populateConfigNotProvided(Conf))
    BY DEF buildContainers
  <2>3. f[i] = Price(cs[i].requests) /\ g[i] = Price(cs[i].limits)
    BY <1>2
  <2> HIDE DEF f, g, cs, I
  <2> QED
    BY <2>1, <2>2, <2>3, ContainerNumbers
<1>5. DOMAIN f = I /\ DOMAIN g = I
  BY <1>2
<1>6. Requested(cs) = SumFunctionOnSet(f, I) /\ Limited(cs) = SumFunctionOnSet(g, I)
  BY <1>5 DEF Requested, Limited, SumFunction
<1> HIDE DEF f, g, I
<1>7. SumFunctionOnSet(f, I) \in N /\ SumFunctionOnSet(g, I) \in N
  <2>1. CASE N = Int
    BY <1>3, <1>4, <2>1, SumIsInteger
  <2>2. CASE N = Nat
    BY <1>3, <1>4, <2>2, SumIsNatural
  <2> QED
    BY <2>1, <2>2
<1> QED
  BY <1>6, <1>7

\* Numbers of Pods give a range of numbers.
LEMMA PodsRangeIsRange ==
  ASSUME NEW containers, Requested(containers) \in Int, Limited(containers) \in Int,
         NEW minimum \in Int, NEW buffered \in Int, NEW maximum \in Int
  PROVE  IsRange(PodsRange(containers, minimum, buffered, maximum))
<1> DEFINE req == Requested(containers)
           lim == Limited(containers)
           range == PodsRange(containers, minimum, buffered, maximum)
<1>1. /\ minimum * req \in Int /\ buffered * req \in Int /\ maximum * req \in Int
      /\ minimum * lim \in Int /\ maximum * lim \in Int
  OBVIOUS
<1>2. /\ range.MinRequested = minimum * req
      /\ range.HPABuffer = buffered * req
      /\ range.MaxRequested = maximum * req
      /\ range.MinLimited = IF minimum * lim < minimum * req THEN minimum * req ELSE minimum * lim
      /\ range.MaxLimited = IF maximum * lim < maximum * req THEN maximum * req ELSE maximum * lim
  BY DEF PodsRange, postProcessCost
<1> HIDE DEF range, req, lim
<1>3. \A c \in Columns : range[c] \in Int
  BY <1>1, <1>2 DEF Columns
<1> QED
  BY <1>3 DEF IsRange, range

\* An object of the loader, whatever HPA it has been given.
LEMMA ScalableCostIsRange ==
  ASSUME NEW s, NEW d \in Workloads, s.containers = buildContainers(d), s.replicas \in Int,
         s.hpa \in HPAs \cup {Nil}
  PROVE  IsRange(scalableCost(s))
<1>1. d \in Documents /\ d.kind \in Scalable
  BY DEF Workloads
<1>2. Requested(s.containers) \in Int /\ Limited(s.containers) \in Int
  BY <1>1, ContainersNumbers, GoTypes
<1>3. CASE s.hpa = Nil
  <2>1. 100 * s.replicas \in Int
    OBVIOUS
  <2>2. scalableCost(s)
          = PodsRange(s.containers, 100 * s.replicas, 100 * s.replicas, 100 * s.replicas)
    BY <1>3 DEF scalableCost
  <2> QED
    BY <1>2, <2>1, <2>2, PodsRangeIsRange
<1>4. CASE s.hpa # Nil
  <2>1. PICK h \in Documents : h.kind = HPAKind /\ s.hpa = buildHPA(h)
    BY <1>4 DEF HPAs
  <2>2. s.hpa.minReplicas \in Int /\ s.hpa.maxReplicas \in Int /\ s.hpa.targetCPU \in Int
    BY <2>1, HPANumbers, GoTypes
  <2> DEFINE buffered == s.hpa.minReplicas * (IF s.hpa.targetCPU > 0
                                              THEN 100 + (100 - s.hpa.targetCPU) ELSE 100)
  <2>3. 100 * s.hpa.minReplicas \in Int /\ 100 * s.hpa.maxReplicas \in Int /\ buffered \in Int
    BY <2>2
  <2>4. scalableCost(s) = PodsRange(s.containers, 100 * s.hpa.minReplicas, buffered,
                                    100 * s.hpa.maxReplicas)
    BY <1>4 DEF scalableCost
  <2> HIDE DEF buffered
  <2> QED
    BY <1>2, <2>3, <2>4, PodsRangeIsRange
<1> QED
  BY <1>3, <1>4

\* A DaemonSet costs a range of numbers.
LEMMA DaemonSetCostIsRange ==
  ASSUME NEW d \in Documents, d.kind = "DaemonSet"
  PROVE  IsRange(daemonSetCost(buildDaemonSet(d)))
<1>1. Requested(buildContainers(d)) \in Int /\ Limited(buildContainers(d)) \in Int
  BY ContainersNumbers, GoTypes
<1>2. populateConfigNotProvided(Conf).nodes \in Int
  BY ConfigNumbers, GoTypes
<1> DEFINE n == 100 * populateConfigNotProvided(Conf).nodes
<1>3. daemonSetCost(buildDaemonSet(d)) = PodsRange(buildContainers(d), n, n, n)
  BY DEF daemonSetCost, buildDaemonSet
<1>4. n \in Int
  BY <1>2
<1> HIDE DEF n
<1> QED
  BY <1>1, <1>3, <1>4, PodsRangeIsRange

Volumes == [requests : Int, limits : Int]

\* A claim costs a range of numbers.
LEMMA VolumeClaimCostIsRange ==
  ASSUME NEW v \in Volumes PROVE IsRange(volumeClaimCost(v))
<1>1. StoragePrice \in Int /\ v.requests \in Int /\ v.limits \in Int
  BY GoTypes DEF AmountsIn, Volumes
<1> DEFINE r == 100 * StoragePrice * v.requests
           l == 100 * StoragePrice * v.limits
           range == volumeClaimCost(v)
<1>2. r \in Int /\ l \in Int
  BY <1>1
<1>3. /\ range.MinRequested = r
      /\ range.HPABuffer = r
      /\ range.MaxRequested = r
      /\ range.MinLimited = IF l < r THEN r ELSE l
      /\ range.MaxLimited = IF l < r THEN r ELSE l
  BY DEF volumeClaimCost, postProcessCost, Columns
<1> HIDE DEF r, l, range
<1>4. \A c \in Columns : range[c] \in Int
  BY <1>2, <1>3 DEF Columns
<1> QED
  BY <1>4 DEF IsRange, range

\* A claim asks for numbers when its document does.
LEMMA buildVolumeClaimIsVolume ==
  ASSUME NEW c, c.requests \in Int, c.limits \in Int
  PROVE  buildVolumeClaim(c) \in Volumes
BY DEF buildVolumeClaim, FirstNonZero, Volumes

\* Claims of the loader and of a StatefulSet.
LEMMA ClaimTemplates ==
  ASSUME NEW d \in Documents
  PROVE  claimTemplates(d) \in Seq(Volumes)
<1>1. CASE d.kind = "StatefulSet"
  <2>1. d.claims \in Seq(Volumes)
    BY <1>1, GoTypes DEF AmountsIn, Volumes
  <2>2. /\ DOMAIN d.claims = 1..Len(d.claims) /\ Len(d.claims) \in Nat
        /\ \A j \in 1..Len(d.claims) : d.claims[j] \in Volumes
    BY <2>1
  <2>3. \A j \in DOMAIN d.claims : buildVolumeClaim(d.claims[j]) \in Volumes
    BY <2>2, buildVolumeClaimIsVolume DEF Volumes
  <2>4. claimTemplates(d) = [j \in 1..Len(d.claims) |-> buildVolumeClaim(d.claims[j])]
    BY <1>1, <2>2 DEF claimTemplates
  <2> HIDE DEF Volumes
  <2> QED
    BY <2>2, <2>3, <2>4
<1>2. CASE d.kind # "StatefulSet"
  BY <1>2 DEF claimTemplates
<1> QED
  BY <1>1, <1>2

------------------------------------------------------------------------------
(* What the loader has made of the documents that it has read.               *)

\* The HPA that the documents of S give to the object with this key.
HPAFor(key, S) ==
  LET scaling == {h \in S : h.kind = HPAKind /\ KeyMatches(buildHPA(h).targetRef, key)}
  IN IF scaling = {} THEN Nil ELSE buildHPA(CHOOSE h \in scaling : TRUE)

\* What object s costs when every HPA of S is linked.
FinalCost(s, S) == scalableCost([s EXCEPT !.hpa = HPAFor(s.key, S)])

\* The cost of sequences of objects, ...
ScalablesCost(ss, S) == SumRanges([i \in DOMAIN ss |-> FinalCost(ss[i], S)])

DaemonSetsCost(ds) == SumRanges([i \in DOMAIN ds |-> daemonSetCost(ds[i])])

ClaimsCost(vs) == SumRanges([i \in DOMAIN vs |-> volumeClaimCost(vs[i])])

\* ... and the parts of DocumentCost that go through them.
ScalablePart(d, S) == IF d.kind \in Scalable THEN FinalCost(buildScalable(d), S) ELSE ZeroRange

DaemonSetPart(d) == IF d.kind = "DaemonSet" THEN daemonSetCost(buildDaemonSet(d)) ELSE ZeroRange

ClaimPart(d) == IF d.kind = VolumeClaimKind THEN volumeClaimCost(buildVolumeClaim(d))
                ELSE ClaimsCost(claimTemplates(d))

ScalableParts(R, S) == SumRanges([d \in R |-> ScalablePart(d, S)])

DaemonSetParts(R) == SumRanges([d \in R |-> DaemonSetPart(d)])

ClaimParts(R) == SumRanges([d \in R |-> ClaimPart(d)])

\* What the builders give.
DaemonSetObjects == {buildDaemonSet(d) : d \in {x \in Documents : x.kind = "DaemonSet"}}

\* An HPA scales what its targetRef matches.
LEMMA ScalesIsMatching ==
  ASSUME NEW h, NEW d
  PROVE  Scales(h, d) <=> h.kind = HPAKind /\ KeyMatches(buildHPA(h).targetRef, KeyOf(d))
BY DEF Scales, KeyMatches, buildHPA, KeyOf, buildAPIVersionKindName, NamespaceOf

\* What HPAFor gives is an HPA of the folders, or none.
LEMMA HPAForIsHPA ==
  ASSUME NEW key, NEW S \in SUBSET Documents
  PROVE  HPAFor(key, S) \in HPAs \cup {Nil}
<1> DEFINE scaling == {h \in S : h.kind = HPAKind /\ KeyMatches(buildHPA(h).targetRef, key)}
<1>1. scaling # {} => buildHPA(CHOOSE h \in scaling : TRUE) \in HPAs
  BY DEF HPAs
<1> QED
  BY <1>1 DEF HPAFor

\* Every object that the loader may hold costs a range of numbers.
LEMMA ScalableObjectCost ==
  ASSUME NEW s \in ScalableObjects
  PROVE  IsRange(scalableCost(s))
<1>1. PICK d \in Workloads : s.containers = buildContainers(d)
  BY DEF ScalableObjects
<1>2. PICK e \in Workloads : s.replicas = OrDefault(e.replicas, 1)
  BY DEF ScalableObjects
<1>3. e \in Documents /\ e.kind \in Scalable
  BY DEF Workloads
<1>4. e.replicas \in Int \cup {Nil}
  BY <1>3, GoTypes DEF AmountsIn
<1>5. s.replicas \in Int
  BY <1>2, <1>4 DEF OrDefault
<1>6. s.hpa \in HPAs \cup {Nil}
  BY DEF ScalableObjects
<1> QED
  BY <1>1, <1>5, <1>6, ScalableCostIsRange

\* So it does with the HPA of its folder.
LEMMA FinalObject ==
  ASSUME NEW s \in ScalableObjects, NEW S \in SUBSET Documents
  PROVE  /\ [s EXCEPT !.hpa = HPAFor(s.key, S)] \in ScalableObjects
         /\ IsRange(FinalCost(s, S))
<1>1. HPAFor(s.key, S) \in HPAs \cup {Nil}
  BY HPAForIsHPA
<1>2. [s EXCEPT !.hpa = HPAFor(s.key, S)] \in ScalableObjects
  BY <1>1 DEF ScalableObjects
<1> QED
  BY <1>2, ScalableObjectCost DEF FinalCost

\* Claims cost a range of numbers.
LEMMA ClaimsCostIsRange ==
  ASSUME NEW vs \in Seq(Volumes)
  PROVE  /\ AreRanges([i \in DOMAIN vs |-> volumeClaimCost(vs[i])])
         /\ IsRange(ClaimsCost(vs))
<1> DEFINE r == [i \in DOMAIN vs |-> volumeClaimCost(vs[i])]
<1>1. DOMAIN vs = 1..Len(vs) /\ Len(vs) \in Nat /\ IsFiniteSet(1..Len(vs))
  BY FS_Interval
<1>2. \A i \in DOMAIN r : IsRange(r[i])
  <2> SUFFICES ASSUME NEW i \in 1..Len(vs) PROVE IsRange(volumeClaimCost(vs[i]))
    BY <1>1
  <2> QED
    BY ElementOf, VolumeClaimCostIsRange
<1>3. AreRanges(r)
  BY <1>1, <1>2 DEF AreRanges
<1> HIDE DEF r
<1>4. SumRanges(r) \in [Columns -> Int]
  BY <1>3, SumRangesIsRange
<1> QED
  BY <1>3, <1>4 DEF r, IsRange, ClaimsCost

\* No claims cost nothing.
LEMMA NoClaims == ClaimsCost(<<>>) = ZeroRange
BY SumRangesEmpty DEF ClaimsCost

\* The parts are ranges, and are the cost of a document.
LEMMA Parts ==
  ASSUME NEW S \in SUBSET Documents, NEW d \in S
  PROVE  IsRange(ScalablePart(d, S)) /\ IsRange(DaemonSetPart(d)) /\ IsRange(ClaimPart(d))
<1>1. IsRange(ScalablePart(d, S))
  <2>1. CASE d.kind \in Scalable
    <3>1. buildScalable(d) \in ScalableObjects
      BY <2>1, BuiltObjects
    <3> QED
      BY <2>1, <3>1, FinalObject DEF ScalablePart
  <2>2. CASE d.kind \notin Scalable
    BY <2>2, ZeroIsRange DEF ScalablePart
  <2> QED
    BY <2>1, <2>2
<1>2. IsRange(DaemonSetPart(d))
  BY DaemonSetCostIsRange, ZeroIsRange DEF DaemonSetPart
<1>3. IsRange(ClaimPart(d))
  <2>1. CASE d.kind = VolumeClaimKind
    <3>1. d.requests \in Int /\ d.limits \in Int
      BY <2>1, GoTypes DEF AmountsIn
    <3> QED
      BY <2>1, <3>1, buildVolumeClaimIsVolume, VolumeClaimCostIsRange DEF ClaimPart
  <2>2. CASE d.kind # VolumeClaimKind
    BY <2>2, ClaimTemplates, ClaimsCostIsRange DEF ClaimPart
  <2> QED
    BY <2>1, <2>2
<1> QED
  BY <1>1, <1>2, <1>3

\* The cost of a document is the sum of its three parts.
LEMMA PartsAreDocumentCost ==
  ASSUME NEW S \in SUBSET Documents, NEW d \in S, NEW c \in Columns
  PROVE  DocumentCost(d, S)[c] = (ScalablePart(d, S)[c] + DaemonSetPart(d)[c]) + ClaimPart(d)[c]
<1> DEFINE scaling == {h \in S : Scales(h, d)}
           hpa == IF scaling = {} THEN Nil ELSE buildHPA(CHOOSE h \in scaling : TRUE)
           storage == IF d.kind = "StatefulSet"
                      THEN SumRanges([i \in DOMAIN d.claims |->
                                        volumeClaimCost(buildVolumeClaim(d.claims[i]))])
                      ELSE ZeroRange
           cost1 == AddRanges(storage, scalableCost([buildScalable(d) EXCEPT !.hpa = hpa]))
           cost2 == daemonSetCost(buildDaemonSet(d))
           cost3 == volumeClaimCost(buildVolumeClaim(d))
<1>0. DocumentCost(d, S) = CASE d.kind \in Scalable -> cost1
                             [] d.kind = "DaemonSet" -> cost2
                             [] d.kind = VolumeClaimKind -> cost3
                             [] OTHER -> ZeroRange
  BY DEF DocumentCost
<1>1. /\ ScalablePart(d, S)[c] \in Int /\ DaemonSetPart(d)[c] \in Int /\ ClaimPart(d)[c] \in Int
      /\ ZeroRange[c] = 0
  BY Parts DEF IsRange, ZeroRange
<1>2. d.kind # "StatefulSet" => claimTemplates(d) = <<>>
  BY DEF claimTemplates
<1>3. CASE d.kind \in Scalable
  <2>1. hpa = HPAFor(KeyOf(d), S)
    <3>1. scaling = {h \in S : h.kind = HPAKind /\ KeyMatches(buildHPA(h).targetRef, KeyOf(d))}
      BY ScalesIsMatching
    <3> HIDE DEF scaling
    <3> QED
      BY <3>1 DEF HPAFor
  <2>2. ClaimPart(d) = storage
    <3>1. ClaimPart(d) = ClaimsCost(claimTemplates(d))
      BY <1>3 DEF ClaimPart, Scalable, VolumeClaimKind
    <3>2. CASE d.kind = "StatefulSet"
      <4> DEFINE ct == claimTemplates(d)
      <4>1. ct = [j \in DOMAIN d.claims |-> buildVolumeClaim(d.claims[j])]
        BY <3>2 DEF claimTemplates
      <4>2. [i \in DOMAIN ct |-> volumeClaimCost(ct[i])]
              = [i \in DOMAIN d.claims |-> volumeClaimCost(buildVolumeClaim(d.claims[i]))]
        BY <4>1
      <4> QED
        BY <3>1, <3>2, <4>2 DEF ClaimsCost
    <3>3. CASE d.kind # "StatefulSet"
      BY <1>2, <3>1, <3>3, NoClaims
    <3> QED
      BY <3>2, <3>3
  <2> HIDE DEF hpa, storage
  <2>3. DocumentCost(d, S) = AddRanges(storage, scalableCost([buildScalable(d) EXCEPT !.hpa = hpa]))
    <3>1. d.kind # "DaemonSet" /\ d.kind # VolumeClaimKind
      BY <1>3 DEF Scalable, VolumeClaimKind
    <3> HIDE DEF cost1, cost2, cost3
    <3>2. DocumentCost(d, S) = cost1
      BY <1>0, <1>3, <3>1
    <3> QED
      BY <3>2 DEF cost1
  <2>4. buildScalable(d).key = KeyOf(d)
    BY DEF buildScalable
  <2>5. ScalablePart(d, S) = scalableCost([buildScalable(d) EXCEPT !.hpa = hpa])
    BY <1>3, <2>1, <2>4 DEF ScalablePart, FinalCost
  <2>6. DocumentCost(d, S) = AddRanges(ClaimPart(d), ScalablePart(d, S))
    BY <2>2, <2>3, <2>5
  <2>7. DaemonSetPart(d) = ZeroRange
    BY <1>3 DEF DaemonSetPart, Scalable
  <2> QED
    BY <1>1, <2>6, <2>7 DEF AddRanges
<1>4. CASE d.kind = "DaemonSet"
  <2>1. DocumentCost(d, S) = daemonSetCost(buildDaemonSet(d))
    <3>1. d.kind \notin Scalable /\ d.kind # VolumeClaimKind
      BY <1>4 DEF Scalable, VolumeClaimKind
    <3> HIDE DEF cost1, cost2, cost3
    <3>2. DocumentCost(d, S) = cost2
      BY <1>0, <1>4, <3>1
    <3> QED
      BY <3>2 DEF cost2
  <2>2. /\ ScalablePart(d, S) = ZeroRange /\ DaemonSetPart(d) = daemonSetCost(buildDaemonSet(d))
        /\ ClaimPart(d) = ZeroRange
    BY <1>2, <1>4, NoClaims DEF ScalablePart, DaemonSetPart, ClaimPart, Scalable, VolumeClaimKind
  <2> QED
    BY <1>1, <2>1, <2>2
<1>5. CASE d.kind = VolumeClaimKind
  <2>1. DocumentCost(d, S) = volumeClaimCost(buildVolumeClaim(d))
    BY <1>5 DEF DocumentCost, Scalable, VolumeClaimKind
  <2>2. /\ ScalablePart(d, S) = ZeroRange /\ DaemonSetPart(d) = ZeroRange
        /\ ClaimPart(d) = volumeClaimCost(buildVolumeClaim(d))
    BY <1>5 DEF ScalablePart, DaemonSetPart, ClaimPart, Scalable, VolumeClaimKind
  <2> QED
    BY <1>1, <2>1, <2>2
<1>6. CASE d.kind \notin Scalable \cup {"DaemonSet", VolumeClaimKind}
  <2>1. DocumentCost(d, S) = ZeroRange
    BY <1>6 DEF DocumentCost
  <2>2. d.kind # "StatefulSet"
    BY <1>6 DEF Scalable
  <2>3. ScalablePart(d, S) = ZeroRange /\ DaemonSetPart(d) = ZeroRange /\ ClaimPart(d) = ZeroRange
    BY <1>2, <1>6, <2>2, NoClaims DEF ScalablePart, DaemonSetPart, ClaimPart
  <2> QED
    BY <1>1, <2>1, <2>3
<1> QED
  BY <1>3, <1>4, <1>5, <1>6

\* What a folder costs, in three sums.
LEMMA ReferenceInParts ==
  ASSUME NEW S \in Folders
  PROVE  Reference(S) = AddRanges(AddRanges(ScalableParts(S, S), DaemonSetParts(S)), ClaimParts(S))
<1> DEFINE p == [d \in S |-> ScalablePart(d, S)]
           q == [d \in S |-> DaemonSetPart(d)]
           r == [d \in S |-> ClaimPart(d)]
           pq == [d \in S |-> AddRanges(ScalablePart(d, S), DaemonSetPart(d))]
           t == [d \in S |-> DocumentCost(d, S)]
<1>1. IsFiniteSet(S) /\ S \in SUBSET Documents
  BY GoTypes DEF Documents
<1>2. \A d \in S : IsRange(p[d]) /\ IsRange(q[d]) /\ IsRange(r[d])
  BY <1>1, Parts
<1>3. \A d \in S : \A c \in Columns : pq[d][c] = p[d][c] + q[d][c] /\ t[d][c] = pq[d][c] + r[d][c]
  BY <1>1, PartsAreDocumentCost DEF AddRanges
<1>4. DOMAIN p = S /\ DOMAIN q = S /\ DOMAIN r = S /\ DOMAIN pq = S /\ DOMAIN t = S
  OBVIOUS
<1>5. /\ Reference(S) = SumRanges(t) /\ ScalableParts(S, S) = SumRanges(p)
      /\ DaemonSetParts(S) = SumRanges(q) /\ ClaimParts(S) = SumRanges(r)
  BY DEF Reference, ScalableParts, DaemonSetParts, ClaimParts
<1> HIDE DEF p, q, r, pq, t
<1>6. AreRanges(p) /\ AreRanges(q) /\ AreRanges(r)
  BY <1>1, <1>2, <1>4 DEF AreRanges
<1>7. AreRanges(pq)
  BY <1>1, <1>2, <1>3, <1>4 DEF AreRanges, IsRange
<1>8. SumRanges(pq) = AddRanges(SumRanges(p), SumRanges(q))
  BY <1>3, <1>4, <1>6, SumRangesPlus
<1>9. SumRanges(t) = AddRanges(SumRanges(pq), SumRanges(r))
  BY <1>3, <1>4, <1>6, <1>7, SumRangesPlus
<1> QED
  BY <1>5, <1>8, <1>9

------------------------------------------------------------------------------
(* One object more.                                                          *)

\* The indices of a sequence with one element more.
LEMMA AppendIndices ==
  ASSUME NEW T, NEW s \in Seq(T), NEW x \in T
  PROVE  /\ Append(s, x) \in Seq(T)
         /\ DOMAIN s = 1..Len(s) /\ Len(s) \in Nat /\ Len(s) + 1 \notin DOMAIN s
         /\ DOMAIN Append(s, x) = DOMAIN s \cup {Len(s) + 1}
         /\ IsFiniteSet(DOMAIN Append(s, x)) /\ IsFiniteSet(DOMAIN s)
         /\ \A i \in DOMAIN s : Append(s, x)[i] = s[i]
         /\ Append(s, x)[Len(s) + 1] = x
<1>1. /\ Append(s, x) \in Seq(T) /\ Len(Append(s, x)) = Len(s) + 1 /\ Len(s) \in Nat
      /\ DOMAIN s = 1..Len(s) /\ DOMAIN Append(s, x) = 1..(Len(s) + 1)
      /\ Append(s, x)[Len(s) + 1] = x
      /\ \A i \in 1..Len(s) : Append(s, x)[i] = s[i]
  OBVIOUS
<1>2. 1..(Len(s) + 1) = (1..Len(s)) \cup {Len(s) + 1} /\ Len(s) + 1 \notin 1..Len(s)
  BY <1>1
<1>3. IsFiniteSet(1..Len(s)) /\ IsFiniteSet(1..(Len(s) + 1))
  BY <1>1, FS_Interval
<1> QED
  BY <1>1, <1>2, <1>3

\* The cost of one scalable object more is added to that of the others, ...
LEMMA OneScalableMore ==
  ASSUME NEW S \in SUBSET Documents, NEW s \in Seq(ScalableObjects), NEW x \in ScalableObjects
  PROVE  ScalablesCost(Append(s, x), S) = AddRanges(ScalablesCost(s, S), FinalCost(x, S))
<1> DEFINE t == Append(s, x)
           p == [i \in DOMAIN s |-> FinalCost(s[i], S)]
           q == [i \in DOMAIN t |-> FinalCost(t[i], S)]
           n == Len(s) + 1
<1>1. /\ t \in Seq(ScalableObjects) /\ DOMAIN t = DOMAIN s \cup {n} /\ n \notin DOMAIN s
      /\ IsFiniteSet(DOMAIN t) /\ t[n] = x /\ DOMAIN t = 1..Len(t)
      /\ \A i \in DOMAIN s : t[i] = s[i]
  BY AppendIndices
<1> HIDE DEF t, n
<1>2. \A i \in DOMAIN t : t[i] \in ScalableObjects
  BY <1>1, ElementOf
<1>3. AreRanges(q)
  BY <1>1, <1>2, FinalObject DEF AreRanges
<1>4. DOMAIN p = DOMAIN s /\ DOMAIN q = DOMAIN s \cup {n} /\ q[n] = FinalCost(x, S)
      /\ \A i \in DOMAIN s : q[i] = p[i]
  BY <1>1
<1>5. ScalablesCost(t, S) = SumRanges(q) /\ ScalablesCost(s, S) = SumRanges(p)
  BY DEF ScalablesCost
<1> HIDE DEF p, q
<1>6. SumRanges(q) = AddRanges(SumRanges(p), q[n])
  BY <1>1, <1>3, <1>4, SumRangesAdd
<1> QED
  BY <1>4, <1>5, <1>6 DEF t

\* ... that of one DaemonSet more, ...
LEMMA OneDaemonSetMore ==
  ASSUME NEW s \in Seq(DaemonSetObjects), NEW x \in DaemonSetObjects
  PROVE  DaemonSetsCost(Append(s, x)) = AddRanges(DaemonSetsCost(s), daemonSetCost(x))
<1> DEFINE t == Append(s, x)
           p == [i \in DOMAIN s |-> daemonSetCost(s[i])]
           q == [i \in DOMAIN t |-> daemonSetCost(t[i])]
           n == Len(s) + 1
<1>1. /\ t \in Seq(DaemonSetObjects) /\ DOMAIN t = DOMAIN s \cup {n} /\ n \notin DOMAIN s
      /\ IsFiniteSet(DOMAIN t) /\ t[n] = x /\ DOMAIN t = 1..Len(t)
      /\ \A i \in DOMAIN s : t[i] = s[i]
  BY AppendIndices
<1> HIDE DEF t, n
<1>2. \A i \in DOMAIN t : t[i] \in DaemonSetObjects
  BY <1>1, ElementOf
<1>3. AreRanges(q)
  BY <1>1, <1>2, DaemonSetCostIsRange DEF AreRanges, DaemonSetObjects
<1>4. DOMAIN p = DOMAIN s /\ DOMAIN q = DOMAIN s \cup {n} /\ q[n] = daemonSetCost(x)
      /\ \A i \in DOMAIN s : q[i] = p[i]
  BY <1>1
<1>5. DaemonSetsCost(t) = SumRanges(q) /\ DaemonSetsCost(s) = SumRanges(p)
  BY DEF DaemonSetsCost
<1> HIDE DEF p, q
<1>6. SumRanges(q) = AddRanges(SumRanges(p), q[n])
  BY <1>1, <1>3, <1>4, SumRangesAdd
<1> QED
  BY <1>4, <1>5, <1>6 DEF t

\* ... those of the claims of a StatefulSet, ...
LEMMA MoreClaims ==
  ASSUME NEW s \in Seq(Volumes), NEW t \in Seq(Volumes)
  PROVE  /\ s \o t \in Seq(Volumes)
         /\ ClaimsCost(s \o t) = AddRanges(ClaimsCost(s), ClaimsCost(t))
<1> DEFINE m == Len(s)
           n == Len(t)
           p == [i \in DOMAIN s |-> volumeClaimCost(s[i])]
           q == [i \in DOMAIN t |-> volumeClaimCost(t[i])]
           st == s \o t
           r == [i \in DOMAIN st |-> volumeClaimCost(st[i])]
<1>1. /\ m \in Nat /\ n \in Nat /\ st \in Seq(Volumes)
      /\ DOMAIN s = 1..m /\ DOMAIN t = 1..n /\ DOMAIN st = 1..(m + n)
      /\ \A i \in 1..m : st[i] = s[i]
      /\ \A i \in 1..n : st[m + i] = t[i]
  <2> HIDE DEF Volumes
  <2> QED
    OBVIOUS
<1> HIDE DEF m, n, st
<1>2. AreRanges(r)
  BY <1>1, ClaimsCostIsRange
<1>3. /\ DOMAIN p = 1..m /\ DOMAIN q = 1..n /\ DOMAIN r = 1..(m + n)
      /\ \A i \in 1..m : r[i] = p[i]
      /\ \A i \in 1..n : r[m + i] = q[i]
  <2>1. \A i \in 1..m : i \in 1..(m + n)
    BY <1>1
  <2>2. \A i \in 1..n : m + i \in 1..(m + n)
    BY <1>1
  <2> QED
    BY <1>1, <2>1, <2>2
<1>4. ClaimsCost(st) = SumRanges(r) /\ ClaimsCost(s) = SumRanges(p) /\ ClaimsCost(t) = SumRanges(q)
  BY DEF ClaimsCost
<1> HIDE DEF p, q, r
<1>5. SumRanges(r) = AddRanges(SumRanges(p), SumRanges(q))
  BY <1>1, <1>2, <1>3, SumRangesConcat
<1> QED
  BY <1>1, <1>4, <1>5 DEF st

\* ... and that of one claim more.
LEMMA OneClaimMore ==
  ASSUME NEW s \in Seq(Volumes), NEW v \in Volumes
  PROVE  /\ Append(s, v) \in Seq(Volumes)
         /\ ClaimsCost(Append(s, v)) = AddRanges(ClaimsCost(s), volumeClaimCost(v))
<1> DEFINE t == Append(s, v)
           p == [i \in DOMAIN s |-> volumeClaimCost(s[i])]
           q == [i \in DOMAIN t |-> volumeClaimCost(t[i])]
           n == Len(s) + 1
<1>1. /\ t \in Seq(Volumes) /\ DOMAIN t = DOMAIN s \cup {n} /\ n \notin DOMAIN s
      /\ t[n] = v /\ \A i \in DOMAIN s : t[i] = s[i]
  <2> HIDE DEF Volumes
  <2> QED
    BY AppendIndices
<1> HIDE DEF t, n
<1>2. AreRanges(q)
  BY <1>1, ClaimsCostIsRange
<1>3. DOMAIN p = DOMAIN s /\ DOMAIN q = DOMAIN s \cup {n} /\ q[n] = volumeClaimCost(v)
      /\ \A i \in DOMAIN s : q[i] = p[i]
  BY <1>1
<1>4. ClaimsCost(t) = SumRanges(q) /\ ClaimsCost(s) = SumRanges(p)
  BY DEF ClaimsCost
<1> HIDE DEF p, q
<1>5. SumRanges(q) = AddRanges(SumRanges(p), q[n])
  BY <1>1, <1>2, <1>3, SumRangesAdd
<1> QED
  BY <1>1, <1>3, <1>4, <1>5 DEF t

\* One document more.
LEMMA OneDocumentMore ==
  ASSUME NEW S \in Folders, NEW R \in SUBSET S, NEW d \in S \ R
  PROVE  /\ ScalableParts(R \cup {d}, S) = AddRanges(ScalableParts(R, S), ScalablePart(d, S))
         /\ DaemonSetParts(R \cup {d}) = AddRanges(DaemonSetParts(R), DaemonSetPart(d))
         /\ ClaimParts(R \cup {d}) = AddRanges(ClaimParts(R), ClaimPart(d))
<1> DEFINE T == R \cup {d}
           p == [x \in R |-> ScalablePart(x, S)]
           p2 == [x \in T |-> ScalablePart(x, S)]
           q == [x \in R |-> DaemonSetPart(x)]
           q2 == [x \in T |-> DaemonSetPart(x)]
           r == [x \in R |-> ClaimPart(x)]
           r2 == [x \in T |-> ClaimPart(x)]
<1>1. S \in SUBSET Documents /\ IsFiniteSet(T) /\ T \in SUBSET S
  <2>1. IsFiniteSet(S)
    BY GoTypes
  <2> QED
    BY <2>1, FS_Subset DEF Documents
<1>2. \A x \in T : IsRange(p2[x]) /\ IsRange(q2[x]) /\ IsRange(r2[x])
  BY <1>1, Parts
<1>3. AreRanges(p2) /\ AreRanges(q2) /\ AreRanges(r2)
  BY <1>1, <1>2 DEF AreRanges
<1>4. /\ DOMAIN p = R /\ DOMAIN q = R /\ DOMAIN r = R /\ d \notin R
      /\ DOMAIN p2 = R \cup {d} /\ DOMAIN q2 = R \cup {d} /\ DOMAIN r2 = R \cup {d}
      /\ \A x \in R : p2[x] = p[x] /\ q2[x] = q[x] /\ r2[x] = r[x]
      /\ p2[d] = ScalablePart(d, S) /\ q2[d] = DaemonSetPart(d) /\ r2[d] = ClaimPart(d)
  OBVIOUS
<1>5. /\ ScalableParts(T, S) = SumRanges(p2) /\ ScalableParts(R, S) = SumRanges(p)
      /\ DaemonSetParts(T) = SumRanges(q2) /\ DaemonSetParts(R) = SumRanges(q)
      /\ ClaimParts(T) = SumRanges(r2) /\ ClaimParts(R) = SumRanges(r)
  BY DEF ScalableParts, DaemonSetParts, ClaimParts
<1> HIDE DEF p, p2, q, q2, r, r2
<1>6. SumRanges(p2) = AddRanges(SumRanges(p), p2[d])
  BY <1>3, <1>4, SumRangesAdd
<1>7. SumRanges(q2) = AddRanges(SumRanges(q), q2[d])
  BY <1>3, <1>4, SumRangesAdd
<1>8. SumRanges(r2) = AddRanges(SumRanges(r), r2[d])
  BY <1>3, <1>4, SumRangesAdd
<1> QED
  BY <1>4, <1>5, <1>6, <1>7, <1>8

\* The parts of a set of documents add up to numbers.
LEMMA PartsAreNumbers ==
  ASSUME NEW S \in Folders, NEW R \in SUBSET S
  PROVE  /\ ScalableParts(R, S) \in [Columns -> Int]
         /\ DaemonSetParts(R) \in [Columns -> Int]
         /\ ClaimParts(R) \in [Columns -> Int]
<1> DEFINE p == [x \in R |-> ScalablePart(x, S)]
           q == [x \in R |-> DaemonSetPart(x)]
           r == [x \in R |-> ClaimPart(x)]
<1>1. S \in SUBSET Documents /\ IsFiniteSet(R)
  <2>1. IsFiniteSet(S)
    BY GoTypes
  <2> QED
    BY <2>1, FS_Subset DEF Documents
<1>2. AreRanges(p) /\ AreRanges(q) /\ AreRanges(r)
  BY <1>1, Parts DEF AreRanges
<1> QED
  BY <1>2, SumRangesIsRange DEF ScalableParts, DaemonSetParts, ClaimParts

\* Adding the empty range changes nothing.
LEMMA NothingMore == ASSUME NEW x \in [Columns -> Int] PROVE AddRanges(x, ZeroRange) = x
BY DEF AddRanges, ZeroRange

------------------------------------------------------------------------------
(* The monthly total.                                                        *)

\* A sum of five ranges, written out.
LEMMA FiveRanges ==
  ASSUME NEW r1, NEW r2, NEW r3, NEW r4, NEW r5,
         IsRange(r1), IsRange(r2), IsRange(r3), IsRange(r4), IsRange(r5)
  PROVE  \A c \in Columns :
           SumRanges(<<r1, r2, r3, r4, r5>>)[c] = r1[c] + r2[c] + r3[c] + r4[c] + r5[c]
<1> SUFFICES ASSUME NEW c \in Columns
             PROVE  SumRanges(<<r1, r2, r3, r4, r5>>)[c] = r1[c] + r2[c] + r3[c] + r4[c] + r5[c]
  OBVIOUS
<1> DEFINE r == <<r1, r2, r3, r4, r5>>
           f == [i \in 1..5 |-> r[i][c]]
<1>1. /\ DOMAIN r = 1..5 /\ r[1] = r1 /\ r[2] = r2 /\ r[3] = r3 /\ r[4] = r4 /\ r[5] = r5
  OBVIOUS
<1>2. /\ f[1] = r1[c] /\ f[2] = r2[c] /\ f[3] = r3[c] /\ f[4] = r4[c] /\ f[5] = r5[c]
      /\ f[1] \in Int /\ f[2] \in Int /\ f[3] \in Int /\ f[4] \in Int /\ f[5] \in Int
  BY <1>1 DEF IsRange
<1>3. SumRanges(r)[c] = SumFunctionOnSet(f, 1..5)
  <2>1. IsFiniteSet(1..5)
    <3>1. \A n \in Int : IsFiniteSet(1..n)
      BY FS_Interval
    <3>2. 5 \in Int
      OBVIOUS
    <3> QED
      BY <3>1, <3>2, Zenon
  <2>2. \A i \in 1..5 : f[i] = r[i][c]
    OBVIOUS
  <2> HIDE DEF f, r
  <2> QED
    BY <1>1, <2>1, <2>2, SumRangesColumn
<1> HIDE DEF f, r
<1>4. SumFunctionOnSet(f, 1..0) = 0
  <2>1. 1..0 = {}
    OBVIOUS
  <2> QED
    BY <2>1, SumEmpty
<1>5. ASSUME NEW n \in 0..4
      PROVE  SumFunctionOnSet(f, 1..(n + 1)) = f[n + 1] + SumFunctionOnSet(f, 1..n)
  <2>1. \A i \in 1..(n + 1) : f[i] \in Int
    <3>1. \A i \in 1..(n + 1) : i \in {1, 2, 3, 4, 5}
      OBVIOUS
    <3> QED
      BY <1>2, <3>1
  <2> QED
    BY <2>1, SumUpTo
<1>6. /\ SumFunctionOnSet(f, 1..1) = f[1] + SumFunctionOnSet(f, 1..0)
      /\ SumFunctionOnSet(f, 1..2) = f[2] + SumFunctionOnSet(f, 1..1)
      /\ SumFunctionOnSet(f, 1..3) = f[3] + SumFunctionOnSet(f, 1..2)
      /\ SumFunctionOnSet(f, 1..4) = f[4] + SumFunctionOnSet(f, 1..3)
      /\ SumFunctionOnSet(f, 1..5) = f[5] + SumFunctionOnSet(f, 1..4)
  <2>1. 0 + 1 = 1 /\ 1 + 1 = 2 /\ 2 + 1 = 3 /\ 3 + 1 = 4 /\ 4 + 1 = 5
    OBVIOUS
  <2> QED
    BY <1>5, <2>1
<1> QED
  BY <1>2, <1>3, <1>4, <1>6 DEF r

\* The cost of the objects as they are.
HeldCost == SumRanges([i \in DOMAIN scalables |-> scalableCost(scalables[i])])

\* The objects that are held cost ranges of numbers.
LEMMA HeldRanges ==
  ASSUME scalables \in Seq(ScalableObjects)
  PROVE  AreRanges([i \in DOMAIN scalables |-> scalableCost(scalables[i])])
<1>1. DOMAIN scalables = 1..Len(scalables) /\ Len(scalables) \in Nat
  OBVIOUS
<1>2. IsFiniteSet(1..Len(scalables))
  BY <1>1, FS_Interval
<1>3. \A i \in 1..Len(scalables) : IsRange(scalableCost(scalables[i]))
  BY ElementOf, ScalableObjectCost
<1> QED
  BY <1>1, <1>2, <1>3 DEF AreRanges

\* Scalable objects are of the three kinds.
LEMMA KindOfObject == ASSUME NEW s \in ScalableObjects PROVE s.key[2] \in Scalable
<1>1. PICK d \in Workloads : s.key = KeyOf(d)
  BY DEF ScalableObjects
<1>2. KeyOf(d)[2] = d.kind /\ d.kind \in Scalable
  BY DEF KeyOf, buildAPIVersionKindName, Workloads
<1> QED
  BY <1>1, <1>2

\* The scalable objects are added up kind by kind.
LEMMA KindByKind ==
  ASSUME scalables \in Seq(ScalableObjects), NEW c \in Columns
  PROVE  /\ HeldCost[c] = scalablesRange("Deployment")[c] + scalablesRange("ReplicaSet")[c]
                          + scalablesRange("StatefulSet")[c]
         /\ \A kind \in Scalable : IsRange(scalablesRange(kind))
<1> DEFINE I == DOMAIN scalables
           r == [i \in I |-> scalableCost(scalables[i])]
           f == [i \in I |-> r[i][c]]
           Of(kind) == {i \in I : scalables[i].key[2] = kind}
           q(kind) == [i \in Of(kind) |-> scalableCost(scalables[i])]
<1>1. AreRanges(r) /\ IsFiniteSet(I) /\ DOMAIN r = I
  BY HeldRanges DEF AreRanges
<1>2. \A i \in I : f[i] \in Int
  BY <1>1 DEF AreRanges, IsRange
<1>3. ASSUME NEW kind PROVE /\ IsFiniteSet(Of(kind)) /\ AreRanges(q(kind))
                            /\ scalablesRange(kind)[c] = SumFunctionOnSet(f, Of(kind))
  <2>1. IsFiniteSet(Of(kind)) /\ DOMAIN q(kind) = Of(kind)
    BY <1>1, FS_Subset
  <2>2. AreRanges(q(kind))
    BY <1>1, <2>1 DEF AreRanges
  <2>3. scalablesRange(kind) = SumRanges(q(kind))
    BY DEF scalablesRange
  <2>4. \A i \in Of(kind) : f[i] = q(kind)[i][c]
    OBVIOUS
  <2> HIDE DEF q, f
  <2>5. SumRanges(q(kind))[c] = SumFunctionOnSet(f, Of(kind))
    BY <2>1, <2>4, SumRangesColumn
  <2> QED
    BY <2>1, <2>2, <2>3, <2>5
<1>4. \A kind \in Scalable : IsRange(scalablesRange(kind))
  <2> SUFFICES ASSUME NEW kind \in Scalable PROVE IsRange(scalablesRange(kind))
    OBVIOUS
  <2>1. SumRanges(q(kind)) \in [Columns -> Int]
    BY <1>3, SumRangesIsRange
  <2> QED
    BY <2>1 DEF IsRange, scalablesRange
<1>5. HeldCost[c] = SumFunctionOnSet(f, I)
  <2>1. HeldCost = SumRanges(r) /\ \A i \in I : f[i] = r[i][c]
    BY DEF HeldCost
  <2> HIDE DEF f, r
  <2> QED
    BY <1>1, <2>1, SumRangesColumn
<1>6. \A i \in I : scalables[i].key[2] \in Scalable
  <2> SUFFICES ASSUME NEW i \in I PROVE scalables[i].key[2] \in Scalable
    OBVIOUS
  <2>1. i \in 1..Len(scalables)
    OBVIOUS
  <2>2. scalables[i] \in ScalableObjects
    BY <2>1, ElementOf
  <2> QED
    BY <2>2, KindOfObject
<1> DEFINE D == Of("Deployment")
           R == Of("ReplicaSet")
           T == Of("StatefulSet")
<1>7. I = (D \cup R) \cup T /\ D \cap R = {} /\ (D \cup R) \cap T = {}
  BY <1>6 DEF Scalable
<1>8. IsFiniteSet(D) /\ IsFiniteSet(R) /\ IsFiniteSet(T) /\ IsFiniteSet(D \cup R)
  BY <1>3, FS_Union
<1>9. /\ scalablesRange("Deployment")[c] = SumFunctionOnSet(f, D)
      /\ scalablesRange("ReplicaSet")[c] = SumFunctionOnSet(f, R)
      /\ scalablesRange("StatefulSet")[c] = SumFunctionOnSet(f, T)
  BY <1>3
<1> HIDE DEF f, D, R, T, I
<1>10. SumFunctionOnSet(f, I) = SumFunctionOnSet(f, D \cup R) + SumFunctionOnSet(f, T)
  BY <1>2, <1>7, <1>8, SumUnion
<1>11. SumFunctionOnSet(f, D \cup R) = SumFunctionOnSet(f, D) + SumFunctionOnSet(f, R)
  BY <1>2, <1>7, <1>8, SumUnion
<1> QED
  BY <1>4, <1>5, <1>9, <1>10, <1>11

\* DaemonSets cost ranges of numbers.
LEMMA DaemonSetRanges ==
  ASSUME NEW ds \in Seq(DaemonSetObjects)
  PROVE  /\ AreRanges([i \in DOMAIN ds |-> daemonSetCost(ds[i])])
         /\ DaemonSetsCost(ds) \in [Columns -> Int]
<1> DEFINE r == [i \in DOMAIN ds |-> daemonSetCost(ds[i])]
<1>1. DOMAIN ds = 1..Len(ds) /\ Len(ds) \in Nat /\ IsFiniteSet(1..Len(ds))
  BY FS_Interval
<1>2. \A i \in 1..Len(ds) : IsRange(daemonSetCost(ds[i]))
  BY ElementOf, DaemonSetCostIsRange DEF DaemonSetObjects
<1>3. AreRanges(r)
  BY <1>1, <1>2 DEF AreRanges
<1> QED
  BY <1>3, SumRangesIsRange DEF DaemonSetsCost

\* What the lists hold.
ListsOK ==
  /\ scalables \in Seq(ScalableObjects)
  /\ daemonSets \in Seq(DaemonSetObjects)
  /\ claims \in Seq(Volumes)

\* The total is the cost of the three lists.
LEMMA MonthlyTotalInParts ==
  ASSUME ListsOK
  PROVE  /\ MonthlyTotal = AddRanges(AddRanges(HeldCost, DaemonSetsCost(daemonSets)),
                                    ClaimsCost(claims))
         /\ MonthlyTotal \in [Columns -> Int]
<1> DEFINE r1 == scalablesRange("Deployment")
           r2 == scalablesRange("ReplicaSet")
           r3 == scalablesRange("StatefulSet")
           r4 == DaemonSetsCost(daemonSets)
           r5 == ClaimsCost(claims)
<1>1. MonthlyTotal = SumRanges(<<r1, r2, r3, r4, r5>>)
  BY DEF MonthlyTotal, DaemonSetsCost, ClaimsCost
<1>2. \A c \in Columns : IsRange(r1) /\ IsRange(r2) /\ IsRange(r3)
  BY KindByKind DEF ListsOK, Scalable
<1>3. IsRange(r1) /\ IsRange(r2) /\ IsRange(r3)
  BY <1>2 DEF Columns
<1>4. IsRange(r4) /\ IsRange(r5)
  BY DaemonSetRanges, ClaimsCostIsRange DEF ListsOK, IsRange
<1>5. \A c \in Columns : HeldCost[c] = r1[c] + r2[c] + r3[c]
  BY KindByKind DEF ListsOK
<1> HIDE DEF r1, r2, r3, r4, r5
<1>6. \A c \in Columns :
        SumRanges(<<r1, r2, r3, r4, r5>>)[c] = r1[c] + r2[c] + r3[c] + r4[c] + r5[c]
  BY <1>3, <1>4, FiveRanges
<1>7. \A c \in Columns : MonthlyTotal[c] = HeldCost[c] + r4[c] + r5[c] /\ MonthlyTotal[c] \in Int
  BY <1>1, <1>3, <1>4, <1>5, <1>6 DEF IsRange
<1>8. MonthlyTotal = [c \in Columns |-> MonthlyTotal[c]]
  BY <1>1, SumRangesIsFunction
<1> QED
  BY <1>7, <1>8 DEF AddRanges, r4, r5

------------------------------------------------------------------------------
(* The invariant of the loader.                                              *)

\* The documents of the path that have been loaded.
Read == folder[path] \ todo

\* Whatever the HPAs, the objects cost what the documents that have been read cost.
Tally ==
  /\ ScalablesCost(scalables, folder[path]) = ScalableParts(Read, folder[path])
  /\ DaemonSetsCost(daemonSets) = DaemonSetParts(Read)
  /\ ClaimsCost(claims) = ClaimParts(Read)

\* Every object is of a document that has been read, every document can be looked up, and
\* no two objects go by the same name.
ObjectsAreOfDocuments ==
  /\ ListsOK
  /\ \A i \in 1..Len(scalables) : \E d \in Read : d.kind \in Scalable /\ scalables[i].key = KeyOf(d)
  /\ \A d \in Read : d.kind \in Scalable =>
       Decodable(d) /\ {KeyOf(d), buildKindName(KeyOf(d))} \subseteq DOMAIN ref
  /\ Unambiguous(folder[path]) =>
       \A i, j \in 1..Len(scalables) :
         buildKindName(scalables[i].key) = buildKindName(scalables[j].key) => i = j

\* The HPAs are those of the documents that have been read; those that are linked, after
\* the last document, are where they belong.
HPAsAreLinked ==
  /\ \A j \in 1..Len(hpas) : \E h \in Read : h.kind = HPAKind /\ hpas[j] = buildHPA(h)
  /\ \A h \in Read : h.kind = HPAKind => \E j \in 1..Len(hpas) : hpas[j] = buildHPA(h)
  /\ todo # {} => linked = 0
  /\ \A i \in 1..Len(scalables) : scalables[i].hpa # Nil =>
       \E h \in Read : h.kind = HPAKind /\ scalables[i].hpa = buildHPA(h)
  /\ Unambiguous(folder[path]) =>
       \A j \in 1..linked, i \in 1..Len(scalables) :
         KeyMatches(hpas[j].targetRef, scalables[i].key) => scalables[i].hpa = hpas[j]

Empty == /\ scalables = <<>> /\ ref = <<>> /\ hpas = <<>>
         /\ daemonSets = <<>> /\ claims = <<>> /\ linked = 0

LoaderInv ==
  /\ pc = "start" => Empty
  /\ pc = "load" => ObjectsAreOfDocuments /\ HPAsAreLinked /\ Tally

\* The folder that is being read is one of the constant folders.
LEMMA FolderFacts ==
  ASSUME TypeOK
  PROVE  /\ folder[path] \in Folders /\ folder[path] \in SUBSET Documents
         /\ Read \in SUBSET folder[path]
BY DEF TypeOK, Documents, Read

\* With nothing read, nothing is held.
LEMMA EmptyLoader ==
  ASSUME Empty, Read = {}, TypeOK
  PROVE  ObjectsAreOfDocuments /\ HPAsAreLinked /\ Tally
<1>1. ListsOK
  BY DEF Empty, ListsOK
<1>2. ObjectsAreOfDocuments
  BY <1>1 DEF Empty, ObjectsAreOfDocuments
<1>3. HPAsAreLinked
  BY DEF Empty, HPAsAreLinked
<1>4. Tally
  BY SumRangesEmpty DEF Empty, Tally, ScalablesCost, DaemonSetsCost, ClaimsCost, ScalableParts,
                        DaemonSetParts, ClaimParts
<1> QED
  BY <1>2, <1>3, <1>4

\* The costs of the three lists are numbers.
LEMMA TallyIsNumbers ==
  ASSUME TypeOK, Tally
  PROVE  /\ ScalablesCost(scalables, folder[path]) \in [Columns -> Int]
         /\ DaemonSetsCost(daemonSets) \in [Columns -> Int]
         /\ ClaimsCost(claims) \in [Columns -> Int]
BY FolderFacts, PartsAreNumbers DEF Tally

\* A document that is read adds its parts to what it adds to the lists.
LEMMA TallyGrows ==
  ASSUME TypeOK, Tally, NEW d \in todo, todo' = todo \ {d}, UNCHANGED <<folder, path>>,
         ScalablesCost(scalables', folder[path])
           = AddRanges(ScalablesCost(scalables, folder[path]), ScalablePart(d, folder[path])),
         DaemonSetsCost(daemonSets') = AddRanges(DaemonSetsCost(daemonSets), DaemonSetPart(d)),
         ClaimsCost(claims') = AddRanges(ClaimsCost(claims), ClaimPart(d))
  PROVE  Tally'
<1> DEFINE S == folder[path]
           R == Read
<1>1. S \in Folders /\ R \in SUBSET S
  BY FolderFacts
<1>2. d \in S \ R /\ Read' = R \cup {d}
  BY DEF TypeOK, Read
<1>3. Tally' <=> /\ ScalablesCost(scalables', S) = ScalableParts(Read', S)
                 /\ DaemonSetsCost(daemonSets') = DaemonSetParts(Read')
                 /\ ClaimsCost(claims') = ClaimParts(Read')
  BY DEF Tally
<1>4. /\ ScalablesCost(scalables, S) = ScalableParts(R, S)
      /\ DaemonSetsCost(daemonSets) = DaemonSetParts(R)
      /\ ClaimsCost(claims) = ClaimParts(R)
  BY DEF Tally
<1> HIDE DEF S, R
<1>5. /\ ScalableParts(R \cup {d}, S) = AddRanges(ScalableParts(R, S), ScalablePart(d, S))
      /\ DaemonSetParts(R \cup {d}) = AddRanges(DaemonSetParts(R), DaemonSetPart(d))
      /\ ClaimParts(R \cup {d}) = AddRanges(ClaimParts(R), ClaimPart(d))
  BY <1>1, <1>2, OneDocumentMore
<1> QED
  BY <1>2, <1>3, <1>4, <1>5 DEF S

\* What documents of the other kinds add.
LEMMA NoParts ==
  ASSUME NEW d, NEW S
  PROVE  /\ d.kind \notin Scalable => ScalablePart(d, S) = ZeroRange
         /\ d.kind # "DaemonSet" => DaemonSetPart(d) = ZeroRange
         /\ d.kind \notin {"StatefulSet", VolumeClaimKind} => ClaimPart(d) = ZeroRange
BY NoClaims DEF ScalablePart, DaemonSetPart, ClaimPart, claimTemplates

\* A document that is taken has not been read before.
LEMMA ReadGrows ==
  ASSUME TypeOK, NEW d \in todo, todo' = todo \ {d}, UNCHANGED <<folder, path>>
  PROVE  Read' = Read \cup {d} /\ d \notin Read /\ d \in folder[path] /\ Read \subseteq folder[path]
BY DEF TypeOK, Read

\* The steps that load no scalable object.
LEMMA OtherLoadsKeepObjects ==
  ASSUME TypeOK, ObjectsAreOfDocuments, NEW d \in todo, todo' = todo \ {d},
         UNCHANGED <<folder, path, scalables, ref>>, d.kind \notin Scalable,
         daemonSets' \in Seq(DaemonSetObjects), claims' \in Seq(Volumes)
  PROVE  ObjectsAreOfDocuments'
<1>1. Read' = Read \cup {d}
  BY ReadGrows
<1>2. ListsOK'
  BY DEF ObjectsAreOfDocuments, ListsOK
<1>3. (\A i \in 1..Len(scalables) :
         \E e \in Read : e.kind \in Scalable /\ scalables[i].key = KeyOf(e))'
  BY <1>1 DEF ObjectsAreOfDocuments
<1>4. (\A e \in Read : e.kind \in Scalable =>
         Decodable(e) /\ {KeyOf(e), buildKindName(KeyOf(e))} \subseteq DOMAIN ref)'
  BY <1>1 DEF ObjectsAreOfDocuments
<1>5. (Unambiguous(folder[path]) =>
         \A i, j \in 1..Len(scalables) :
           buildKindName(scalables[i].key) = buildKindName(scalables[j].key) => i = j)'
  BY DEF ObjectsAreOfDocuments
<1> QED
  BY <1>2, <1>3, <1>4, <1>5 DEF ObjectsAreOfDocuments

\* The steps that load no HPA.
LEMMA OtherLoadsKeepHPAs ==
  ASSUME TypeOK, HPAsAreLinked, NEW d \in todo, todo' = todo \ {d},
         UNCHANGED <<folder, path, scalables, hpas, linked>>, d.kind # HPAKind
  PROVE  HPAsAreLinked'
<1>1. Read' = Read \cup {d}
  BY ReadGrows
<1>2. linked = 0
  BY DEF HPAsAreLinked
<1>3. (\A j \in 1..Len(hpas) : \E h \in Read : h.kind = HPAKind /\ hpas[j] = buildHPA(h))'
  BY <1>1 DEF HPAsAreLinked
<1>4. (\A h \in Read : h.kind = HPAKind => \E j \in 1..Len(hpas) : hpas[j] = buildHPA(h))'
  BY <1>1 DEF HPAsAreLinked
<1>5. (\A i \in 1..Len(scalables) : scalables[i].hpa # Nil =>
         \E h \in Read : h.kind = HPAKind /\ scalables[i].hpa = buildHPA(h))'
  BY <1>1 DEF HPAsAreLinked
<1>6. linked' = 0 /\ \A j \in 1..0 : FALSE
  BY <1>2
<1> QED
  BY <1>3, <1>4, <1>5, <1>6 DEF HPAsAreLinked

\* The lists that a step leaves alone cost what they did, with a part that is nothing.
LEMMA SkipObjectKeepsLoader ==
  ASSUME TypeOK, LoaderInv, NEW d \in todo, SkipObject(d)
  PROVE  LoaderInv'
<1>1. /\ pc = "load" /\ pc' = "load" /\ todo' = todo \ {d} /\ d.kind \notin SupportedKinds
      /\ UNCHANGED <<folder, path, scalables, ref, hpas, daemonSets, claims, linked>>
  BY DEF SkipObject, Loaded, input, manifests
<1>2. ObjectsAreOfDocuments /\ HPAsAreLinked /\ Tally
  BY <1>1 DEF LoaderInv
<1>3. d.kind \notin Scalable \cup {HPAKind, "DaemonSet", VolumeClaimKind, "StatefulSet"}
  BY <1>1 DEF SupportedKinds, Scalable
<1>4. ObjectsAreOfDocuments'
  BY <1>1, <1>2, <1>3, OtherLoadsKeepObjects DEF ObjectsAreOfDocuments, ListsOK
<1>5. HPAsAreLinked'
  BY <1>1, <1>2, <1>3, OtherLoadsKeepHPAs
<1>6. Tally'
  BY <1>1, <1>2, <1>3, NoParts, NothingMore, TallyIsNumbers, TallyGrows
<1> QED
  BY <1>1, <1>4, <1>5, <1>6 DEF LoaderInv

\* A DaemonSet has a part of its own, ...
LEMMA LoadDaemonSetKeepsLoader ==
  ASSUME TypeOK, LoaderInv, NEW d \in todo, LoadDaemonSet(d)
  PROVE  LoaderInv'
<1>1. /\ pc = "load" /\ pc' = "load" /\ todo' = todo \ {d} /\ d.kind = "DaemonSet"
      /\ daemonSets' = Append(daemonSets, buildDaemonSet(d))
      /\ UNCHANGED <<folder, path, scalables, ref, hpas, claims, linked>>
  BY DEF LoadDaemonSet, Takes, Loaded, input
<1>2. ObjectsAreOfDocuments /\ HPAsAreLinked /\ Tally /\ ListsOK
  BY <1>1 DEF LoaderInv, ObjectsAreOfDocuments
<1>3. d.kind \notin Scalable \cup {HPAKind, VolumeClaimKind, "StatefulSet"}
  BY <1>1 DEF Scalable, HPAKind, VolumeClaimKind
<1>4. buildDaemonSet(d) \in DaemonSetObjects
  BY <1>1, TodoIsDocuments DEF DaemonSetObjects
<1>5. daemonSets' \in Seq(DaemonSetObjects)
  BY <1>1, <1>2, <1>4 DEF ListsOK
<1>6. ObjectsAreOfDocuments'
  BY <1>1, <1>2, <1>3, <1>5, OtherLoadsKeepObjects DEF ListsOK
<1>7. HPAsAreLinked'
  BY <1>1, <1>2, <1>3, OtherLoadsKeepHPAs
<1>8. DaemonSetsCost(daemonSets') = AddRanges(DaemonSetsCost(daemonSets), DaemonSetPart(d))
  BY <1>1, <1>2, <1>4, OneDaemonSetMore DEF ListsOK, DaemonSetPart
<1>9. Tally'
  BY <1>1, <1>2, <1>3, <1>8, NoParts, NothingMore, TallyIsNumbers, TallyGrows
<1> QED
  BY <1>1, <1>6, <1>7, <1>9 DEF LoaderInv

\* ... so has a claim, ...
LEMMA LoadVolumeClaimKeepsLoader ==
  ASSUME TypeOK, LoaderInv, NEW d \in todo, LoadVolumeClaim(d)
  PROVE  LoaderInv'
<1>1. /\ pc = "load" /\ pc' = "load" /\ todo' = todo \ {d} /\ d.kind = VolumeClaimKind
      /\ claims' = Append(claims, buildVolumeClaim(d))
      /\ UNCHANGED <<folder, path, scalables, ref, hpas, daemonSets, linked>>
  BY DEF LoadVolumeClaim, Takes, Loaded, input
<1>2. ObjectsAreOfDocuments /\ HPAsAreLinked /\ Tally /\ ListsOK
  BY <1>1 DEF LoaderInv, ObjectsAreOfDocuments
<1>3. d.kind \notin Scalable \cup {HPAKind, "DaemonSet"}
  BY <1>1 DEF Scalable, HPAKind, VolumeClaimKind
<1>4. buildVolumeClaim(d) \in Volumes
  <2>1. d.requests \in Int /\ d.limits \in Int
    BY <1>1, TodoIsDocuments, GoTypes DEF AmountsIn
  <2> QED
    BY <2>1, buildVolumeClaimIsVolume
<1>5. /\ claims' \in Seq(Volumes)
      /\ ClaimsCost(claims') = AddRanges(ClaimsCost(claims), volumeClaimCost(buildVolumeClaim(d)))
  BY <1>1, <1>2, <1>4, OneClaimMore DEF ListsOK
<1>6. ObjectsAreOfDocuments'
  BY <1>1, <1>2, <1>3, <1>5, OtherLoadsKeepObjects DEF ListsOK
<1>7. HPAsAreLinked'
  BY <1>1, <1>2, <1>3, OtherLoadsKeepHPAs
<1>8. ClaimsCost(claims') = AddRanges(ClaimsCost(claims), ClaimPart(d))
  BY <1>1, <1>5 DEF ClaimPart
<1>9. Tally'
  BY <1>1, <1>2, <1>3, <1>8, NoParts, NothingMore, TallyIsNumbers, TallyGrows
<1> QED
  BY <1>1, <1>6, <1>7, <1>9 DEF LoaderInv

\* ... and an HPA has none: it is only kept for later.
LEMMA LoadHPAKeepsLoader ==
  ASSUME TypeOK, LoaderInv, NEW d \in todo, LoadHPA(d)
  PROVE  LoaderInv'
<1>1. /\ pc = "load" /\ pc' = "load" /\ todo' = todo \ {d} /\ d.kind = HPAKind
      /\ hpas' = Append(hpas, buildHPA(d))
      /\ UNCHANGED <<folder, path, scalables, ref, daemonSets, claims, linked>>
  BY DEF LoadHPA, Takes, Loaded, input
<1>2. ObjectsAreOfDocuments /\ HPAsAreLinked /\ Tally /\ ListsOK
  BY <1>1 DEF LoaderInv, ObjectsAreOfDocuments
<1>3. d.kind \notin Scalable \cup {"DaemonSet", VolumeClaimKind, "StatefulSet"}
  BY <1>1 DEF Scalable, HPAKind, VolumeClaimKind
<1>4. ObjectsAreOfDocuments'
  BY <1>1, <1>2, <1>3, OtherLoadsKeepObjects DEF ListsOK
<1>5. Tally'
  BY <1>1, <1>2, <1>3, NoParts, NothingMore, TallyIsNumbers, TallyGrows
<1>6. HPAsAreLinked'
  <2>1. Read' = Read \cup {d}
    BY <1>1, ReadGrows
  <2>2. linked = 0
    BY <1>2 DEF HPAsAreLinked
  <2>3. hpas \in Seq(HPAs) /\ buildHPA(d) \in HPAs
    BY <1>1, TodoIsDocuments, BuiltObjects DEF TypeOK
  <2>4. /\ Len(hpas') = Len(hpas) + 1 /\ Len(hpas) \in Nat
        /\ hpas'[Len(hpas) + 1] = buildHPA(d)
        /\ \A j \in 1..Len(hpas) : hpas'[j] = hpas[j]
    BY <1>1, <2>3
  <2>5. (\A j \in 1..Len(hpas) : \E h \in Read : h.kind = HPAKind /\ hpas[j] = buildHPA(h))'
    <3> SUFFICES ASSUME NEW j \in 1..Len(hpas')
                 PROVE  \E h \in Read' : h.kind = HPAKind /\ hpas'[j] = buildHPA(h)
      BY DEF buildHPA
    <3>1. CASE j \in 1..Len(hpas)
      BY <1>2, <2>1, <2>4, <3>1 DEF HPAsAreLinked
    <3>2. CASE j = Len(hpas) + 1
      BY <1>1, <2>1, <2>4, <3>2
    <3> QED
      BY <2>4, <3>1, <3>2
  <2>6. (\A h \in Read : h.kind = HPAKind => \E j \in 1..Len(hpas) : hpas[j] = buildHPA(h))'
    <3> SUFFICES ASSUME NEW h \in Read', h.kind = HPAKind
                 PROVE  \E j \in 1..Len(hpas') : hpas'[j] = buildHPA(h)
      BY DEF buildHPA
    <3>1. CASE h \in Read
      <4>1. PICK j \in 1..Len(hpas) : hpas[j] = buildHPA(h)
        BY <1>2, <3>1 DEF HPAsAreLinked
      <4>2. j \in 1..Len(hpas') /\ hpas'[j] = buildHPA(h)
        BY <2>4, <4>1
      <4> QED
        BY <4>2
    <3>2. CASE h = d
      <4>1. Len(hpas) + 1 \in 1..Len(hpas')
        BY <2>4
      <4> QED
        BY <2>4, <3>2, <4>1
    <3> QED
      BY <2>1, <3>1, <3>2
  <2>7. (\A i \in 1..Len(scalables) : scalables[i].hpa # Nil =>
           \E h \in Read : h.kind = HPAKind /\ scalables[i].hpa = buildHPA(h))'
    BY <1>1, <1>2, <2>1 DEF HPAsAreLinked
  <2>8. linked' = 0 /\ \A j \in 1..0 : FALSE
    BY <1>1, <2>2
  <2> QED
    BY <2>5, <2>6, <2>7, <2>8 DEF HPAsAreLinked
<1> QED
  BY <1>1, <1>4, <1>5, <1>6 DEF LoaderInv

\* Two documents with the same name and kind are one, if the folder is unambiguous.
LEMMA SameNameSameDocument ==
  ASSUME NEW S, Unambiguous(S), NEW d \in S, NEW e \in S, d.kind \in Scalable, e.kind \in Scalable,
         buildKindName(KeyOf(d)) = buildKindName(KeyOf(e))
  PROVE  d = e
<1>1. /\ KeyOf(d)[2] = d.kind /\ KeyOf(d)[3] = NamespaceOf(d) /\ KeyOf(d)[4] = d.name
      /\ KeyOf(e)[2] = e.kind /\ KeyOf(e)[3] = NamespaceOf(e) /\ KeyOf(e)[4] = e.name
  BY DEF KeyOf, buildAPIVersionKindName, NamespaceOf
<1>2. KeyOf(d)[2] = KeyOf(e)[2] /\ KeyOf(d)[3] = KeyOf(e)[3] /\ KeyOf(d)[4] = KeyOf(e)[4]
  BY DEF buildKindName
<1>3. SameObject(d, e)
  BY <1>1, <1>2 DEF SameObject
<1>4. d \in {x \in S : x.kind \in SupportedKinds} /\ e \in {x \in S : x.kind \in SupportedKinds}
  BY DEF SupportedKinds
<1> QED
  BY <1>3, <1>4 DEF Unambiguous

\* A scalable object is found under both its keys from now on; its claims follow it.
LEMMA LoadScalableKeepsLoader ==
  ASSUME IInv, LoaderInv, NEW d \in todo, LoadScalable(d)
  PROVE  LoaderInv'
<1> DEFINE x == buildScalable(d)
           n == Len(scalables) + 1
           S == folder[path]
<1>0. TypeOK
  BY DEF IInv
<1>1. /\ pc = "load" /\ pc' = "load" /\ todo' = todo \ {d} /\ d.kind \in Scalable /\ Decodable(d)
      /\ scalables' = Append(scalables, x)
      /\ Register(KeyOf(d), n)
      /\ claims' = claims \o claimTemplates(d)
      /\ UNCHANGED <<folder, path, hpas, daemonSets, linked>>
  BY DEF LoadScalable, Takes, Loaded, input
<1>2. ObjectsAreOfDocuments /\ HPAsAreLinked /\ Tally /\ ListsOK
  BY <1>1 DEF LoaderInv, ObjectsAreOfDocuments
<1>3. d.kind \notin {HPAKind, "DaemonSet", VolumeClaimKind} /\ d \in Documents
  BY <1>0, <1>1, TodoIsDocuments DEF Scalable, HPAKind, VolumeClaimKind
<1>4. x \in ScalableObjects /\ x.key = KeyOf(d) /\ x.hpa = Nil
  BY <1>1, <1>3, BuiltObjects
<1>5. Read' = Read \cup {d} /\ d \notin Read /\ d \in S /\ Read \subseteq S
  BY <1>0, <1>1, ReadGrows
<1> HIDE DEF x
<1>6. /\ scalables' \in Seq(ScalableObjects) /\ n \in Nat /\ n \notin 1..Len(scalables)
      /\ 1..Len(scalables') = (1..Len(scalables)) \cup {n}
      /\ scalables'[n] = x
      /\ \A i \in 1..Len(scalables) : scalables'[i] = scalables[i]
  <2>1. /\ Append(scalables, x) \in Seq(ScalableObjects)
        /\ DOMAIN scalables = 1..Len(scalables) /\ Len(scalables) \in Nat
        /\ n \notin DOMAIN scalables
        /\ DOMAIN Append(scalables, x) = DOMAIN scalables \cup {n}
        /\ \A i \in DOMAIN scalables : Append(scalables, x)[i] = scalables[i]
        /\ Append(scalables, x)[n] = x
    BY <1>2, <1>4, AppendIndices DEF ListsOK
  <2>2. DOMAIN scalables' = 1..Len(scalables')
    BY <1>1, <2>1
  <2> QED
    BY <1>1, <2>1, <2>2
<1>7. claims' \in Seq(Volumes) /\ ClaimsCost(claims') = AddRanges(ClaimsCost(claims), ClaimPart(d))
  <2>1. ClaimPart(d) = ClaimsCost(claimTemplates(d))
    BY <1>3 DEF ClaimPart
  <2> QED
    BY <1>1, <1>2, <1>3, <2>1, ClaimTemplates, MoreClaims DEF ListsOK
<1>8. DOMAIN ref' = DOMAIN ref \cup {KeyOf(d), buildKindName(KeyOf(d))}
  BY <1>1 DEF Register
<1> HIDE DEF n
<1>9. ObjectsAreOfDocuments'
  <2>1. ListsOK'
    BY <1>1, <1>2, <1>6, <1>7 DEF ListsOK
  <2>2. (\A i \in 1..Len(scalables) :
           \E e \in Read : e.kind \in Scalable /\ scalables[i].key = KeyOf(e))'
    <3> SUFFICES ASSUME NEW i \in 1..Len(scalables')
                 PROVE  \E e \in Read' : e.kind \in Scalable /\ scalables'[i].key = KeyOf(e)
      BY DEF KeyOf
    <3>1. CASE i \in 1..Len(scalables)
      BY <1>2, <1>5, <1>6, <3>1 DEF ObjectsAreOfDocuments
    <3>2. CASE i = n
      BY <1>1, <1>4, <1>5, <1>6, <3>2
    <3> QED
      BY <1>6, <3>1, <3>2
  <2>3. (\A e \in Read : e.kind \in Scalable =>
           Decodable(e) /\ {KeyOf(e), buildKindName(KeyOf(e))} \subseteq DOMAIN ref)'
    <3> SUFFICES ASSUME NEW e \in Read', e.kind \in Scalable
                 PROVE  Decodable(e) /\ {KeyOf(e), buildKindName(KeyOf(e))} \subseteq DOMAIN ref'
      OBVIOUS
    <3>1. CASE e \in Read
      BY <1>2, <1>8, <3>1 DEF ObjectsAreOfDocuments
    <3>2. CASE e = d
      BY <1>1, <1>8, <3>2
    <3> QED
      BY <1>5, <3>1, <3>2
  <2>4. (Unambiguous(folder[path]) =>
           \A i, j \in 1..Len(scalables) :
             buildKindName(scalables[i].key) = buildKindName(scalables[j].key) => i = j)'
    <3> SUFFICES ASSUME Unambiguous(S), NEW i \in 1..Len(scalables'), NEW j \in 1..Len(scalables'),
                        buildKindName(scalables'[i].key) = buildKindName(scalables'[j].key)
                 PROVE  i = j
      BY <1>1
    <3>1. CASE i \in 1..Len(scalables) /\ j \in 1..Len(scalables)
      <4>1. scalables'[i] = scalables[i] /\ scalables'[j] = scalables[j]
        BY <1>6, <3>1
      <4>2. buildKindName(scalables[i].key) = buildKindName(scalables[j].key)
        BY <4>1
      <4> QED
        BY <1>2, <3>1, <4>2 DEF ObjectsAreOfDocuments
    <3>2. ASSUME NEW k \in 1..Len(scalables)
          PROVE  buildKindName(scalables'[k].key) # buildKindName(scalables'[n].key)
      <4> SUFFICES ASSUME buildKindName(scalables'[k].key) = buildKindName(scalables'[n].key)
                   PROVE  FALSE
        OBVIOUS
      <4>1. PICK e \in Read : e.kind \in Scalable /\ scalables[k].key = KeyOf(e)
        BY <1>2 DEF ObjectsAreOfDocuments
      <4>2. scalables'[k] = scalables[k] /\ scalables'[n].key = KeyOf(d)
        BY <1>4, <1>6
      <4>3. buildKindName(KeyOf(e)) = buildKindName(KeyOf(d))
        BY <4>1, <4>2
      <4>4. e = d
        BY <1>1, <1>5, <4>1, <4>3, SameNameSameDocument
      <4> QED
        BY <1>5, <4>4
    <3> QED
      BY <1>6, <3>1, <3>2
  <2> QED
    BY <2>1, <2>2, <2>3, <2>4 DEF ObjectsAreOfDocuments
<1>10. HPAsAreLinked'
  <2>1. linked = 0
    BY <1>2 DEF HPAsAreLinked
  <2>2. (\A j \in 1..Len(hpas) : \E h \in Read : h.kind = HPAKind /\ hpas[j] = buildHPA(h))'
    BY <1>1, <1>2, <1>5 DEF HPAsAreLinked
  <2>3. (\A h \in Read : h.kind = HPAKind => \E j \in 1..Len(hpas) : hpas[j] = buildHPA(h))'
    BY <1>1, <1>2, <1>3, <1>5 DEF HPAsAreLinked
  <2>4. (\A i \in 1..Len(scalables) : scalables[i].hpa # Nil =>
           \E h \in Read : h.kind = HPAKind /\ scalables[i].hpa = buildHPA(h))'
    <3> SUFFICES ASSUME NEW i \in 1..Len(scalables'), scalables'[i].hpa # Nil
                 PROVE  \E h \in Read' : h.kind = HPAKind /\ scalables'[i].hpa = buildHPA(h)
      BY DEF buildHPA
    <3>1. i \in 1..Len(scalables) /\ scalables'[i] = scalables[i]
      BY <1>4, <1>6
    <3> QED
      BY <1>2, <1>5, <3>1 DEF HPAsAreLinked
  <2>5. linked' = 0 /\ \A j \in 1..0 : FALSE
    BY <1>1, <2>1
  <2> QED
    BY <2>2, <2>3, <2>4, <2>5 DEF HPAsAreLinked
<1>11. Tally'
  <2>1. S \in SUBSET Documents
    BY <1>0, FolderFacts
  <2>2. ScalablesCost(scalables', S) = AddRanges(ScalablesCost(scalables, S), FinalCost(x, S))
    BY <1>1, <1>2, <1>4, <2>1, OneScalableMore DEF ListsOK
  <2>3. ScalablePart(d, S) = FinalCost(x, S)
    BY <1>1 DEF ScalablePart, x
  <2>4. DaemonSetsCost(daemonSets') = AddRanges(DaemonSetsCost(daemonSets), DaemonSetPart(d))
    BY <1>0, <1>1, <1>2, <1>3, NoParts, NothingMore, TallyIsNumbers
  <2> QED
    BY <1>0, <1>1, <1>2, <1>7, <2>2, <2>3, <2>4, TallyGrows
<1> QED
  BY <1>1, <1>9, <1>10, <1>11 DEF LoaderInv

\* What an HPA refers to is found if it has been loaded.
LEMMA TargetIsFound ==
  ASSUME NEW h, NEW e, Decodable(e), KeyMatches(buildHPA(h).targetRef, KeyOf(e))
  PROVE  buildHPA(h).targetRef \in {KeyOf(e), buildKindName(KeyOf(e))}
<1> DEFINE k == buildHPA(h).targetRef
<1>1. k = <<k[1], k[2], k[3], k[4]>>
  BY DEF buildHPA, buildAPIVersionKindName
<1>2. KeyOf(e) = <<KeyOf(e)[1], KeyOf(e)[2], KeyOf(e)[3], KeyOf(e)[4]>>
  BY DEF KeyOf, buildAPIVersionKindName
<1>3. buildKindName(KeyOf(e)) = <<"", KeyOf(e)[2], KeyOf(e)[3], KeyOf(e)[4]>>
  BY DEF buildKindName
<1>4. k[1] \in {"", KeyOf(e)[1]} /\ k[2] = KeyOf(e)[2] /\ k[3] = KeyOf(e)[3] /\ k[4] = KeyOf(e)[4]
  BY DEF KeyMatches
<1> HIDE DEF k
<1>5. k \in {KeyOf(e), buildKindName(KeyOf(e))}
  BY <1>1, <1>2, <1>3, <1>4
<1> QED
  BY <1>5 DEF k

\* An object has at most one HPA, if the folder is unambiguous.
LEMMA SameTargetSameHPA ==
  ASSUME NEW S, Unambiguous(S), NEW g \in S, NEW h \in S, g.kind = HPAKind, h.kind = HPAKind,
         NEW e \in S, e.kind \in Scalable,
         KeyMatches(buildHPA(g).targetRef, KeyOf(e)), KeyMatches(buildHPA(h).targetRef, KeyOf(e))
  PROVE  g = h
<1>1. Scales(g, e) /\ Scales(h, e)
  BY ScalesIsMatching
<1>2. g \in {x \in S : x.kind \in SupportedKinds} /\ h \in {x \in S : x.kind \in SupportedKinds}
  BY DEF SupportedKinds
<1> QED
  BY <1>1, <1>2 DEF Unambiguous

\* Only one object matches a target, if the folder is unambiguous.
LEMMA SameTargetSameObject ==
  ASSUME IInv, ObjectsAreOfDocuments, Unambiguous(folder[path]), NEW k,
         NEW i \in 1..Len(scalables), NEW j \in 1..Len(scalables),
         KeyMatches(k, scalables[i].key), KeyMatches(k, scalables[j].key)
  PROVE  i = j
<1>1. buildKindName(scalables[i].key) = buildKindName(scalables[j].key)
  BY DEF KeyMatches, buildKindName
<1> QED
  BY <1>1 DEF ObjectsAreOfDocuments

\* An HPA that is linked goes to the one object that it matches, and takes no
\* other one's place, if the folder is unambiguous.
LEMMA LinkHPAKeepsLoader ==
  ASSUME IInv, LoaderInv, LinkHPA
  PROVE  LoaderInv'
<1> DEFINE h == hpas[linked + 1]
           t == ref[h.targetRef]
           S == folder[path]
<1>0. TypeOK /\ RefOK
  BY DEF IInv
<1>1. /\ pc = "load" /\ pc' = "load" /\ linked' = linked + 1 /\ todo = {}
      /\ UNCHANGED <<folder, path, todo, ref, hpas, daemonSets, claims>>
  BY DEF LinkHPA, input
<1>2. linked \in Nat /\ linked + 1 \in 1..Len(hpas)
  BY <1>0 DEF TypeOK, LinkHPA
<1>3. ObjectsAreOfDocuments /\ HPAsAreLinked /\ Tally /\ ListsOK
  BY <1>1 DEF LoaderInv, ObjectsAreOfDocuments
<1>4. Read' = Read /\ Read \subseteq S
  BY <1>1 DEF Read
<1>5. PICK x \in Read : x.kind = HPAKind /\ h = buildHPA(x)
  BY <1>2, <1>3 DEF HPAsAreLinked
<1>6. \A k \in DOMAIN ref : ref[k] \in 1..Len(scalables) /\ KeyMatches(k, scalables[ref[k]].key)
  BY <1>0 DEF TypeOK, RefOK
<1>7. h.targetRef \notin DOMAIN ref => scalables' = scalables
  BY DEF LinkHPA
<1>8. h.targetRef \in DOMAIN ref => scalables' = [scalables EXCEPT ![t].hpa = h]
  BY DEF LinkHPA
<1>9. x \in Documents /\ h \in HPAs
  BY <1>0, <1>4, <1>5, FolderFacts, BuiltObjects
<1> HIDE DEF h
<1>10. /\ scalables' \in Seq(ScalableObjects) /\ Len(scalables') = Len(scalables)
       /\ Len(scalables) \in Nat /\ DOMAIN scalables' = 1..Len(scalables)
       /\ DOMAIN scalables = 1..Len(scalables)
       /\ \A i \in 1..Len(scalables) :
            LET linkedNow == h.targetRef \in DOMAIN ref /\ i = t IN
              /\ scalables[i] \in ScalableObjects
              /\ linkedNow => scalables'[i] = [scalables[i] EXCEPT !.hpa = h]
              /\ ~ linkedNow => scalables'[i] = scalables[i]
  <2>1. scalables \in Seq(ScalableObjects)
    BY <1>3 DEF ListsOK
  <2>2. Len(scalables) \in Nat /\ DOMAIN scalables = 1..Len(scalables)
        /\ \A i \in 1..Len(scalables) : scalables[i] \in ScalableObjects
    BY <2>1, ElementOf
  <2>3. CASE h.targetRef \notin DOMAIN ref
    BY <1>7, <2>1, <2>2, <2>3
  <2>4. CASE h.targetRef \in DOMAIN ref
    <3> DEFINE s == [scalables[t] EXCEPT !.hpa = h]
    <3>1. t \in 1..Len(scalables)
      BY <1>6, <2>4
    <3>2. s \in ScalableObjects
      BY <1>9, <2>2, <3>1 DEF ScalableObjects
    <3>3. scalables' = [scalables EXCEPT ![t] = s]
      BY <1>8, <2>4
    <3> HIDE DEF s, t
    <3>4. /\ scalables' \in Seq(ScalableObjects) /\ Len(scalables') = Len(scalables)
          /\ DOMAIN scalables' = 1..Len(scalables)
          /\ scalables'[t] = s
          /\ \A i \in 1..Len(scalables) : i # t => scalables'[i] = scalables[i]
      BY <2>1, <2>2, <3>1, <3>2, <3>3
    <3> QED
      BY <2>2, <2>4, <3>4 DEF s
  <2> QED
    BY <2>3, <2>4
<1>11. \A i \in 1..Len(scalables) : /\ scalables'[i].key = scalables[i].key
                                    /\ FinalCost(scalables'[i], S) = FinalCost(scalables[i], S)
                                    /\ scalables'[i].hpa \in {scalables[i].hpa, h}
  <2> SUFFICES ASSUME NEW i \in 1..Len(scalables)
               PROVE  /\ scalables'[i].key = scalables[i].key
                      /\ FinalCost(scalables'[i], S) = FinalCost(scalables[i], S)
                      /\ scalables'[i].hpa \in {scalables[i].hpa, h}
    OBVIOUS
  <2>1. scalables[i] \in ScalableObjects
    BY <1>10
  <2>2. CASE scalables'[i] = scalables[i]
    BY <2>2
  <2>3. CASE scalables'[i] = [scalables[i] EXCEPT !.hpa = h]
    <3> DEFINE s == scalables[i]
               s2 == scalables'[i]
    <3>1. s2.key = s.key /\ s2.hpa = h
      BY <2>1, <2>3 DEF ScalableObjects
    <3>2. \A v : [s2 EXCEPT !.hpa = v] = [s EXCEPT !.hpa = v]
      BY <2>1, <2>3 DEF ScalableObjects
    <3> HIDE DEF s, s2
    <3>3. FinalCost(s2, S) = FinalCost(s, S)
      BY <3>1, <3>2 DEF FinalCost
    <3> QED
      BY <3>1, <3>3 DEF s, s2
  <2> QED
    BY <1>10, <2>2, <2>3
<1>12. ObjectsAreOfDocuments'
  <2>1. ListsOK'
    BY <1>1, <1>3, <1>10 DEF ListsOK
  <2>2. (\A i \in 1..Len(scalables) :
           \E e \in Read : e.kind \in Scalable /\ scalables[i].key = KeyOf(e))'
    BY <1>3, <1>4, <1>10, <1>11 DEF ObjectsAreOfDocuments
  <2>3. (\A e \in Read : e.kind \in Scalable =>
           Decodable(e) /\ {KeyOf(e), buildKindName(KeyOf(e))} \subseteq DOMAIN ref)'
    BY <1>1, <1>3, <1>4 DEF ObjectsAreOfDocuments
  <2>4. (Unambiguous(folder[path]) =>
           \A i, j \in 1..Len(scalables) :
             buildKindName(scalables[i].key) = buildKindName(scalables[j].key) => i = j)'
    BY <1>1, <1>3, <1>10, <1>11 DEF ObjectsAreOfDocuments
  <2> QED
    BY <2>1, <2>2, <2>3, <2>4 DEF ObjectsAreOfDocuments
<1>13. HPAsAreLinked'
  <2>1. (\A j \in 1..Len(hpas) : \E g \in Read : g.kind = HPAKind /\ hpas[j] = buildHPA(g))'
    BY <1>1, <1>3, <1>4 DEF HPAsAreLinked
  <2>2. (\A g \in Read : g.kind = HPAKind => \E j \in 1..Len(hpas) : hpas[j] = buildHPA(g))'
    BY <1>1, <1>3, <1>4 DEF HPAsAreLinked
  <2>3. (\A i \in 1..Len(scalables) : scalables[i].hpa # Nil =>
           \E g \in Read : g.kind = HPAKind /\ scalables[i].hpa = buildHPA(g))'
    <3> SUFFICES ASSUME NEW i \in 1..Len(scalables), scalables'[i].hpa # Nil
                 PROVE  \E g \in Read : g.kind = HPAKind /\ scalables'[i].hpa = buildHPA(g)
      BY <1>4, <1>10
    <3>1. CASE scalables'[i].hpa = scalables[i].hpa
      BY <1>3, <3>1 DEF HPAsAreLinked
    <3>2. CASE scalables'[i].hpa = h
      BY <1>5, <3>2
    <3> QED
      BY <1>11, <3>1, <3>2
  <2>4. ASSUME Unambiguous(S), NEW j \in 1..linked', NEW i \in 1..Len(scalables),
               KeyMatches(hpas[j].targetRef, scalables[i].key)
        PROVE  scalables'[i].hpa = hpas[j]
    <3>1. PICK e \in Read : e.kind \in Scalable /\ scalables[i].key = KeyOf(e)
      BY <1>3 DEF ObjectsAreOfDocuments
    <3>2. Decodable(e) /\ {KeyOf(e), buildKindName(KeyOf(e))} \subseteq DOMAIN ref
      BY <1>3, <3>1 DEF ObjectsAreOfDocuments
    <3>3. CASE j = linked + 1
      <4>1. hpas[j] = h /\ KeyMatches(h.targetRef, KeyOf(e)) /\ h = buildHPA(x)
        BY <1>5, <2>4, <3>1, <3>3 DEF h
      <4>2. h.targetRef \in DOMAIN ref
        BY <3>2, <4>1, TargetIsFound
      <4>3. t \in 1..Len(scalables) /\ KeyMatches(h.targetRef, scalables[t].key)
        BY <1>6, <4>2
      <4>4. KeyMatches(h.targetRef, scalables[i].key)
        BY <3>1, <4>1
      <4> HIDE DEF t
      <4>5. i = t
        BY <1>3, <2>4, <4>3, <4>4, SameTargetSameObject
      <4>6. scalables'[i] = [scalables[i] EXCEPT !.hpa = h] /\ scalables[i] \in ScalableObjects
        BY <1>10, <4>2, <4>5
      <4> QED
        BY <4>1, <4>6 DEF ScalableObjects
    <3>4. CASE j \in 1..linked
      <4>1. scalables[i].hpa = hpas[j]
        BY <1>3, <2>4, <3>4 DEF HPAsAreLinked
      <4>2. CASE scalables'[i] = scalables[i]
        BY <4>1, <4>2
      <4>3. CASE scalables'[i] # scalables[i]
        <5>1. h.targetRef \in DOMAIN ref /\ i = t
          BY <1>10, <4>3
        <5>2. KeyMatches(h.targetRef, KeyOf(e))
          BY <1>6, <3>1, <5>1
        <5>3. j \in 1..Len(hpas)
          BY <1>2, <3>4
        <5>4. PICK y \in Read : y.kind = HPAKind /\ hpas[j] = buildHPA(y)
          BY <1>3, <5>3 DEF HPAsAreLinked
        <5>5. /\ KeyMatches(buildHPA(y).targetRef, KeyOf(e))
              /\ KeyMatches(buildHPA(x).targetRef, KeyOf(e))
          BY <1>5, <2>4, <3>1, <5>2, <5>4
        <5>6. x = y
          BY <1>4, <1>5, <2>4, <3>1, <5>4, <5>5, SameTargetSameHPA
        <5>7. hpas[j] = h
          BY <1>5, <5>4, <5>6
        <5> QED
          BY <1>11, <4>1, <5>7
      <4> QED
        BY <4>2, <4>3
    <3> QED
      BY <1>1, <1>2, <3>3, <3>4
  <2>5. (Unambiguous(folder[path]) =>
           \A j \in 1..linked, i \in 1..Len(scalables) :
             KeyMatches(hpas[j].targetRef, scalables[i].key) => scalables[i].hpa = hpas[j])'
    <3> SUFFICES ASSUME Unambiguous(S), NEW j \in 1..linked', NEW i \in 1..Len(scalables),
                        KeyMatches(hpas[j].targetRef, scalables'[i].key)
                 PROVE  scalables'[i].hpa = hpas[j]
      BY <1>1, <1>10 DEF KeyMatches
    <3>1. KeyMatches(hpas[j].targetRef, scalables[i].key)
      BY <1>11
    <3> QED
      BY <2>4, <3>1
  <2> QED
    BY <1>1, <2>1, <2>2, <2>3, <2>5 DEF HPAsAreLinked
<1>14. Tally'
  <2>1. ScalablesCost(scalables', S) = ScalablesCost(scalables, S)
    <3> DEFINE p == [i \in DOMAIN scalables |-> FinalCost(scalables[i], S)]
               q == [i \in DOMAIN scalables' |-> FinalCost(scalables'[i], S)]
    <3>1. p = q
      BY <1>10, <1>11
    <3> QED
      BY <3>1 DEF ScalablesCost
  <2> QED
    BY <1>1, <1>3, <1>4, <2>1 DEF Tally
<1> QED
  BY <1>1, <1>12, <1>13, <1>14 DEF LoaderInv

------------------------------------------------------------------------------
(* The estimate.                                                             *)

\* When the last HPA is linked, every object has the HPA that its folder gives it.
LEMMA EveryHPAIsLinked ==
  ASSUME IInv, LoaderInv, EstimateCost, Unambiguous(folder[path]), NEW i \in 1..Len(scalables)
  PROVE  scalables[i].hpa = HPAFor(scalables[i].key, folder[path])
<1> DEFINE s == scalables[i]
           S == folder[path]
           scaling == {h \in S : h.kind = HPAKind /\ KeyMatches(buildHPA(h).targetRef, s.key)}
<1>1. Read = S /\ HPAsAreLinked /\ linked = Len(hpas)
  BY DEF EstimateCost, LoaderInv, Read
<1>2. HPAFor(s.key, S) = IF scaling = {} THEN Nil ELSE buildHPA(CHOOSE h \in scaling : TRUE)
  BY DEF HPAFor
<1>3. CASE scaling = {}
  <2> SUFFICES ASSUME s.hpa # Nil PROVE FALSE
    BY <1>2, <1>3
  <2>1. KeyMatches(s.hpa.targetRef, s.key)
    BY DEF IInv, HPAOnItsTarget
  <2>2. PICK h \in S : h.kind = HPAKind /\ s.hpa = buildHPA(h)
    BY <1>1 DEF HPAsAreLinked
  <2>3. h \in scaling
    BY <2>1, <2>2
  <2> QED
    BY <1>3, <2>3
<1>4. CASE scaling # {}
  <2> DEFINE h == CHOOSE h \in scaling : TRUE
  <2>1. h \in scaling
    BY <1>4
  <2>2. h \in S /\ h.kind = HPAKind /\ KeyMatches(buildHPA(h).targetRef, s.key)
    BY <2>1
  <2>3. HPAFor(s.key, S) = buildHPA(h)
    BY <1>2, <1>4
  <2> HIDE DEF h
  <2>4. PICK j \in 1..Len(hpas) : hpas[j] = buildHPA(h)
    BY <1>1, <2>2 DEF HPAsAreLinked
  <2>5. s.hpa = hpas[j]
    BY <1>1, <2>2, <2>4 DEF HPAsAreLinked
  <2> QED
    BY <2>3, <2>4, <2>5
<1> QED
  BY <1>3, <1>4

\* The total of an unambiguous folder is what its documents cost.
LEMMA EstimateIsReference ==
  ASSUME IInv, LoaderInv, EstimateCost, Unambiguous(folder[path])
  PROVE  MonthlyTotal = Reference(folder[path])
<1> DEFINE S == folder[path]
<1>1. /\ Read = S /\ Tally /\ ListsOK
  BY DEF EstimateCost, LoaderInv, Read, ObjectsAreOfDocuments
<1>2. scalables \in Seq(ScalableObjects) /\ DOMAIN scalables = 1..Len(scalables)
  BY <1>1 DEF ListsOK
<1>3. ASSUME NEW i \in 1..Len(scalables)
      PROVE  FinalCost(scalables[i], S) = scalableCost(scalables[i])
  <2>1. scalables[i] \in ScalableObjects
    BY <1>2, ElementOf
  <2>2. [scalables[i] EXCEPT !.hpa = scalables[i].hpa] = scalables[i]
    BY <2>1 DEF ScalableObjects
  <2> QED
    BY <2>2, EveryHPAIsLinked DEF FinalCost
<1>4. HeldCost = ScalablesCost(scalables, S)
  <2>1. [i \in DOMAIN scalables |-> FinalCost(scalables[i], S)]
          = [i \in DOMAIN scalables |-> scalableCost(scalables[i])]
    BY <1>2, <1>3
  <2> QED
    BY <2>1 DEF HeldCost, ScalablesCost
<1>5. MonthlyTotal = AddRanges(AddRanges(HeldCost, DaemonSetsCost(daemonSets)), ClaimsCost(claims))
  BY <1>1, MonthlyTotalInParts
<1>6. S \in Folders
  BY FolderFacts DEF IInv
<1>7. Reference(S) = AddRanges(AddRanges(ScalableParts(S, S), DaemonSetParts(S)), ClaimParts(S))
  BY <1>6, ReferenceInParts
<1>8. /\ ScalablesCost(scalables, S) = ScalableParts(S, S)
      /\ DaemonSetsCost(daemonSets) = DaemonSetParts(S)
      /\ ClaimsCost(claims) = ClaimParts(S)
  BY <1>1 DEF Tally
<1> QED
  BY <1>4, <1>5, <1>7, <1>8

\* EmptyLoader as an implication, in this state ...
LEMMA EmptyLoaderNow ==
  Empty /\ Read = {} /\ TypeOK => ObjectsAreOfDocuments /\ HPAsAreLinked /\ Tally
BY EmptyLoader

\* ... and in the next one.
LEMMA EmptyLoaderNext ==
  Empty' /\ (Read = {})' /\ TypeOK' => (ObjectsAreOfDocuments /\ HPAsAreLinked /\ Tally)'
BY EmptyLoaderNow, PTL

\* The steps of main: to the next folder, with a fresh loader, or out of the loop.
LEMMA EstimateCostKeepsLoader ==
  ASSUME IInv, LoaderInv, EstimateCost
  PROVE  LoaderInv'
<1>1. CASE path = "k8s" /\ folder["k8s-prev"] # Nil
  <2>1. /\ pc' = "load" /\ Empty' /\ path' = "k8s-prev" /\ todo' = folder["k8s-prev"]
        /\ folder' = folder
    BY <1>1 DEF EstimateCost, Empty, input
  <2>2. TypeOK' /\ Read' = {}
    <3>1. IInv'
      BY OtherStepsKeepIInv
    <3> QED
      BY <2>1, <3>1 DEF IInv, Read
  <2>3. (ObjectsAreOfDocuments /\ HPAsAreLinked /\ Tally)'
    BY <2>1, <2>2, EmptyLoaderNext
  <2> QED
    BY <2>1, <2>3 DEF LoaderInv
<1>2. CASE ~(path = "k8s" /\ folder["k8s-prev"] # Nil)
  BY <1>2 DEF EstimateCost, LoaderInv
<1> QED
  BY <1>1, <1>2

\* The first folder is read into the loader as it was made.
LEMMA ReadCatalogKeepsLoader ==
  ASSUME IInv, LoaderInv, ReadCatalog
  PROVE  LoaderInv'
<1>1. pc' = "load" /\ Empty' /\ path' = path /\ todo' = folder[path] /\ folder' = folder
  BY DEF ReadCatalog, LoaderInv, Empty, input, manifests
<1>2. TypeOK' /\ Read' = {}
  <2>1. IInv'
    BY OtherStepsKeepIInv
  <2> QED
    BY <1>1, <2>1 DEF IInv, Read
<1>3. (ObjectsAreOfDocuments /\ HPAsAreLinked /\ Tally)'
  BY <1>1, <1>2, EmptyLoaderNext
<1> QED
  BY <1>1, <1>3 DEF LoaderInv

\* The invariant of the loader is inductive, together with IInv.
LEMMA NextKeepsLoader == IInv /\ LoaderInv /\ [Next]_vars => LoaderInv'
<1> SUFFICES ASSUME IInv, LoaderInv, [Next]_vars PROVE LoaderInv'
  OBVIOUS
<1>0. TypeOK
  BY DEF IInv
<1>1. CASE ReadCatalog
  BY <1>1, ReadCatalogKeepsLoader
<1>2. CASE EstimateCost
  BY <1>2, EstimateCostKeepsLoader
<1>3. CASE LinkHPA
  BY <1>3, LinkHPAKeepsLoader
<1>4. CASE CatalogFails \/ Output \/ OutputDiff \/ CreateDiff \/ EncodeDiff
  <2>1. pc' \notin {"start", "load"}
    <3>1. CASE CatalogFails BY <3>1 DEF CatalogFails, Exit
    <3>2. CASE Output BY <3>2 DEF Output, SaveMarkdown
    <3>3. CASE OutputDiff BY <3>3 DEF OutputDiff, SaveMarkdown
    <3>4. CASE CreateDiff BY <3>4 DEF CreateDiff
    <3>5. CASE EncodeDiff BY <3>5 DEF EncodeDiff
    <3> QED
      BY <1>4, <3>1, <3>2, <3>3, <3>4, <3>5
  <2> QED
    BY <2>1 DEF LoaderInv
<1>5. CASE Done \/ UNCHANGED vars
  <2>1. UNCHANGED vars
    BY <1>5 DEF Done
  <2>2. /\ pc' = pc /\ folder' = folder /\ path' = path /\ todo' = todo
        /\ scalables' = scalables /\ ref' = ref /\ hpas' = hpas
        /\ daemonSets' = daemonSets /\ claims' = claims /\ linked' = linked
    BY <2>1 DEF vars, input, manifests
  <2>3. Empty => Empty'
    BY <2>2 DEF Empty
  <2>4. Read' = Read
    BY <2>2 DEF Read
  <2>5. Tally => Tally'
    BY <2>2, <2>4 DEF Tally
  <2>6. ObjectsAreOfDocuments => ObjectsAreOfDocuments'
    BY <2>2, <2>4 DEF ObjectsAreOfDocuments, ListsOK
  <2>7. HPAsAreLinked => HPAsAreLinked'
    BY <2>2, <2>4 DEF HPAsAreLinked
  <2> QED
    BY <2>2, <2>3, <2>5, <2>6, <2>7 DEF LoaderInv
<1>6. ASSUME NEW d \in todo, LoadObject(d) PROVE LoaderInv'
  <2>1. CASE SkipObject(d)
    BY <1>0, <2>1, SkipObjectKeepsLoader
  <2>2. CASE LoadHPA(d)
    BY <1>0, <2>2, LoadHPAKeepsLoader
  <2>3. CASE LoadScalable(d)
    BY <2>3, LoadScalableKeepsLoader
  <2>4. CASE LoadDaemonSet(d)
    BY <1>0, <2>4, LoadDaemonSetKeepsLoader
  <2>5. CASE LoadVolumeClaim(d)
    BY <1>0, <2>5, LoadVolumeClaimKeepsLoader
  <2>6. CASE DecodeFails(d) \/ ReadFails(d)
    BY <2>6 DEF DecodeFails, ReadFails, Exit, LoaderInv
  <2> QED
    BY <1>6, <2>1, <2>2, <2>3, <2>4, <2>5, <2>6 DEF LoadObject
<1> QED
  BY <1>1, <1>2, <1>3, <1>4, <1>5, <1>6 DEF Next

\* The loader is empty at first.
LEMMA InitLoader == Init => LoaderInv
BY DEF Init, LoaderInv, Empty

\* Only EstimateCost gives a total, to the path that it has summed up.
LEMMA TotalsChange ==
  ASSUME [Next]_vars
  PROVE  /\ folder' = folder
         /\ \/ EstimateCost /\ cost' = [cost EXCEPT ![path] = MonthlyTotal]
            \/ cost' = cost
<1>1. CASE EstimateCost
  BY <1>1 DEF EstimateCost, input
<1>2. CASE ReadCatalog \/ CatalogFails \/ LinkHPA \/ Output
  BY <1>2 DEF ReadCatalog, CatalogFails, Exit, LinkHPA, Output, input, results
<1>3. CASE OutputDiff \/ CreateDiff \/ EncodeDiff \/ Done \/ UNCHANGED vars
  BY <1>3 DEF OutputDiff, SaveMarkdown, CreateDiff, EncodeDiff, Done, vars, input, results
<1>4. ASSUME NEW d \in todo, LoadObject(d) PROVE folder' = folder /\ cost' = cost
  BY <1>4 DEF LoadObject, SkipObject, LoadHPA, LoadScalable, LoadDaemonSet, LoadVolumeClaim,
              DecodeFails, ReadFails, Takes, Loaded, Exit, input, results
<1> QED
  BY <1>1, <1>2, <1>3, <1>4 DEF Next

\* A total that has been made stays, and a new one is as it should be.
LEMMA NextKeepsEstimate ==
  IInv /\ LoaderInv /\ EstimateIsOfTheSet /\ [Next]_vars => EstimateIsOfTheSet'
<1> SUFFICES ASSUME IInv, LoaderInv, EstimateIsOfTheSet, [Next]_vars,
                    NEW p \in Paths, cost'[p] # Nil, Unambiguous(folder'[p])
             PROVE  cost'[p] = Reference(folder'[p])
  BY DEF EstimateIsOfTheSet, Unambiguous, Reference
<1>1. folder' = folder
  BY TotalsChange
<1>2. CASE cost' = cost
  BY <1>1, <1>2 DEF EstimateIsOfTheSet
<1>3. CASE EstimateCost /\ cost' = [cost EXCEPT ![path] = MonthlyTotal]
  <2>1. CASE p = path /\ p \in DOMAIN cost
    <3>1. cost'[p] = MonthlyTotal
      BY <1>3, <2>1
    <3> QED
      BY <1>1, <1>3, <2>1, <3>1, EstimateIsReference
  <2>2. CASE ~(p = path /\ p \in DOMAIN cost)
    <3>1. cost'[p] = cost[p]
      BY <1>3, <2>2
    <3> QED
      BY <1>1, <3>1 DEF EstimateIsOfTheSet
  <2> QED
    BY <2>1, <2>2
<1> QED
  BY <1>2, <1>3, TotalsChange

\* The estimate of an unambiguous folder is a function of the set of its documents, in
\* whatever order files and documents come (loadObject, prepareForCostEstimation).
THEOREM EstimateIgnoresTheOrder == Spec => []EstimateIsOfTheSet
<1>1. Init => EstimateIsOfTheSet
  BY DEF Init, EstimateIsOfTheSet
<1> QED
  BY <1>1, InitIInv, NextKeepsIInv, InitLoader, NextKeepsLoader, NextKeepsEstimate, PTL DEF Spec

------------------------------------------------------------------------------
(* The summary.                                                              *)

\* status() names exactly the columns that went up and down, for any two
\* totals of which the present has no negative column: an infinite percentage has the right sign
\* and a NaN stands for no change.
THEOREM SummaryIsTruthful ==
  ASSUME NEW curr \in [Columns -> Nat], NEW prev \in [Columns -> Int]
  PROVE  /\ Increased(SubtractRanges(curr, prev)) = {c \in Columns : curr[c] > prev[c]}
         /\ Decreased(SubtractRanges(curr, prev)) = {c \in Columns : curr[c] < prev[c]}
<1> DEFINE d == SubtractRanges(curr, prev)
<1>1. ASSUME NEW c \in Columns
      PROVE  /\ d.perc[c] \in {"increase", "+Inf"} <=> curr[c] > prev[c]
             /\ d.perc[c] \in {"decrease", "-Inf"} <=> curr[c] < prev[c]
  <2>1. curr[c] \in Nat /\ prev[c] \in Int
    OBVIOUS
  <2>2. d.perc[c] = Percentage(curr[c] - prev[c], curr[c])
    BY DEF SubtractRanges
  <2>3. CASE curr[c] - prev[c] = 0
    BY <2>1, <2>2, <2>3 DEF Percentage
  <2>4. CASE curr[c] - prev[c] > 0
    BY <2>1, <2>2, <2>4 DEF Percentage
  <2>5. CASE curr[c] - prev[c] < 0
    BY <2>1, <2>2, <2>5 DEF Percentage
  <2>6. QED
    BY <2>1, <2>3, <2>4, <2>5
<1> HIDE DEF d
<1>2. Increased(d) = {c \in Columns : curr[c] > prev[c]}
      /\ Decreased(d) = {c \in Columns : curr[c] < prev[c]}
  BY <1>1 DEF Increased, Decreased
<1>3. QED
  BY <1>2 DEF d

\* What main compares is what it has estimated: the totals are not touched any more.
DiffOfTheTotals ==
  diff # Nil => /\ pc \in {"createDiff", "saveDiff", "finished", "exited"}
                /\ diff = SubtractRanges(cost["k8s"], cost["k8s-prev"])

\* Nothing changes the totals after they have been compared.
LEMMA NextKeepsDiff == DiffOfTheTotals /\ [Next]_vars => DiffOfTheTotals'
<1> SUFFICES ASSUME DiffOfTheTotals, [Next]_vars PROVE DiffOfTheTotals'
  OBVIOUS
<1>1. CASE ReadCatalog \/ CatalogFails \/ LinkHPA \/ EstimateCost \/ Output
  BY <1>1 DEF ReadCatalog, CatalogFails, Exit, LinkHPA, EstimateCost, Output, SaveMarkdown, DiffOfTheTotals,
              results
<1>2. CASE OutputDiff \/ CreateDiff \/ EncodeDiff \/ Done \/ UNCHANGED vars
  BY <1>2 DEF OutputDiff, SaveMarkdown, CreateDiff, EncodeDiff, Done, DiffOfTheTotals, vars, results
<1>3. ASSUME NEW d \in todo, LoadObject(d) PROVE DiffOfTheTotals'
  BY <1>3 DEF LoadObject, SkipObject, LoadHPA, LoadScalable, LoadDaemonSet, LoadVolumeClaim,
              DecodeFails, ReadFails, Takes, Loaded, Exit, DiffOfTheTotals, results
<1> QED
  BY <1>1, <1>2, <1>3 DEF Next
\* What is compared are numbers.
TotalsOK ==
  /\ DOMAIN cost = Paths
  /\ path = "k8s-prev" => cost["k8s"] \in [Columns -> Int]
  /\ pc = "output" => cost[path] \in [Columns -> Int]
  /\ diff # Nil => \A p \in Paths : cost[p] \in [Columns -> Int]

\* Both totals are there, and are numbers, when they are compared.
LEMMA NextKeepsTotals == 
  IInv /\ LoaderInv /\ DiffOfTheTotals /\ TotalsOK /\ [Next]_vars => TotalsOK'
<1> SUFFICES ASSUME IInv, LoaderInv, DiffOfTheTotals, TotalsOK, [Next]_vars PROVE TotalsOK'
  OBVIOUS
<1>1. CASE EstimateCost
  <2>1. MonthlyTotal \in [Columns -> Int] /\ path \in Paths /\ diff = Nil
    BY <1>1, MonthlyTotalInParts
       DEF EstimateCost, LoaderInv, ObjectsAreOfDocuments, IInv, TypeOK, DiffOfTheTotals
  <2>2. DOMAIN cost' = Paths /\ diff' = Nil /\ cost'[path] \in [Columns -> Int]
        /\ \A p \in Paths : p # path => cost'[p] = cost[p]
    BY <1>1, <2>1 DEF EstimateCost, TotalsOK
  <2>3. CASE path = "k8s" /\ folder["k8s-prev"] # Nil
    BY <1>1, <2>2, <2>3 DEF EstimateCost, TotalsOK
  <2>4. CASE ~(path = "k8s" /\ folder["k8s-prev"] # Nil)
    <3>1. path' = path /\ path \in {"k8s", "k8s-prev"}
      BY <1>1, <2>1, <2>4 DEF EstimateCost, Paths
    <3>2. path = "k8s-prev" => cost'["k8s"] \in [Columns -> Int]
      BY <2>2 DEF TotalsOK, Paths
    <3> QED
      BY <2>2, <3>1, <3>2 DEF TotalsOK
  <2> QED
    BY <2>3, <2>4
<1>2. CASE OutputDiff
  <2>1. cost' = cost /\ path' = path /\ pc' # "output" /\ path = "k8s-prev" /\ pc = "output"
    BY <1>2 DEF OutputDiff, SaveMarkdown
  <2>2. \A p \in Paths : cost[p] \in [Columns -> Int]
    BY <2>1 DEF TotalsOK, Paths
  <2> QED
    BY <2>1, <2>2 DEF TotalsOK
<1>3. CASE Output \/ CreateDiff \/ EncodeDiff \/ Done \/ UNCHANGED vars
  BY <1>3 DEF Output, SaveMarkdown, CreateDiff, EncodeDiff, Done, vars, input, results, TotalsOK
<1>4. CASE ReadCatalog \/ CatalogFails \/ LinkHPA
  BY <1>4 DEF ReadCatalog, CatalogFails, Exit, LinkHPA, results, TotalsOK
<1>5. ASSUME NEW d \in todo, LoadObject(d) PROVE TotalsOK'
  <2>1. UNCHANGED <<cost, diff, path>> /\ pc' # "output"
    BY <1>5 DEF LoadObject, SkipObject, LoadHPA, LoadScalable, LoadDaemonSet, LoadVolumeClaim,
                DecodeFails, ReadFails, Takes, Loaded, Exit, input, results
  <2> QED
    BY <2>1 DEF TotalsOK
<1> QED
  BY <1>1, <1>2, <1>3, <1>4, <1>5 DEF Next

\* The summary of a run names exactly the columns that rose and fell from the previous
\* folder to the present one.
THEOREM SummaryTellsIt == Spec => []SummaryTellsTheTruth
<1>1. Init => DiffOfTheTotals /\ TotalsOK
  BY DEF Init, DiffOfTheTotals, TotalsOK, Paths
<1>2. DiffOfTheTotals /\ TotalsOK => SummaryTellsTheTruth
  <2> SUFFICES ASSUME DiffOfTheTotals, TotalsOK, diff # Nil,
                      \A c \in Columns : cost["k8s"][c] >= 0
               PROVE  /\ Increased(diff) = {c \in Columns : cost["k8s"][c] > cost["k8s-prev"][c]}
                      /\ Decreased(diff) = {c \in Columns : cost["k8s"][c] < cost["k8s-prev"][c]}
    BY DEF SummaryTellsTheTruth
  <2>1. cost["k8s"] \in [Columns -> Int] /\ cost["k8s-prev"] \in [Columns -> Int]
    BY DEF TotalsOK, Paths
  <2>2. cost["k8s"] \in [Columns -> Nat]
    BY <2>1
  <2>3. diff = SubtractRanges(cost["k8s"], cost["k8s-prev"])
    BY DEF DiffOfTheTotals
  <2> QED
    BY <2>1, <2>2, <2>3, SummaryIsTruthful
<1> QED
  BY <1>1, <1>2, InitIInv, NextKeepsIInv, InitLoader, NextKeepsLoader, NextKeepsDiff,
     NextKeepsTotals, PTL DEF Spec

------------------------------------------------------------------------------
(* The columns.                                                              *)

\* Multiplication by a natural number is monotonic.
LEMMA MonotonicProduct ==
  ASSUME NEW a \in Nat, NEW b \in Nat, NEW r \in Nat, a <= b
  PROVE  a * r \in Nat /\ b * r \in Nat /\ a * r <= b * r
<1>1. b = a + (b - a) /\ b - a \in Nat
  OBVIOUS
<1>2. b * r = a * r + (b - a) * r /\ a * r \in Nat /\ (b - a) * r \in Nat
  BY <1>1
<1>3. QED
  BY <1>2

\* The columns of x are ordered as their names say; those that depend on the numbers of
\* replicas and on the target utilisation of the HPAs, if these are in order.
Ordered(x, replicasInOrder, targetsInOrder) ==
  /\ x.MinRequested <= x.MinLimited
  /\ x.MaxRequested <= x.MaxLimited
  /\ replicasInOrder => x.MinRequested <= x.MaxRequested /\ x.MinLimited <= x.MaxLimited
  /\ targetsInOrder => x.MinRequested <= x.HPABuffer

ReplicasInOrder(S) ==
  \A h \in {d \in S : d.kind = HPAKind} : OrDefault(h.minReplicas, 1) <= h.maxReplicas

TargetsInOrder(S) == \A h \in {d \in S : d.kind = HPAKind} : TargetCPU(h.metrics) <= 100

\* Sums keep the order of two columns, ...
LEMMA SumOfColumn ==
  ASSUME NEW r, AreRanges(r), NEW a \in Columns, NEW b \in Columns,
         \A i \in DOMAIN r : r[i][a] <= r[i][b]
  PROVE  SumRanges(r)[a] <= SumRanges(r)[b]
<1> DEFINE I == DOMAIN r
           f == [i \in I |-> r[i][a]]
           g == [i \in I |-> r[i][b]]
<1>1. IsFiniteSet(I) /\ \A i \in I : f[i] = r[i][a] /\ g[i] = r[i][b]
                                     /\ f[i] \in Int /\ g[i] \in Int /\ f[i] <= g[i]
  BY DEF AreRanges, IsRange
<1> HIDE DEF f, g
<1>2. SumRanges(r)[a] = SumFunctionOnSet(f, I) /\ SumRanges(r)[b] = SumFunctionOnSet(g, I)
  BY <1>1, SumRangesColumn
<1>3. SumFunctionOnSet(f, I) <= SumFunctionOnSet(g, I)
  <2> HIDE DEF I
  <2> QED
    BY <1>1, SumMonotone
<1> QED
  BY <1>2, <1>3

\* ... hence of all of them, ...
LEMMA SumKeepsOrder ==
  ASSUME NEW r, AreRanges(r), NEW R \in BOOLEAN, NEW T \in BOOLEAN,
         \A i \in DOMAIN r : Ordered(r[i], R, T)
  PROVE  Ordered(SumRanges(r), R, T)
<1>1. /\ SumRanges(r)["MinRequested"] <= SumRanges(r)["MinLimited"]
      /\ SumRanges(r)["MaxRequested"] <= SumRanges(r)["MaxLimited"]
  BY SumOfColumn DEF Ordered, Columns
<1>2. ASSUME R
      PROVE  /\ SumRanges(r)["MinRequested"] <= SumRanges(r)["MaxRequested"]
             /\ SumRanges(r)["MinLimited"] <= SumRanges(r)["MaxLimited"]
  BY <1>2, SumOfColumn DEF Ordered, Columns
<1>3. ASSUME T
      PROVE  SumRanges(r)["MinRequested"] <= SumRanges(r)["HPABuffer"]
  BY <1>3, SumOfColumn DEF Ordered, Columns
<1> QED
  BY <1>1, <1>2, <1>3 DEF Ordered

\* ... and so do sums of two.
LEMMA AddKeepsOrder ==
  ASSUME NEW x, NEW y, IsRange(x), IsRange(y), NEW R \in BOOLEAN, NEW T \in BOOLEAN,
         Ordered(x, R, T), Ordered(y, R, T)
  PROVE  Ordered(AddRanges(x, y), R, T) /\ IsRange(AddRanges(x, y))
<1>1. \A c \in Columns : AddRanges(x, y)[c] = x[c] + y[c] /\ x[c] \in Int /\ y[c] \in Int
  BY DEF AddRanges, IsRange
<1> QED
  BY <1>1 DEF Ordered, Columns, IsRange

\* One object's range is ordered the way its column names say, whatever its requests,
\* limits and numbers of Pods: the correction of postProcessCost is made on each of the
\* two limit columns.
THEOREM RangeOrdered ==
  ASSUME NEW containers, Requested(containers) \in Nat, Limited(containers) \in Nat,
         NEW minimum \in Nat, NEW buffered \in Int, NEW maximum \in Nat
  PROVE  Ordered(PodsRange(containers, minimum, buffered, maximum),
                 minimum <= maximum, minimum <= buffered)
<1> DEFINE req == Requested(containers)
           lim == Limited(containers)
           range == PodsRange(containers, minimum, buffered, maximum)
<1>1. /\ minimum * req \in Int /\ buffered * req \in Int /\ maximum * req \in Int
      /\ minimum * lim \in Int /\ maximum * lim \in Int
  OBVIOUS
<1>2. /\ range.MinRequested = minimum * req
      /\ range.HPABuffer = buffered * req
      /\ range.MaxRequested = maximum * req
      /\ range.MinLimited = IF minimum * lim < minimum * req THEN minimum * req ELSE minimum * lim
      /\ range.MaxLimited = IF maximum * lim < maximum * req THEN maximum * req ELSE maximum * lim
  BY DEF PodsRange, postProcessCost
<1>3. minimum <= maximum => minimum * req <= maximum * req /\ minimum * lim <= maximum * lim
  BY MonotonicProduct
<1>4. minimum <= buffered => minimum * req <= buffered * req
  <2> SUFFICES ASSUME minimum <= buffered PROVE minimum * req <= buffered * req
    OBVIOUS
  <2>1. buffered \in Nat
    OBVIOUS
  <2> QED
    BY <2>1, MonotonicProduct
<1> HIDE DEF range, req, lim
<1>5. Ordered(range, minimum <= maximum, minimum <= buffered)
  BY <1>1, <1>2, <1>3, <1>4 DEF Ordered
<1> QED
  BY <1>5 DEF range

\* What is ordered under weaker conditions is so under stronger ones.
LEMMA OrderedWeaker ==
  ASSUME NEW x, NEW R, NEW T, Ordered(x, R, T), NEW Q, NEW U, Q => R, U => T
  PROVE  Ordered(x, Q, U)
BY DEF Ordered

\* The range of a scalable object whose HPA, if any, is of the folder, ...
LEMMA ScalableCostOrdered ==
  ASSUME NEW S \in SUBSET Documents, NEW s \in ScalableObjects,
         s.hpa # Nil => \E h \in S : h.kind = HPAKind /\ s.hpa = buildHPA(h)
  PROVE  Ordered(scalableCost(s), ReplicasInOrder(S), TargetsInOrder(S))
<1>1. PICK d \in Workloads : s.containers = buildContainers(d)
  BY DEF ScalableObjects
<1>2. Requested(s.containers) \in Nat /\ Limited(s.containers) \in Nat
  BY <1>1, ContainersNumbers, NoNegativeAmounts DEF Workloads
<1>3. CASE s.hpa = Nil
  <2>1. PICK e \in Workloads : s.replicas = OrDefault(e.replicas, 1)
    BY DEF ScalableObjects
  <2>2. e.replicas \in Nat \cup {Nil}
    BY NoNegativeAmounts DEF AmountsIn, Workloads
  <2>3. s.replicas \in Nat
    BY <2>1, <2>2 DEF OrDefault
  <2> DEFINE n == 100 * s.replicas
  <2>4. n \in Nat
    BY <2>3
  <2>5. scalableCost(s) = PodsRange(s.containers, n, n, n)
    BY <1>3 DEF scalableCost
  <2> HIDE DEF n
  <2>6. Ordered(scalableCost(s), n <= n, n <= n)
    BY <1>2, <2>4, <2>5, RangeOrdered
  <2>7. n <= n
    BY <2>4
  <2> QED
    BY <2>6, <2>7, OrderedWeaker
<1>4. CASE s.hpa # Nil
  <2>1. PICK h \in S : h.kind = HPAKind /\ s.hpa = buildHPA(h)
    BY <1>4
  <2> DEFINE low == s.hpa.minReplicas
             high == s.hpa.maxReplicas
             target == s.hpa.targetCPU
             minimum == 100 * low
             buffered == low * (IF target > 0 THEN 100 + (100 - target) ELSE 100)
             maximum == 100 * high
  <2>2. /\ low \in Nat /\ high \in Nat /\ target \in Int
        /\ low = OrDefault(h.minReplicas, 1) /\ high = h.maxReplicas
        /\ target = TargetCPU(h.metrics)
    BY <2>1, HPANumbers, NoNegativeAmounts
  <2>3. ReplicasInOrder(S) => low <= high
    BY <2>1, <2>2 DEF ReplicasInOrder
  <2>4. TargetsInOrder(S) => target <= 100
    BY <2>1, <2>2 DEF TargetsInOrder
  <2>5. scalableCost(s) = PodsRange(s.containers, minimum, buffered, maximum)
    BY <1>4 DEF scalableCost
  <2> HIDE DEF low, high, target
  <2>6. minimum \in Nat /\ buffered \in Int /\ maximum \in Nat
    BY <2>2
  <2>7. ReplicasInOrder(S) => minimum <= maximum
    BY <2>2, <2>3
  <2>8. TargetsInOrder(S) => minimum <= buffered
    <3> SUFFICES ASSUME TargetsInOrder(S) PROVE minimum <= buffered
      OBVIOUS
    <3> DEFINE percent == IF target > 0 THEN 100 + (100 - target) ELSE 100
    <3>1. percent \in Nat /\ 100 <= percent
      BY <2>2, <2>4
    <3> HIDE DEF percent
    <3>2. 100 * low <= percent * low /\ percent * low = low * percent
      BY <2>2, <3>1, MonotonicProduct
    <3> QED
      BY <3>2 DEF percent
  <2> HIDE DEF minimum, buffered, maximum
  <2>9. Ordered(scalableCost(s), minimum <= maximum, minimum <= buffered)
    BY <1>2, <2>5, <2>6, RangeOrdered
  <2> QED
    BY <2>7, <2>8, <2>9, OrderedWeaker
<1> QED
  BY <1>3, <1>4

\* ... of a DaemonSet ...
LEMMA DaemonSetCostOrdered ==
  ASSUME NEW ds \in DaemonSetObjects, NEW R, NEW T
  PROVE  Ordered(daemonSetCost(ds), R, T)
<1>1. PICK d \in Documents : d.kind = "DaemonSet" /\ ds = buildDaemonSet(d)
  BY DEF DaemonSetObjects
<1>2. Requested(buildContainers(d)) \in Nat /\ Limited(buildContainers(d)) \in Nat
  BY <1>1, ContainersNumbers, NoNegativeAmounts
<1>3. populateConfigNotProvided(Conf).nodes \in Nat
  BY ConfigNumbers, NoNegativeAmounts
<1> DEFINE n == 100 * populateConfigNotProvided(Conf).nodes
<1>4. daemonSetCost(ds) = PodsRange(buildContainers(d), n, n, n)
  BY <1>1 DEF daemonSetCost, buildDaemonSet
<1>5. n \in Nat /\ n <= n
  BY <1>3
<1> HIDE DEF n
<1>6. Ordered(daemonSetCost(ds), n <= n, n <= n)
  BY <1>2, <1>4, <1>5, RangeOrdered
<1> QED
  BY <1>5, <1>6, OrderedWeaker

\* ... and of a claim is ordered.
LEMMA VolumeClaimCostOrdered ==
  ASSUME NEW v \in Volumes, NEW R, NEW T
  PROVE  Ordered(volumeClaimCost(v), R, T)
<1>1. StoragePrice \in Int /\ v.requests \in Int /\ v.limits \in Int
  BY GoTypes DEF AmountsIn, Volumes
<1> DEFINE r == 100 * StoragePrice * v.requests
           l == 100 * StoragePrice * v.limits
           range == volumeClaimCost(v)
<1>2. r \in Int /\ l \in Int
  BY <1>1
<1>3. /\ range.MinRequested = r
      /\ range.HPABuffer = r
      /\ range.MaxRequested = r
      /\ range.MinLimited = IF l < r THEN r ELSE l
      /\ range.MaxLimited = IF l < r THEN r ELSE l
  BY DEF volumeClaimCost, postProcessCost, Columns
<1> HIDE DEF r, l, range
<1>4. Ordered(range, R, T)
  BY <1>2, <1>3 DEF Ordered
<1> QED
  BY <1>4 DEF range

\* Hence the total is.
LEMMA TotalIsOrdered ==
  ASSUME TypeOK, ListsOK, HPAsAreLinked
  PROVE  Ordered(MonthlyTotal, ReplicasInOrder(folder[path]), TargetsInOrder(folder[path]))
<1> DEFINE S == folder[path]
           R == ReplicasInOrder(S)
           T == TargetsInOrder(S)
           p == [i \in DOMAIN scalables |-> scalableCost(scalables[i])]
           q == [i \in DOMAIN daemonSets |-> daemonSetCost(daemonSets[i])]
           r == [i \in DOMAIN claims |-> volumeClaimCost(claims[i])]
<1>1. S \in SUBSET Documents /\ Read \subseteq S
  BY FolderFacts
<1>2. R \in BOOLEAN /\ T \in BOOLEAN
  BY DEF ReplicasInOrder, TargetsInOrder
<1>3. /\ scalables \in Seq(ScalableObjects) /\ daemonSets \in Seq(DaemonSetObjects)
      /\ claims \in Seq(Volumes)
  BY DEF ListsOK
<1>4. AreRanges(p) /\ AreRanges(q) /\ AreRanges(r)
  BY <1>3, HeldRanges, DaemonSetRanges, ClaimsCostIsRange
<1>5. /\ DOMAIN scalables = 1..Len(scalables) /\ DOMAIN daemonSets = 1..Len(daemonSets)
      /\ DOMAIN claims = 1..Len(claims)
  BY <1>3
<1>6. ASSUME NEW i \in DOMAIN scalables PROVE Ordered(p[i], R, T)
  <2>1. scalables[i] \in ScalableObjects
    BY <1>3, <1>5, ElementOf
  <2>2. scalables[i].hpa # Nil => \E h \in S : h.kind = HPAKind /\ scalables[i].hpa = buildHPA(h)
    BY <1>1, <1>5 DEF HPAsAreLinked
  <2> QED
    BY <1>1, <2>1, <2>2, ScalableCostOrdered
<1>7. ASSUME NEW i \in DOMAIN daemonSets PROVE Ordered(q[i], R, T)
  BY <1>3, <1>5, ElementOf, DaemonSetCostOrdered
<1>8. ASSUME NEW i \in DOMAIN claims PROVE Ordered(r[i], R, T)
  BY <1>3, <1>5, ElementOf, VolumeClaimCostOrdered
<1>9. /\ HeldCost = SumRanges(p) /\ DaemonSetsCost(daemonSets) = SumRanges(q)
      /\ ClaimsCost(claims) = SumRanges(r)
      /\ DOMAIN p = DOMAIN scalables /\ DOMAIN q = DOMAIN daemonSets /\ DOMAIN r = DOMAIN claims
  BY DEF HeldCost, DaemonSetsCost, ClaimsCost
<1>10. MonthlyTotal = AddRanges(AddRanges(HeldCost, DaemonSetsCost(daemonSets)), ClaimsCost(claims))
  BY MonthlyTotalInParts
<1> HIDE DEF p, q, r, R, T
<1>11. /\ Ordered(SumRanges(p), R, T) /\ Ordered(SumRanges(q), R, T) /\ Ordered(SumRanges(r), R, T)
       /\ IsRange(SumRanges(p)) /\ IsRange(SumRanges(q)) /\ IsRange(SumRanges(r))
  <2>1. IsRange(SumRanges(p)) /\ IsRange(SumRanges(q)) /\ IsRange(SumRanges(r))
    BY <1>4, SumRangesIsRange DEF IsRange
  <2> QED
    BY <1>2, <1>4, <1>6, <1>7, <1>8, <1>9, <2>1, SumKeepsOrder
<1>12. Ordered(MonthlyTotal, R, T)
  BY <1>2, <1>9, <1>10, <1>11, AddKeepsOrder
<1> QED
  BY <1>12 DEF R, T

\* Only EstimateCost makes a total, and it makes an ordered one.
LEMMA NextKeepsColumns ==
  IInv /\ LoaderInv /\ ColumnsOrdered /\ [Next]_vars => ColumnsOrdered'
<1> DEFINE Fine(p, c) ==
             c[p] # Nil => Ordered(c[p], ReplicasInOrder(folder[p]), TargetsInOrder(folder[p]))
<1> SUFFICES ASSUME IInv, LoaderInv, ColumnsOrdered, [Next]_vars PROVE ColumnsOrdered'
  OBVIOUS
<1>1. folder' = folder
  BY TotalsChange
<1>2. \A p \in Paths : Fine(p, cost)
  BY DEF ColumnsOrdered, Ordered, ReplicasInOrder, TargetsInOrder, HPAsOf
<1>3. (\A p \in Paths : Fine(p, cost')) => ColumnsOrdered'
  BY <1>1 DEF ColumnsOrdered, Ordered, ReplicasInOrder, TargetsInOrder, HPAsOf
<1>4. ASSUME NEW p \in Paths PROVE Fine(p, cost')
  <2>1. CASE cost'[p] = cost[p]
    BY <1>2, <2>1
  <2>2. CASE EstimateCost /\ cost' = [cost EXCEPT ![path] = MonthlyTotal] /\ cost'[p] # cost[p]
    <3>1. p = path /\ cost'[p] = MonthlyTotal
      BY <2>2
    <3>2. TypeOK /\ ListsOK /\ HPAsAreLinked
      BY <2>2 DEF EstimateCost, LoaderInv, IInv, ObjectsAreOfDocuments
    <3> QED
      BY <3>1, <3>2, TotalIsOrdered
  <2> QED
    BY <2>1, <2>2, TotalsChange
<1> HIDE DEF Fine
<1> QED
  BY <1>3, <1>4

\* The columns of every total are ordered as their names say (schema.go, postProcessCost),
\* those of the HPAs on condition that minReplicas, maxReplicas and targets are in order.
THEOREM ColumnsAreOrdered == Spec => []ColumnsOrdered
<1>1. Init => ColumnsOrdered
  BY DEF Init, ColumnsOrdered
<1> QED
  BY <1>1, InitIInv, NextKeepsIInv, InitLoader, NextKeepsLoader, NextKeepsColumns, PTL DEF Spec
==============================================================================
