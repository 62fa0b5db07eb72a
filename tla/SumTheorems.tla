---------------------------- MODULE SumTheorems ----------------------------
(***************************************************************************)
(* Sums over finite sets, for any finite set and any summands: what        *)
(* SumFunctionOnSet of the community modules comes to. A finite set has no *)
(* infinite descent, which gives an induction that needs no operator as a  *)
(* parameter.                                                              *)
(***************************************************************************)
EXTENDS Integers, FiniteSets, Functions, FiniteSetTheorems, TLAPS

(* The element a fold takes first.                                         *)
Pick(s) == CHOOSE x \in s : TRUE

(* The function a fold is the value of: the sums over the parts of S.      *)
PartialSums(f, S, g) ==
  g = [s \in SUBSET S |-> IF s = {} THEN 0 ELSE f[Pick(s)] + g[s \ {Pick(s)}]]

LEMMA PickIsIn == \A s : s # {} => Pick(s) \in s
BY DEF Pick

LEMMA PartialSumsAt ==
  ASSUME NEW f, NEW S, NEW g, PartialSums(f, S, g), NEW s \in SUBSET S
  PROVE  g[s] = IF s = {} THEN 0 ELSE f[Pick(s)] + g[s \ {Pick(s)}]
BY DEF PartialSums

(* A set of parts of a finite set has a smallest member.                   *)
LEMMA LeastSet ==
  ASSUME NEW S, IsFiniteSet(S), NEW P, P \in SUBSET SUBSET S, P # {}
  PROVE  \E D \in P : \A x \in D : D \ {x} \notin P
<1>1. IsWellFoundedOn(StrictSubsetOrdering(S), FiniteSubsetsOf(S))
  BY FS_StrictSubsetOrderingWellFounded
<1>2. FiniteSubsetsOf(S) = SUBSET S
  BY FS_FiniteSubsetsOfFinite
<1>3. PICK D \in P : \A E \in P : <<E, D>> \notin StrictSubsetOrdering(S)
  BY <1>1, <1>2, WFMin
<1>4. ASSUME NEW x \in D PROVE D \ {x} \notin P
  <2>1. <<D \ {x}, D>> \in StrictSubsetOrdering(S)
    BY <1>3 DEF StrictSubsetOrdering
  <2> QED BY <2>1, <1>3
<1> QED BY <1>3, <1>4

(* Induction on a finite set: T holds S if it holds every part of S of     *)
(* which it holds all that lack one element.                               *)
LEMMA SetInduction ==
  ASSUME NEW S, IsFiniteSet(S), NEW T,
         \A D \in SUBSET S : (\A x \in D : D \ {x} \in T) => D \in T
  PROVE  S \in T
<1> DEFINE Bad == {D \in SUBSET S : D \notin T}
<1> SUFFICES ASSUME Bad # {} PROVE FALSE
  OBVIOUS
<1>1. PICK D \in Bad : \A x \in D : D \ {x} \notin Bad
  <2>1. Bad \in SUBSET SUBSET S
    OBVIOUS
  <2> HIDE DEF Bad
  <2> QED BY <2>1, LeastSet
<1> QED BY <1>1

(* The sum of a part does not depend on the set it is taken as a part of.  *)
LEMMA PartialSumsAgree ==
  ASSUME NEW f, NEW S, IsFiniteSet(S), NEW g, PartialSums(f, S, g),
         NEW R, NEW h, PartialSums(f, R, h), NEW s, s \subseteq S, s \subseteq R
  PROVE  g[s] = h[s]
<1> DEFINE Differ == {e \in SUBSET s : g[e] # h[e]}
<1> SUFFICES ASSUME Differ # {} PROVE FALSE
  OBVIOUS
<1>1. IsFiniteSet(s)
  BY FS_Subset
<1>2. PICK D \in Differ : \A x \in D : D \ {x} \notin Differ
  <2>1. Differ \in SUBSET SUBSET s /\ Differ # {}
    OBVIOUS
  <2> HIDE DEF Differ
  <2> QED BY <2>1, <1>1, LeastSet
<1> D \in SUBSET S /\ D \in SUBSET R
  OBVIOUS
<1> HIDE DEF Differ
<1>3. g[D] = IF D = {} THEN 0 ELSE f[Pick(D)] + g[D \ {Pick(D)}]
  BY PartialSumsAt
<1>4. h[D] = IF D = {} THEN 0 ELSE f[Pick(D)] + h[D \ {Pick(D)}]
  BY PartialSumsAt
<1> USE DEF Differ
<1>5. CASE D = {}
  BY <1>3, <1>4, <1>5, <1>2
<1>6. CASE D # {}
  <2>1. Pick(D) \in D
    BY <1>6, PickIsIn
  <2>2. g[D \ {Pick(D)}] = h[D \ {Pick(D)}]
    BY <2>1, <1>2
  <2> QED BY <2>2, <1>3, <1>4, <1>2
<1> QED BY <1>5, <1>6

(* On a finite set the recursion has a solution: SumFunctionOnSet chooses  *)
(* one.                                                                    *)
LEMMA PartialSumsExist ==
  ASSUME NEW f, NEW S, IsFiniteSet(S)
  PROVE  \E g : PartialSums(f, S, g)
<1> DEFINE Lacking == {D \in SUBSET S : ~ \E g : PartialSums(f, D, g)}
<1> SUFFICES ASSUME Lacking # {} PROVE FALSE
  OBVIOUS
<1> DEFINE V(e) == (CHOOSE g : PartialSums(f, e, g))[e]
<1>1. PICK D \in Lacking : \A E \in Lacking : <<E, D>> \notin StrictSubsetOrdering(S)
  <2>1. Lacking \subseteq FiniteSubsetsOf(S)
    BY FS_FiniteSubsetsOfFinite
  <2> HIDE DEF Lacking
  <2> QED BY <2>1, WFMin, FS_StrictSubsetOrderingWellFounded
<1>2. ASSUME NEW E \in SUBSET D, E # D PROVE PartialSums(f, E, CHOOSE g : PartialSums(f, E, g))
  <2>1. <<E, D>> \in StrictSubsetOrdering(S)
    BY <1>2 DEF StrictSubsetOrdering
  <2>2. \E g : PartialSums(f, E, g)
    BY <1>1, <2>1
  <2> QED BY <2>2
<1> DEFINE h == [s \in SUBSET D |-> IF s = {} THEN 0 ELSE f[Pick(s)] + V(s \ {Pick(s)})]
<1>3. ASSUME NEW E \in SUBSET D, E # D PROVE h[E] = V(E)
  <2> DEFINE g == CHOOSE g : PartialSums(f, E, g)
  <2>1. PartialSums(f, E, g)
    BY <1>2, <1>3
  <2>2. V(E) = IF E = {} THEN 0 ELSE f[Pick(E)] + g[E \ {Pick(E)}]
    BY <2>1, PartialSumsAt
  <2>3. h[E] = IF E = {} THEN 0 ELSE f[Pick(E)] + V(E \ {Pick(E)})
    OBVIOUS
  <2>4. CASE E = {}
    BY <2>2, <2>3, <2>4
  <2>5. CASE E # {}
    <3> DEFINE e == E \ {Pick(E)}
    <3>1. e \in SUBSET D /\ e # D /\ e \subseteq E
      BY <2>5, PickIsIn
    <3>2. PartialSums(f, e, CHOOSE k : PartialSums(f, e, k))
      BY <3>1, <1>2
    <3>3. IsFiniteSet(E) /\ IsFiniteSet(e)
      BY FS_Subset, <3>1
    <3>4. g[e] = V(e)
      <4> HIDE DEF g, e
      <4> QED BY <3>1, <3>2, <3>3, <2>1, PartialSumsAgree
    <3> QED BY <2>2, <2>3, <2>5, <3>4
  <2> QED BY <2>4, <2>5
<1>4. PartialSums(f, D, h)
  <2>1. ASSUME NEW s \in SUBSET D, s # {} PROVE h[s \ {Pick(s)}] = V(s \ {Pick(s)})
    <3>1. s \ {Pick(s)} \in SUBSET D /\ s \ {Pick(s)} # D
      BY <2>1, PickIsIn
    <3> HIDE DEF V, h
    <3> QED BY <3>1, <1>3
  <2>2. h = [s \in SUBSET D |-> IF s = {} THEN 0 ELSE f[Pick(s)] + h[s \ {Pick(s)}]]
    <3> DEFINE k == [s \in SUBSET D |-> IF s = {} THEN 0 ELSE f[Pick(s)] + h[s \ {Pick(s)}]]
    <3>1. \A s \in SUBSET D : h[s] = k[s]
      <4> HIDE DEF V
      <4> QED BY <2>1
    <3> HIDE DEF V
    <3> QED BY <3>1
  <2> HIDE DEF h
  <2> QED BY <2>2 DEF PartialSums
<1> HIDE DEF h
<1> QED BY <1>1, <1>4

(* SumFunctionOnSet is that solution.                                      *)
LEMMA SumsArePartialSums ==
  ASSUME NEW f, NEW S, IsFiniteSet(S), NEW g, PartialSums(f, S, g), NEW D \in SUBSET S
  PROVE  SumFunctionOnSet(f, D) = g[D]
<1>1. IsFiniteSet(D)
  BY FS_Subset
<1> DEFINE k == CHOOSE k : PartialSums(f, D, k)
<1>2. PartialSums(f, D, k)
  BY <1>1, PartialSumsExist
<1>3. SumFunctionOnSet(f, D) = k[D]
  BY DEF SumFunctionOnSet, FoldFunctionOnSet, MapThenFoldSet, PartialSums, Pick
<1> HIDE DEF k
<1> QED BY <1>1, <1>2, <1>3, PartialSumsAgree

(* Nothing comes to nothing.                                               *)
LEMMA SumOfNone ==
  ASSUME NEW f PROVE SumFunctionOnSet(f, {}) = 0
<1>1. IsFiniteSet({})
  BY FS_EmptySet
<1>2. PICK g : PartialSums(f, {}, g)
  BY <1>1, PartialSumsExist
<1> QED BY <1>1, <1>2, PartialSumsAt, SumsArePartialSums

(* Whole numbers come to a whole number, natural ones to a natural one.    *)
LEMMA SumTypes ==
  ASSUME NEW f, NEW S, IsFiniteSet(S), NEW N, N \in {Nat, Int}, \A i \in S : f[i] \in N
  PROVE  SumFunctionOnSet(f, S) \in N
<1>1. PICK g : PartialSums(f, S, g)
  BY PartialSumsExist
<1> DEFINE T == {D \in SUBSET S : g[D] \in N}
<1>2. ASSUME NEW D \in SUBSET S, \A x \in D : D \ {x} \in T
      PROVE  D \in T
  <2>1. CASE D = {}
    <3>1. g[D] = 0
      BY <1>1, <2>1, PartialSumsAt
    <3> QED BY <3>1
  <2>2. CASE D # {}
    <3>1. Pick(D) \in D /\ g[D] = f[Pick(D)] + g[D \ {Pick(D)}]
      BY <1>1, <2>2, PartialSumsAt, PickIsIn
    <3>2. f[Pick(D)] \in N /\ g[D \ {Pick(D)}] \in N
      BY <1>2, <3>1
    <3> QED BY <3>1, <3>2
  <2> QED BY <2>1, <2>2
<1>3. S \in T
  <2>1. \A D \in SUBSET S : (\A y \in D : D \ {y} \in T) => D \in T
    BY <1>2
  <2> HIDE DEF T
  <2> QED BY <2>1, SetInduction, Zenon
<1> QED BY <1>1, <1>3, SumsArePartialSums

(* Any element may be taken first, not only the one the fold takes.        *)
LEMMA SumStep ==
  ASSUME NEW f, NEW S, IsFiniteSet(S), \A i \in S : f[i] \in Int, NEW x \in S
  PROVE  SumFunctionOnSet(f, S) = f[x] + SumFunctionOnSet(f, S \ {x})
<1>1. PICK g : PartialSums(f, S, g)
  BY PartialSumsExist
<1> DEFINE T == {D \in SUBSET S : \A y \in D : g[D] = f[y] + g[D \ {y}]}
<1>2. ASSUME NEW D \in SUBSET S PROVE g[D] \in Int /\ g[D] = SumFunctionOnSet(f, D)
  <2>1. IsFiniteSet(D)
    BY FS_Subset
  <2>2. g[D] = SumFunctionOnSet(f, D)
    BY <1>1, SumsArePartialSums
  <2>3. Int \in {Nat, Int} /\ \A i \in D : f[i] \in Int
    OBVIOUS
  <2>4. SumFunctionOnSet(f, D) \in Int
    BY <2>1, <2>3, SumTypes
  <2> QED BY <2>2, <2>4
<1>3. ASSUME NEW D \in SUBSET S, \A y \in D : D \ {y} \in T
      PROVE  D \in T
  <2> SUFFICES ASSUME NEW y \in D PROVE g[D] = f[y] + g[D \ {y}]
    OBVIOUS
  <2>1. Pick(D) \in D /\ g[D] = f[Pick(D)] + g[D \ {Pick(D)}]
    BY <1>1, PartialSumsAt, PickIsIn
  <2>2. CASE y = Pick(D)
    BY <2>1, <2>2
  <2>3. CASE y # Pick(D)
    <3> DEFINE p == Pick(D)  C == D \ {p, y}
    <3>1. (D \ {p}) \ {y} = C /\ (D \ {y}) \ {p} = C
      OBVIOUS
    <3>2. D \ {p} \in T /\ D \ {y} \in T /\ y \in D \ {p} /\ p \in D \ {y}
      BY <1>3, <2>1, <2>3
    <3>3. g[D \ {p}] = f[y] + g[C] /\ g[D \ {y}] = f[p] + g[C]
      BY <3>1, <3>2
    <3>4. f[p] \in Int /\ f[y] \in Int /\ g[C] \in Int
      BY <1>2, <2>1
    <3> HIDE DEF C, p
    <3> QED BY <2>1, <3>3, <3>4 DEF p
  <2> QED BY <2>2, <2>3
<1>4. S \in T
  <2>1. \A D \in SUBSET S : (\A y \in D : D \ {y} \in T) => D \in T
    BY <1>3
  <2> HIDE DEF T
  <2> QED BY <2>1, SetInduction, Zenon
<1> QED BY <1>2, <1>4

(* Equal summands, equal sums.                                             *)
LEMMA SumSame ==
  ASSUME NEW f, NEW h, NEW S, IsFiniteSet(S), \A i \in S : f[i] \in Int /\ h[i] = f[i]
  PROVE  SumFunctionOnSet(f, S) = SumFunctionOnSet(h, S)
<1> DEFINE T == {D \in SUBSET S : SumFunctionOnSet(f, D) = SumFunctionOnSet(h, D)}
<1>1. ASSUME NEW D \in SUBSET S, \A y \in D : D \ {y} \in T
      PROVE  D \in T
  <2>1. CASE D = {}
    BY <2>1, SumOfNone
  <2>2. CASE D # {}
    <3>1. PICK y \in D : TRUE
      BY <2>2
    <3>2. IsFiniteSet(D)
      BY FS_Subset
    <3>3. SumFunctionOnSet(f, D) = f[y] + SumFunctionOnSet(f, D \ {y})
      BY <3>1, <3>2, SumStep
    <3>4. SumFunctionOnSet(h, D) = h[y] + SumFunctionOnSet(h, D \ {y})
      BY <3>1, <3>2, SumStep
    <3> QED BY <3>3, <3>4, <1>1
  <2> QED BY <2>1, <2>2
<1> HIDE DEF T
<1>2. S \in T
  <2>1. \A D \in SUBSET S : (\A y \in D : D \ {y} \in T) => D \in T
    BY <1>1
  <2> QED BY <2>1, SetInduction, Zenon
<1> QED BY <1>2 DEF T

(* The sum over two sets without a common element.                         *)
LEMMA SumOfTwo ==
  ASSUME NEW f, NEW A, NEW B, IsFiniteSet(A), IsFiniteSet(B), A \cap B = {},
         \A i \in A \cup B : f[i] \in Int
  PROVE  SumFunctionOnSet(f, A \cup B) = SumFunctionOnSet(f, A) + SumFunctionOnSet(f, B)
<1> DEFINE T == {D \in SUBSET B :
                   SumFunctionOnSet(f, A \cup D) = SumFunctionOnSet(f, A) + SumFunctionOnSet(f, D)}
<1>1. SumFunctionOnSet(f, A) \in Int
  BY SumTypes
<1>2. ASSUME NEW D \in SUBSET B, \A y \in D : D \ {y} \in T
      PROVE  D \in T
  <2>1. CASE D = {}
    BY <1>1, <2>1, SumOfNone
  <2>2. CASE D # {}
    <3>1. PICK y \in D : TRUE
      BY <2>2
    <3>2. IsFiniteSet(D) /\ IsFiniteSet(D \ {y}) /\ IsFiniteSet(A \cup D)
      BY FS_Subset, FS_Union
    <3>3. SumFunctionOnSet(f, D) = f[y] + SumFunctionOnSet(f, D \ {y})
      BY <3>1, <3>2, SumStep
    <3>4. (A \cup D) \ {y} = A \cup (D \ {y})
      BY <3>1
    <3>5. SumFunctionOnSet(f, A \cup D) = f[y] + SumFunctionOnSet(f, A \cup (D \ {y}))
      BY <3>1, <3>2, <3>4, SumStep
    <3>6. SumFunctionOnSet(f, D \ {y}) \in Int /\ f[y] \in Int
      BY <3>1, <3>2, SumTypes
    <3>7. SumFunctionOnSet(f, A \cup (D \ {y})) = SumFunctionOnSet(f, A) + SumFunctionOnSet(f, D \ {y})
      BY <1>2, <3>1
    <3> QED BY <1>1, <3>3, <3>5, <3>6, <3>7
  <2> QED BY <2>1, <2>2
<1> HIDE DEF T
<1>3. B \in T
  <2>1. \A D \in SUBSET B : (\A y \in D : D \ {y} \in T) => D \in T
    BY <1>2
  <2> QED BY <2>1, SetInduction, Zenon
<1> QED BY <1>3 DEF T

(* The image of a finite set is finite.                                    *)
LEMMA ImageIsFinite ==
  ASSUME NEW D, IsFiniteSet(D), NEW h
  PROVE  IsFiniteSet({h[x] : x \in D})
<1> DEFINE g == [x \in D |-> h[x]]  E == {h[x] : x \in D}
<1>1. g \in Surjection(D, E)
  BY DEF Surjection
<1> QED BY <1>1, FS_Surjection

(* Summing over the names h[x] of the x is summing over the x.             *)
LEMMA SumOfImage ==
  ASSUME NEW f, NEW R, IsFiniteSet(R), NEW h, NEW v,
         \A x \in R : f[h[x]] = v[x] /\ v[x] \in Int,
         \A x, y \in R : h[x] = h[y] => x = y
  PROVE  SumFunctionOnSet(f, {h[x] : x \in R}) = SumFunctionOnSet(v, R)
<1> DEFINE T == {D \in SUBSET R :
                   SumFunctionOnSet(f, {h[x] : x \in D}) = SumFunctionOnSet(v, D)}
<1>1. ASSUME NEW D \in SUBSET R, \A y \in D : D \ {y} \in T
      PROVE  D \in T
  <2>1. CASE D = {}
    <3>1. {h[x] : x \in D} = {}
      BY <2>1
    <3> QED BY <3>1, <2>1, SumOfNone
  <2>2. CASE D # {}
    <3>1. PICK y \in D : TRUE
      BY <2>2
    <3>2. IsFiniteSet(D) /\ IsFiniteSet({h[x] : x \in D})
      <4>1. IsFiniteSet(D)
        BY FS_Subset
      <4>2. IsFiniteSet({h[x] : x \in D})
        BY <4>1, ImageIsFinite
      <4> QED BY <4>1, <4>2
    <3>3. {h[x] : x \in D} \ {h[y]} = {h[x] : x \in D \ {y}}
      BY <3>1
    <3>4. SumFunctionOnSet(v, D) = v[y] + SumFunctionOnSet(v, D \ {y})
      BY <3>1, <3>2, SumStep
    <3>5. SumFunctionOnSet(f, {h[x] : x \in D}) = f[h[y]] + SumFunctionOnSet(f, {h[x] : x \in D} \ {h[y]})
      BY <3>1, <3>2, SumStep
    <3> QED BY <3>1, <3>3, <3>4, <3>5, <1>1
  <2> QED BY <2>1, <2>2
<1> HIDE DEF T
<1>2. R \in T
  <2>1. \A D \in SUBSET R : (\A y \in D : D \ {y} \in T) => D \in T
    BY <1>1
  <2> QED BY <2>1, SetInduction, Zenon
<1> QED BY <1>2 DEF T

(* The negatives come to the negative.                                     *)
LEMMA SumNegated ==
  ASSUME NEW f, NEW h, NEW S, IsFiniteSet(S), \A i \in S : f[i] \in Int /\ h[i] = -f[i]
  PROVE  SumFunctionOnSet(h, S) = -SumFunctionOnSet(f, S)
<1> DEFINE T == {D \in SUBSET S : SumFunctionOnSet(h, D) = -SumFunctionOnSet(f, D)}
<1>1. ASSUME NEW D \in SUBSET S, \A y \in D : D \ {y} \in T
      PROVE  D \in T
  <2>1. CASE D = {}
    BY <2>1, SumOfNone
  <2>2. CASE D # {}
    <3>1. PICK y \in D : TRUE
      BY <2>2
    <3>2. IsFiniteSet(D) /\ IsFiniteSet(D \ {y})
      BY FS_Subset
    <3>3. SumFunctionOnSet(f, D) = f[y] + SumFunctionOnSet(f, D \ {y})
      BY <3>1, <3>2, SumStep
    <3>4. SumFunctionOnSet(h, D) = h[y] + SumFunctionOnSet(h, D \ {y})
      BY <3>1, <3>2, SumStep
    <3>5. SumFunctionOnSet(f, D \ {y}) \in Int
      BY <3>2, SumTypes
    <3>6. SumFunctionOnSet(h, D \ {y}) = -SumFunctionOnSet(f, D \ {y})
      BY <1>1, <3>1
    <3>7. f[y] \in Int /\ h[y] = -f[y]
      BY <3>1
    <3> QED BY <3>3, <3>4, <3>5, <3>6, <3>7
  <2> QED BY <2>1, <2>2
<1> HIDE DEF T
<1>2. S \in T
  <2>1. \A D \in SUBSET S : (\A y \in D : D \ {y} \in T) => D \in T
    BY <1>1
  <2> QED BY <2>1, SetInduction, Zenon
<1> QED BY <1>2 DEF T

(* Zeros come to zero.                                                     *)
LEMMA SumOfZeros ==
  ASSUME NEW f, NEW S, IsFiniteSet(S), \A i \in S : f[i] = 0
  PROVE  SumFunctionOnSet(f, S) = 0
<1>1. \A i \in S : f[i] \in Int /\ f[i] = -f[i]
  OBVIOUS
<1>2. SumFunctionOnSet(f, S) = -SumFunctionOnSet(f, S)
  BY <1>1, SumNegated
<1>3. SumFunctionOnSet(f, S) \in Int
  BY SumTypes
<1> QED BY <1>2, <1>3

(* Zeros may be left out.                                                  *)
LEMMA SumWithoutZeros ==
  ASSUME NEW f, NEW S, IsFiniteSet(S), \A i \in S : f[i] \in Int
  PROVE  SumFunctionOnSet(f, {i \in S : f[i] # 0}) = SumFunctionOnSet(f, S)
<1> DEFINE A == {i \in S : f[i] # 0}  Z == {i \in S : f[i] = 0}
<1>1. IsFiniteSet(A) /\ IsFiniteSet(Z)
  BY FS_Subset
<1>2. A \cap Z = {} /\ A \cup Z = S /\ \A i \in A \cup Z : f[i] \in Int
  OBVIOUS
<1>3. SumFunctionOnSet(f, Z) = 0
  BY <1>1, SumOfZeros
<1>4. SumFunctionOnSet(f, A) \in Int
  BY <1>1, SumTypes
<1> HIDE DEF A, Z
<1>5. SumFunctionOnSet(f, A \cup Z) = SumFunctionOnSet(f, A) + SumFunctionOnSet(f, Z)
  BY <1>1, <1>2, SumOfTwo
<1>6. SumFunctionOnSet(f, S) = SumFunctionOnSet(f, A)
  BY <1>2, <1>3, <1>4, <1>5
<1> QED BY <1>6 DEF A

(* What has the key p.                                                     *)
Fiber(R, key, p) == {i \in R : key[i] = p}

(* Summed key by key, everything is summed once.                           *)
LEMMA SumOfFibers ==
  ASSUME NEW w, NEW R, IsFiniteSet(R), \A i \in R : w[i] \in Int,
         NEW P, IsFiniteSet(P), NEW key, \A i \in R : key[i] \in P,
         NEW v, \A p \in P : v[p] = SumFunctionOnSet(w, Fiber(R, key, p))
  PROVE  SumFunctionOnSet(v, P) = SumFunctionOnSet(w, R)
<1> USE DEF Fiber
<1> DEFINE Over(D) == {i \in R : key[i] \in D}
           T == {D \in SUBSET P : SumFunctionOnSet(v, D) = SumFunctionOnSet(w, Over(D))}
<1>0. \A p \in P : v[p] \in Int
  <2> TAKE p \in P
  <2> DEFINE F == {i \in R : key[i] = p}
  <2>1. IsFiniteSet(F) /\ \A i \in F : w[i] \in Int
    BY FS_Subset
  <2> HIDE DEF F
  <2>2. SumFunctionOnSet(w, F) \in Int
    BY <2>1, SumTypes
  <2> QED BY <2>2 DEF F
<1>1. ASSUME NEW D \in SUBSET P, \A y \in D : D \ {y} \in T
      PROVE  D \in T
  <2>1. CASE D = {}
    <3>1. Over(D) = {}
      BY <2>1
    <3> QED BY <2>1, <3>1, SumOfNone
  <2>2. CASE D # {}
    <3>1. PICK y \in D : TRUE
      BY <2>2
    <3> DEFINE F == {i \in R : key[i] = y}  O == Over(D \ {y})
    <3>2. IsFiniteSet(D) /\ IsFiniteSet(F) /\ IsFiniteSet(O)
      BY FS_Subset
    <3>3. SumFunctionOnSet(v, D) = v[y] + SumFunctionOnSet(v, D \ {y})
      BY <1>0, <3>1, <3>2, SumStep
    <3>4. F \cap O = {} /\ F \cup O = Over(D) /\ \A i \in F \cup O : w[i] \in Int
      BY <3>1
    <3>5. v[y] = SumFunctionOnSet(w, F)
      BY <3>1
    <3>6. SumFunctionOnSet(v, D \ {y}) = SumFunctionOnSet(w, O)
      BY <1>1, <3>1
    <3> HIDE DEF F, O
    <3>7. SumFunctionOnSet(w, F \cup O) = SumFunctionOnSet(w, F) + SumFunctionOnSet(w, O)
      BY <3>2, <3>4, SumOfTwo
    <3> QED BY <3>3, <3>4, <3>5, <3>6, <3>7
  <2> QED BY <2>1, <2>2
<1>2. P \in T
  <2>1. \A D \in SUBSET P : (\A y \in D : D \ {y} \in T) => D \in T
    BY <1>1
  <2> HIDE DEF T
  <2> QED BY <2>1, SetInduction, Zenon
<1>3. Over(P) = R
  OBVIOUS
<1> QED BY <1>2, <1>3

(* The sum of a single summand.                                            *)
LEMMA SumOfOne ==
  ASSUME NEW f, NEW x, f[x] \in Int PROVE SumFunctionOnSet(f, {x}) = f[x]
<1>1. IsFiniteSet({x}) /\ x \in {x} /\ \A i \in {x} : f[i] \in Int
  BY FS_Singleton
<1>2. SumFunctionOnSet(f, {x}) = f[x] + SumFunctionOnSet(f, {x} \ {x})
  BY <1>1, SumStep, Zenon
<1>3. {x} \ {x} = {}
  OBVIOUS
<1>4. SumFunctionOnSet(f, {x} \ {x}) = 0
  BY <1>3, SumOfNone
<1> QED BY <1>2, <1>4
=============================================================================
