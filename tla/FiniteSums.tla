----------------------------- MODULE FiniteSums -----------------------------
(***************************************************************************)
(* Facts about SumFunctionOnSet of the community module Functions, which   *)
(* the proofs of the rate limiter and of the statistics rest on.           *)
(*                                                                         *)
(* The theorems of the library that state induction take the statement as  *)
(* an operator, which no prover at hand can instantiate.  NatSets and      *)
(* SetsGrow state it for a set instead: the numbers, or the subsets of a   *)
(* finite set, for which the statement holds.  They follow from the facts  *)
(* that < on the naturals and the strict subsets of a finite set are well  *)
(* founded.                                                                *)
(***************************************************************************)
EXTENDS Integers, FiniteSets, Functions, FiniteSetTheorems, WellFoundedInduction, TLAPS

-----------------------------------------------------------------------------
(* Induction.                                                               *)

\* A set that holds 0, and with each number the next, holds every number.
LEMMA NatSets ==
  ASSUME NEW G, 0 \in G, \A n \in Nat : n \in G => n + 1 \in G
  PROVE  \A n \in Nat : n \in G
  <1> DEFINE Bad == {n \in Nat : n \notin G}
  <1>1. SUFFICES ASSUME Bad # {} PROVE FALSE
    OBVIOUS
  <1>2. PICK x \in Bad : \A y \in Bad : <<y, x>> \notin OpToRel(<, Nat)
    <2> HIDE DEF Bad
    <2>1. Bad \subseteq Nat
      BY DEF Bad
    <2> QED BY <1>1, <2>1, WFMin, NatLessThanWellFounded
  <1>3. \A y \in Bad : ~(y < x)
    <2> SUFFICES ASSUME NEW y \in Bad, y < x PROVE FALSE
      OBVIOUS
    <2>1. <<y, x>> \in OpToRel(<, Nat)
      BY DEF OpToRel
    <2> QED BY <2>1, <1>2
  <1>4. x # 0
    OBVIOUS
  <1>5. x - 1 \in Nat /\ x - 1 \notin Bad
    BY <1>3, <1>4
  <1> QED BY <1>5

\* A set of subsets of S that holds {}, and any non-empty subset whose every smaller
\* neighbour it holds, holds S.
LEMMA SetsGrow ==
  ASSUME NEW S, IsFiniteSet(S), NEW G, {} \in G,
         \A s \in SUBSET S : s # {} /\ (\A x \in s : s \ {x} \in G) => s \in G
  PROVE  S \in G
  <1> DEFINE Bad == {s \in SUBSET S : s \notin G}
  <1>1. SUFFICES ASSUME Bad # {} PROVE FALSE
    OBVIOUS
  <1>2. PICK s \in Bad : \A t \in Bad : <<t, s>> \notin StrictSubsetOrdering(S)
    <2>1. Bad \subseteq FiniteSubsetsOf(S)
      BY FS_Subset DEF FiniteSubsetsOf
    <2> HIDE DEF Bad
    <2>2. IsWellFoundedOn(StrictSubsetOrdering(S), FiniteSubsetsOf(S))
      BY FS_StrictSubsetOrderingWellFounded
    <2> QED BY <1>1, <2>1, <2>2, WFMin
  <1>3. s # {}
    OBVIOUS
  <1>4. ASSUME NEW x \in s PROVE s \ {x} \in G
    <2>1. <<s \ {x}, s>> \in StrictSubsetOrdering(S)
      BY DEF StrictSubsetOrdering
    <2> QED BY <2>1, <1>2
  <1> QED BY <1>3, <1>4

\* What a function makes of finitely many is finitely many.
LEMMA ImageFinite ==
  ASSUME NEW S, IsFiniteSet(S), NEW h
  PROVE  IsFiniteSet({h[x] : x \in S})
  <1> DEFINE T == {h[x] : x \in S}
             g == [x \in S |-> h[x]]
  <1>1. g \in Surjection(S, T)
    BY DEF Surjection
  <1> HIDE DEF g, T
  <1>2. IsFiniteSet(T)
    BY <1>1, FS_Surjection
  <1> QED BY <1>2 DEF T

-----------------------------------------------------------------------------
(* The sum is well defined.                                                 *)

\* The element a fold takes next.
Pick(s) == CHOOSE x \in s : TRUE

\* The function a fold builds, on the sets D: the sum of f over each.
IsTally(it, f, D) ==
  it = [s \in D |-> IF s = {} THEN 0 ELSE f[Pick(s)] + it[s \ {Pick(s)}]]

\* What is picked is there.
LEMMA PickIn == ASSUME NEW s, s # {} PROVE Pick(s) \in s
  BY DEF Pick

\* The sum, as SumFunctionOnSet defines it.
LEMMA SumIsTally ==
  ASSUME NEW f, NEW S
  PROVE  SumFunctionOnSet(f, S) = (CHOOSE it : IsTally(it, f, SUBSET S))[S]
  BY SMT DEF SumFunctionOnSet, FoldFunctionOnSet, MapThenFoldSet, IsTally, Pick

\* There is such a function, by induction on the size of the sets.
LEMMA TallyExists ==
  ASSUME NEW f, NEW S, IsFiniteSet(S)
  PROVE  \E it : IsTally(it, f, SUBSET S)
  <1> DEFINE D(n) == {s \in SUBSET S : Cardinality(s) <= n}
             G == {n \in Nat : \E it : IsTally(it, f, D(n))}
  <1>0. \A s \in SUBSET S : Cardinality(s) \in Nat /\ IsFiniteSet(s)
    BY FS_Subset, FS_CardinalityType
  <1>1. 0 \in G
    <2>1. \A s \in D(0) : s = {}
      BY <1>0, FS_EmptySet
    <2>2. IsTally([s \in D(0) |-> 0], f, D(0))
      BY <2>1 DEF IsTally
    <2> QED BY <2>2
  <1>2. ASSUME NEW n \in Nat, n \in G PROVE n + 1 \in G
    <2>1. PICK it : IsTally(it, f, D(n))
      BY <1>2
    <2> DEFINE jt == [s \in D(n+1) |->
                        IF s = {} THEN 0 ELSE f[Pick(s)] + it[s \ {Pick(s)}]]
    <2>2. ASSUME NEW s \in D(n), s # {} PROVE it[s] = f[Pick(s)] + it[s \ {Pick(s)}]
      BY <2>1, <2>2 DEF IsTally
    <2>3. {} \in D(n) /\ it[{}] = 0
      BY <2>1, FS_EmptySet DEF IsTally
    <2>4. ASSUME NEW s \in D(n+1), s # {}
          PROVE  s \ {Pick(s)} \in D(n)
      <3>1. Cardinality(s \ {Pick(s)}) = Cardinality(s) - 1
        BY <1>0, <2>4, PickIn, FS_RemoveElement
      <3> QED BY <3>1, <1>0
    <2>5. \A s \in D(n) : s \in D(n + 1)
      BY <1>0
    <2>6. \A s \in D(n) : jt[s] = it[s]
      BY <2>2, <2>3, <2>5
    <2> HIDE DEF D
    <2>7. \A s \in D(n+1) : s # {} => it[s \ {Pick(s)}] = jt[s \ {Pick(s)}]
      BY <2>4, <2>6
    <2>8. jt = [s \in D(n+1) |-> IF s = {} THEN 0 ELSE f[Pick(s)] + jt[s \ {Pick(s)}]]
      BY <2>7
    <2> HIDE DEF jt
    <2>9. IsTally(jt, f, D(n+1))
      BY <2>8 DEF IsTally
    <2> QED BY <2>9
  <1>3. Cardinality(S) \in G
    <2> HIDE DEF G
    <2> QED BY <1>0, <1>1, <1>2, NatSets
  <1>4. D(Cardinality(S)) = SUBSET S
    BY <1>0, FS_Subset
  <1> QED BY <1>3, <1>4

\* ... and only one, so that the sums over all subsets of S come from one of them.
LEMMA SumTally ==
  ASSUME NEW f, NEW S, IsFiniteSet(S), NEW it, IsTally(it, f, SUBSET S)
  PROVE  \A s \in SUBSET S : SumFunctionOnSet(f, s) = it[s]
  <1> SUFFICES ASSUME NEW T \in SUBSET S PROVE SumFunctionOnSet(f, T) = it[T]
    OBVIOUS
  <1> DEFINE jt == CHOOSE jt : IsTally(jt, f, SUBSET T)
  <1>1. IsFiniteSet(T)
    BY FS_Subset
  <1>2. IsTally(jt, f, SUBSET T)
    BY <1>1, TallyExists
  <1>3. SumFunctionOnSet(f, T) = jt[T]
    BY SumIsTally
  <1> HIDE DEF jt
  <1> DEFINE G == {s \in SUBSET T : jt[s] = it[s]}
  <1>4. {} \in G
    BY <1>2 DEF IsTally
  <1>5. ASSUME NEW s \in SUBSET T, s # {}, \A x \in s : s \ {x} \in G
        PROVE  s \in G
    <2>1. jt[s \ {Pick(s)}] = it[s \ {Pick(s)}]
      BY <1>5, PickIn
    <2>2. jt[s] = f[Pick(s)] + jt[s \ {Pick(s)}]
      BY <1>2, <1>5 DEF IsTally
    <2>3. it[s] = f[Pick(s)] + it[s \ {Pick(s)}]
      BY <1>5 DEF IsTally
    <2> QED BY <2>1, <2>2, <2>3
  <1>6. T \in G
    <2> HIDE DEF G
    <2> QED BY <1>1, <1>4, <1>5, SetsGrow
  <1> QED BY <1>3, <1>6

-----------------------------------------------------------------------------
(* Sums over finite sets.                                                   *)

\* The sum over no element.
LEMMA SumEmpty == ASSUME NEW f PROVE SumFunctionOnSet(f, {}) = 0
  <1>1. IsFiniteSet({})
    BY FS_EmptySet
  <1>2. PICK it : IsTally(it, f, SUBSET {})
    BY <1>1, TallyExists
  <1>3. \A s \in SUBSET {} : SumFunctionOnSet(f, s) = it[s]
    BY <1>1, <1>2, SumTally
  <1> QED BY <1>2, <1>3 DEF IsTally

\* The sum, unfolded once.
LEMMA SumPick ==
  ASSUME NEW f, NEW S, IsFiniteSet(S), S # {}
  PROVE  SumFunctionOnSet(f, S) = f[Pick(S)] + SumFunctionOnSet(f, S \ {Pick(S)})
  <1>1. PICK it : IsTally(it, f, SUBSET S)
    BY TallyExists
  <1>2. \A s \in SUBSET S : SumFunctionOnSet(f, s) = it[s]
    BY <1>1, SumTally
  <1>3. it[S] = f[Pick(S)] + it[S \ {Pick(S)}]
    BY <1>1 DEF IsTally
  <1> QED BY <1>2, <1>3

\* A sum of numbers is a number.
LEMMA SumType ==
  ASSUME NEW f, NEW S, IsFiniteSet(S), \A x \in S : f[x] \in Nat
  PROVE  SumFunctionOnSet(f, S) \in Nat
  <1> DEFINE G == {s \in SUBSET S : SumFunctionOnSet(f, s) \in Nat}
  <1>1. {} \in G
    BY SumEmpty
  <1>2. ASSUME NEW s \in SUBSET S, s # {}, \A x \in s : s \ {x} \in G
        PROVE  s \in G
    <2>1. IsFiniteSet(s)
      BY FS_Subset
    <2>2. SumFunctionOnSet(f, s) = f[Pick(s)] + SumFunctionOnSet(f, s \ {Pick(s)})
      BY <1>2, <2>1, SumPick
    <2>3. Pick(s) \in s /\ f[Pick(s)] \in Nat
      BY <1>2, PickIn
    <2> QED BY <1>2, <2>2, <2>3
  <1>3. S \in G
    <2> HIDE DEF G
    <2> QED BY <1>1, <1>2, SetsGrow
  <1> QED BY <1>3

\* A sum depends on what f is on S only.
LEMMA SumEqual ==
  ASSUME NEW f, NEW g, NEW S, IsFiniteSet(S), \A x \in S : f[x] = g[x]
  PROVE  SumFunctionOnSet(f, S) = SumFunctionOnSet(g, S)
  <1> DEFINE G == {s \in SUBSET S : SumFunctionOnSet(f, s) = SumFunctionOnSet(g, s)}
  <1>1. {} \in G
    BY SumEmpty
  <1>2. ASSUME NEW s \in SUBSET S, s # {}, \A x \in s : s \ {x} \in G
        PROVE  s \in G
    <2>1. IsFiniteSet(s)
      BY FS_Subset
    <2>2. SumFunctionOnSet(f, s) = f[Pick(s)] + SumFunctionOnSet(f, s \ {Pick(s)})
      BY <1>2, <2>1, SumPick
    <2>3. SumFunctionOnSet(g, s) = g[Pick(s)] + SumFunctionOnSet(g, s \ {Pick(s)})
      BY <1>2, <2>1, SumPick
    <2>4. Pick(s) \in s /\ f[Pick(s)] = g[Pick(s)]
      BY <1>2, PickIn
    <2> QED BY <1>2, <2>2, <2>3, <2>4
  <1>3. S \in G
    <2> HIDE DEF G
    <2> QED BY <1>1, <1>2, SetsGrow
  <1> QED BY <1>3

\* The order does not matter: any element can be taken out.
LEMMA SumRemove ==
  ASSUME NEW f, NEW S, IsFiniteSet(S), \A x \in S : f[x] \in Nat
  PROVE  \A a \in S : SumFunctionOnSet(f, S) = f[a] + SumFunctionOnSet(f, S \ {a})
  <1> DEFINE Tot(s) == SumFunctionOnSet(f, s)
  <1> DEFINE G == {s \in SUBSET S : \A a \in s : Tot(s) = f[a] + Tot(s \ {a})}
  <1>0. \A s \in SUBSET S : IsFiniteSet(s) /\ Tot(s) \in Nat
    BY FS_Subset, SumType
  <1>1. {} \in G
    OBVIOUS
  <1>2. ASSUME NEW s \in SUBSET S, s # {}, \A x \in s : s \ {x} \in G
        PROVE  s \in G
    <2> SUFFICES ASSUME NEW a \in s PROVE Tot(s) = f[a] + Tot(s \ {a})
      OBVIOUS
    <2> DEFINE c == Pick(s)
    <2>1. Tot(s) = f[c] + Tot(s \ {c})
      BY <1>0, <1>2, SumPick
    <2>2. c \in s
      BY <1>2, PickIn
    <2> HIDE DEF c, Tot
    <2>3. CASE c = a
      BY <2>1, <2>3
    <2>4. CASE c # a
      <3>1. Tot(s \ {c}) = f[a] + Tot((s \ {c}) \ {a})
        BY <1>2, <2>2, <2>4
      <3>2. Tot(s \ {a}) = f[c] + Tot((s \ {a}) \ {c})
        BY <1>2, <2>2, <2>4
      <3>3. (s \ {a}) \ {c} = (s \ {c}) \ {a}
        OBVIOUS
      <3>4. f[a] \in Nat /\ f[c] \in Nat /\ Tot((s \ {c}) \ {a}) \in Nat
        BY <1>0, <2>2
      <3> HIDE DEF G
      <3> QED BY <2>1, <3>1, <3>2, <3>3, <3>4
    <2> QED BY <2>3, <2>4
  <1>3. S \in G
    <2> HIDE DEF G
    <2> QED BY <1>1, <1>2, SetsGrow
  <1> QED BY <1>3

\* ... or put in.
LEMMA SumAdd ==
  ASSUME NEW f, NEW S, IsFiniteSet(S), \A x \in S : f[x] \in Nat,
         NEW a, a \notin S, f[a] \in Nat
  PROVE  SumFunctionOnSet(f, S \cup {a}) = f[a] + SumFunctionOnSet(f, S)
  <1>1. IsFiniteSet(S \cup {a})
    BY FS_AddElement
  <1>2. \A x \in S \cup {a} : f[x] \in Nat
    OBVIOUS
  <1>3. (S \cup {a}) \ {a} = S
    OBVIOUS
  <1>4. \A x \in S \cup {a} : SumFunctionOnSet(f, S \cup {a})
                       = f[x] + SumFunctionOnSet(f, (S \cup {a}) \ {x})
    BY <1>1, <1>2, SumRemove
  <1> QED BY <1>3, <1>4

\* The sum over two disjoint sets.
LEMMA SumUnion ==
  ASSUME NEW f, NEW S, IsFiniteSet(S), NEW T, IsFiniteSet(T), S \cap T = {},
         \A x \in S \cup T : f[x] \in Nat
  PROVE  SumFunctionOnSet(f, S \cup T)
           = SumFunctionOnSet(f, S) + SumFunctionOnSet(f, T)
  <1> DEFINE Tot(s) == SumFunctionOnSet(f, s)
  <1> DEFINE G == {s \in SUBSET S : Tot(s \cup T) = Tot(s) + Tot(T)}
  <1>0. \A s \in SUBSET S : /\ IsFiniteSet(s) /\ Tot(s) \in Nat
                            /\ IsFiniteSet(s \cup T) /\ Tot(s \cup T) \in Nat
    BY FS_Subset, FS_Union, SumType
  <1>a. Tot(T) \in Nat
    BY SumType
  <1>1. {} \in G
    <2>1. {} \cup T = T /\ Tot({}) = 0
      BY SumEmpty
    <2> HIDE DEF Tot
    <2> QED BY <2>1, <1>a
  <1>2. ASSUME NEW s \in SUBSET S, s # {}, \A x \in s : s \ {x} \in G
        PROVE  s \in G
    <2>0. PICK a \in s : TRUE
      BY <1>2
    <2>a. (\A x \in s : f[x] \in Nat) /\ \A x \in s \cup T : f[x] \in Nat
      OBVIOUS
    <2>b. IsFiniteSet(s) /\ IsFiniteSet(s \cup T) /\ a \in s \cup T
      BY FS_Subset, FS_Union
    <2>1. Tot(s) = f[a] + Tot(s \ {a})
      BY <2>a, <2>b, SumRemove
    <2>2. Tot(s \cup T) = f[a] + Tot((s \cup T) \ {a})
      BY <2>a, <2>b, SumRemove
    <2>3. Tot((s \cup T) \ {a}) = Tot((s \ {a}) \cup T)
      <3>1. (s \cup T) \ {a} = (s \ {a}) \cup T
        OBVIOUS
      <3> QED BY <3>1
    <2> HIDE DEF Tot
    <2>4. Tot((s \ {a}) \cup T) = Tot(s \ {a}) + Tot(T)
      BY <1>2
    <2>5. Tot(s \ {a}) \in Nat /\ f[a] \in Nat
      BY <1>0
    <2>6. Tot(s \cup T) = Tot(s) + Tot(T)
      <3> HIDE DEF G
      <3> QED BY <2>1, <2>2, <2>3, <2>4, <2>5, <1>a
    <2> QED BY <2>6
  <1>3. S \in G
    <2> HIDE DEF G
    <2> QED BY <1>1, <1>2, SetsGrow
  <1> QED BY <1>3

\* A set is a part of it and the rest.
LEMMA SumSubset ==
  ASSUME NEW f, NEW S, IsFiniteSet(S), \A x \in S : f[x] \in Nat,
         NEW T \in SUBSET S
  PROVE  SumFunctionOnSet(f, S)
           = SumFunctionOnSet(f, T) + SumFunctionOnSet(f, S \ T)
  <1>1. IsFiniteSet(T) /\ IsFiniteSet(S \ T)
    BY FS_Subset
  <1>2. T \cup (S \ T) = S /\ T \cap (S \ T) = {}
    OBVIOUS
  <1>3. SumFunctionOnSet(f, T \cup (S \ T))
           = SumFunctionOnSet(f, T) + SumFunctionOnSet(f, S \ T)
    <2>1. \A x \in T \cup (S \ T) : f[x] \in Nat
      OBVIOUS
    <2> QED BY <1>1, <1>2, <2>1, SumUnion
  <1> QED BY <1>2, <1>3

\* A sum, its elements renamed one to one.
LEMMA SumRename ==
  ASSUME NEW f, NEW S, IsFiniteSet(S), NEW T, NEW h \in Bijection(S, T),
         NEW g, \A x \in S : g[x] = f[h[x]], \A x \in S : g[x] \in Nat
  PROVE  SumFunctionOnSet(f, T) = SumFunctionOnSet(g, S)
  <1> DEFINE Im(s) == {h[x] : x \in s}
  <1> DEFINE G == {s \in SUBSET S :
                     /\ IsFiniteSet(Im(s))
                     /\ SumFunctionOnSet(f, Im(s)) = SumFunctionOnSet(g, s)}
  <1>0. /\ \A x \in S, y \in S : h[x] = h[y] => x = y
        /\ T = Im(S)
    BY DEF Bijection, Injection, Surjection, IsInjective
  <1>1. {} \in G
    <2>1. Im({}) = {}
      OBVIOUS
    <2> QED BY <2>1, SumEmpty, FS_EmptySet
  <1>2. ASSUME NEW s \in SUBSET S, s # {}, \A x \in s : s \ {x} \in G
        PROVE  s \in G
    <2>0. PICK a \in s : TRUE
      BY <1>2
    <2>1. SumFunctionOnSet(g, s) = g[a] + SumFunctionOnSet(g, s \ {a})
      <3>1. IsFiniteSet(s) /\ \A x \in s : g[x] \in Nat
        BY FS_Subset
      <3> QED BY <3>1, SumRemove
    <2>2. /\ IsFiniteSet(Im(s \ {a}))
          /\ SumFunctionOnSet(f, Im(s \ {a})) = SumFunctionOnSet(g, s \ {a})
      BY <1>2
    <2>3. Im(s) = Im(s \ {a}) \cup {h[a]} /\ h[a] \notin Im(s \ {a})
      BY <1>0
    <2>5. (\A y \in Im(s \ {a}) : f[y] \in Nat) /\ f[h[a]] \in Nat
      OBVIOUS
    <2> HIDE DEF Im
    <2>4. IsFiniteSet(Im(s))
      <3>1. IsFiniteSet(Im(s \ {a}) \cup {h[a]})
        BY <2>2, FS_AddElement
      <3> QED BY <3>1, <2>3
    <2>6. SumFunctionOnSet(f, Im(s \ {a}) \cup {h[a]})
            = f[h[a]] + SumFunctionOnSet(f, Im(s \ {a}))
      BY <2>2, <2>3, <2>5, SumAdd
    <2> QED BY <2>1, <2>2, <2>3, <2>4, <2>6
  <1>3. S \in G
    <2> HIDE DEF G
    <2> QED BY <1>1, <1>2, SetsGrow
  <1> QED BY <1>0, <1>3

\* A sum of zeros.
LEMMA SumZero ==
  ASSUME NEW f, NEW S, IsFiniteSet(S), \A x \in S : f[x] = 0
  PROVE  SumFunctionOnSet(f, S) = 0
  <1> DEFINE G == {s \in SUBSET S : SumFunctionOnSet(f, s) = 0}
  <1>1. {} \in G
    BY SumEmpty
  <1>2. ASSUME NEW s \in SUBSET S, s # {}, \A x \in s : s \ {x} \in G
        PROVE  s \in G
    <2>1. IsFiniteSet(s)
      BY FS_Subset
    <2>2. SumFunctionOnSet(f, s) = f[Pick(s)] + SumFunctionOnSet(f, s \ {Pick(s)})
      BY <1>2, <2>1, SumPick
    <2>3. Pick(s) \in s /\ f[Pick(s)] = 0
      BY <1>2, PickIn
    <2> QED BY <1>2, <2>2, <2>3
  <1>3. S \in G
    <2> HIDE DEF G
    <2> QED BY <1>1, <1>2, SetsGrow
  <1> QED BY <1>3

\* One term changes, and the sum changes as much.
LEMMA SumChange ==
  ASSUME NEW S, IsFiniteSet(S), NEW f, NEW g, NEW a \in S,
         \A x \in S : f[x] \in Nat /\ g[x] \in Nat,
         \A x \in S \ {a} : g[x] = f[x]
  PROVE  SumFunctionOnSet(g, S) - g[a] = SumFunctionOnSet(f, S) - f[a]
  <1>1. SumFunctionOnSet(f, S) = f[a] + SumFunctionOnSet(f, S \ {a})
    BY SumRemove
  <1>2. SumFunctionOnSet(g, S) = g[a] + SumFunctionOnSet(g, S \ {a})
    BY SumRemove
  <1>3. IsFiniteSet(S \ {a})
    BY FS_RemoveElement
  <1>4. SumFunctionOnSet(g, S \ {a}) = SumFunctionOnSet(f, S \ {a})
    BY <1>3, SumEqual
  <1>5. SumFunctionOnSet(f, S \ {a}) \in Nat
    BY <1>3, SumType
  <1> QED BY <1>1, <1>2, <1>4, <1>5

\* A sum, taken part by part: h says in which part each element is.
LEMMA SumParts ==
  ASSUME NEW f, NEW S, IsFiniteSet(S), \A x \in S : f[x] \in Nat,
         NEW T, IsFiniteSet(T), NEW h, \A x \in S : h[x] \in T,
         NEW P, \A t \in T : P[t] \in SUBSET S /\ \A x \in S : x \in P[t] <=> h[x] = t,
         NEW g, \A t \in T : g[t] = SumFunctionOnSet(f, P[t])
  PROVE  SumFunctionOnSet(g, T) = SumFunctionOnSet(f, S)
  <1> DEFINE Part(s) == {x \in S : h[x] \in s}
             G == {s \in SUBSET T : SumFunctionOnSet(g, s) = SumFunctionOnSet(f, Part(s))}
  <1>1. {} \in G
    <2>1. Part({}) = {}
      OBVIOUS
    <2> QED BY <2>1, SumEmpty
  <1>2. ASSUME NEW s \in SUBSET T, s # {}, \A t \in s : s \ {t} \in G
        PROVE  s \in G
    <2> DEFINE a == Pick(s)
               A == P[a]
               B == Part(s \ {a})
    <2>1. a \in s /\ IsFiniteSet(s)
      BY <1>2, PickIn, FS_Subset
    <2>2. SumFunctionOnSet(g, s) = g[a] + SumFunctionOnSet(g, s \ {a})
      BY <1>2, <2>1, SumPick
    <2>3. g[a] = SumFunctionOnSet(f, A) /\ SumFunctionOnSet(g, s \ {a}) = SumFunctionOnSet(f, B)
      BY <1>2, <2>1
    <2>4. IsFiniteSet(A) /\ IsFiniteSet(B) /\ \A x \in A \cup B : f[x] \in Nat
      BY <2>1, FS_Subset
    <2>5. A \cap B = {} /\ A \cup B = Part(s)
      BY <2>1
    <2> HIDE DEF A, B, a
    <2>6. SumFunctionOnSet(f, A \cup B) = SumFunctionOnSet(f, A) + SumFunctionOnSet(f, B)
      BY <2>4, <2>5, SumUnion
    <2> QED BY <2>2, <2>3, <2>5, <2>6
  <1>3. T \in G
    <2> HIDE DEF G
    <2> QED BY <1>1, <1>2, SetsGrow
  <1>4. Part(T) = S
    OBVIOUS
  <1> QED BY <1>3, <1>4

\* The size of a set is a sum of ones.
LEMMA SumOnes ==
  ASSUME NEW f, NEW S, IsFiniteSet(S), \A x \in S : f[x] = 1
  PROVE  SumFunctionOnSet(f, S) = Cardinality(S)
  <1> DEFINE G == {s \in SUBSET S : SumFunctionOnSet(f, s) = Cardinality(s)}
  <1>1. {} \in G
    BY SumEmpty, FS_EmptySet
  <1>2. ASSUME NEW s \in SUBSET S, s # {}, \A x \in s : s \ {x} \in G
        PROVE  s \in G
    <2>1. IsFiniteSet(s) /\ Pick(s) \in s
      BY <1>2, FS_Subset, PickIn
    <2>2. SumFunctionOnSet(f, s) = f[Pick(s)] + SumFunctionOnSet(f, s \ {Pick(s)})
      BY <1>2, <2>1, SumPick
    <2>3. Cardinality(s \ {Pick(s)}) = Cardinality(s) - 1 /\ Cardinality(s) \in Nat
      BY <2>1, FS_RemoveElement, FS_CardinalityType
    <2>4. f[Pick(s)] = 1 /\ SumFunctionOnSet(f, s \ {Pick(s)}) = Cardinality(s \ {Pick(s)})
      BY <1>2, <2>1
    <2> QED BY <2>2, <2>3, <2>4
  <1>3. S \in G
    <2> HIDE DEF G
    <2> QED BY <1>1, <1>2, SetsGrow
  <1> QED BY <1>3

-----------------------------------------------------------------------------
(* Sums over intervals.                                                     *)

\* A sum over an interval, moved up by one.
LEMMA SumShift ==
  ASSUME NEW f, NEW m \in Int, NEW n \in Int, \A x \in m .. n : f[x] \in Nat,
         NEW g, \A x \in m .. n : g[x + 1] = f[x]
  PROVE  SumFunctionOnSet(g, m + 1 .. n + 1) = SumFunctionOnSet(f, m .. n)
  <1> DEFINE S == m .. n
             T == m + 1 .. n + 1
             h == [x \in S |-> x + 1]
  <1>1. h \in Bijection(S, T)
    <2>1. \A y \in T : y - 1 \in S /\ h[y - 1] = y
      OBVIOUS
    <2>2. \A x \in S : h[x] \in T
      OBVIOUS
    <2>3. \A x \in S, y \in S : h[x] = h[y] => x = y
      OBVIOUS
    <2>4. h = [x \in S |-> h[x]]
      OBVIOUS
    <2> HIDE DEF h, S, T
    <2> QED BY <2>1, <2>2, <2>3, <2>4 DEF Bijection, Injection, Surjection, IsInjective
  <1>2. \A x \in S : f[x] = g[h[x]]
    OBVIOUS
  <1>3. \A x \in S : f[x] \in Nat
    OBVIOUS
  <1>4. IsFiniteSet(S)
    BY FS_Interval
  <1> HIDE DEF h, S, T
  <1>5. SumFunctionOnSet(g, T) = SumFunctionOnSet(f, S)
    BY <1>1, <1>2, <1>3, <1>4, SumRename
  <1> QED BY <1>5 DEF S, T

\* A sum over an interval, cut in two.
LEMMA SumSplit ==
  ASSUME NEW f, NEW m \in Int, NEW n \in Int, \A x \in m .. n : f[x] \in Nat,
         NEW k \in m - 1 .. n
  PROVE  /\ SumFunctionOnSet(f, m .. k) \in Nat
         /\ SumFunctionOnSet(f, k + 1 .. n) \in Nat
         /\ SumFunctionOnSet(f, m .. n)
              = SumFunctionOnSet(f, m .. k) + SumFunctionOnSet(f, k + 1 .. n)
  <1> DEFINE S == m .. k
             T == k + 1 .. n
  <1>1. IsFiniteSet(S) /\ IsFiniteSet(T)
    BY FS_Interval
  <1>2. S \cap T = {} /\ m .. n = S \cup T
    OBVIOUS
  <1>3. \A x \in S \cup T : f[x] \in Nat
    OBVIOUS
  <1> HIDE DEF S, T
  <1>4. SumFunctionOnSet(f, S \cup T) = SumFunctionOnSet(f, S) + SumFunctionOnSet(f, T)
    BY <1>1, <1>2, <1>3, SumUnion
  <1>5. SumFunctionOnSet(f, S) \in Nat /\ SumFunctionOnSet(f, T) \in Nat
    BY <1>1, <1>3, SumType
  <1> QED BY <1>2, <1>4, <1>5 DEF S, T

\* A sum over an interval, without its first element ...
LEMMA SumFirst ==
  ASSUME NEW f, NEW m \in Int, NEW n \in Int, m <= n, \A x \in m .. n : f[x] \in Nat
  PROVE  SumFunctionOnSet(f, m .. n) = f[m] + SumFunctionOnSet(f, m + 1 .. n)
  <1>1. m .. n \ {m} = m + 1 .. n
    OBVIOUS
  <1>2. IsFiniteSet(m .. n) /\ m \in m .. n
    BY FS_Interval
  <1>3. SumFunctionOnSet(f, m .. n) = f[m] + SumFunctionOnSet(f, m .. n \ {m})
    BY <1>2, SumRemove
  <1> QED BY <1>1, <1>3

\* ... and without its last.
LEMMA SumLast ==
  ASSUME NEW f, NEW m \in Int, NEW n \in Int, m <= n, \A x \in m .. n : f[x] \in Nat
  PROVE  SumFunctionOnSet(f, m .. n) = f[n] + SumFunctionOnSet(f, m .. n - 1)
  <1>1. m .. n \ {n} = m .. n - 1
    OBVIOUS
  <1>2. IsFiniteSet(m .. n) /\ n \in m .. n
    BY FS_Interval
  <1>3. SumFunctionOnSet(f, m .. n) = f[n] + SumFunctionOnSet(f, m .. n \ {n})
    BY <1>2, SumRemove
  <1> QED BY <1>1, <1>3

\* The sum over one number.
LEMMA SumSingle ==
  ASSUME NEW f, NEW a, f[a] \in Nat, a \in Int
  PROVE  SumFunctionOnSet(f, a .. a) = f[a]
  <1>1. a .. a = {} \cup {a} /\ IsFiniteSet({})
    BY FS_EmptySet
  <1>2. SumFunctionOnSet(f, {} \cup {a}) = f[a] + SumFunctionOnSet(f, {})
    BY <1>1, SumAdd
  <1> QED BY <1>1, <1>2, SumEmpty

=============================================================================
