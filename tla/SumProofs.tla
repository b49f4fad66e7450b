------------------------------ MODULE SumProofs ------------------------------
(***************************************************************************)
(* What the library's MapThenSumSet computes over a finite set, proved once  *)
(* for the ledgers whose invariants are sums. The operator is a recursive    *)
(* function on subsets that takes an arbitrary element out at each step; the *)
(* lemmas say that this function exists, and that the order does not matter. *)
(*                                                                          *)
(* Induction is by a least counterexample: strict inclusion is well founded  *)
(* on finite sets, so a set of finite sets that is not empty has a member    *)
(* none of whose strict subsets is in it.                                    *)
(***************************************************************************)
EXTENDS Integers, FiniteSetsExt, FiniteSetTheorems, WellFoundedInduction, TLAPS

(* The sum of the weights of a set. *)
SumOf(weight, S) == MapThenSumSet(LAMBDA x : weight[x], S)

First(s) == CHOOSE x \in s : TRUE

(* g is the recursive function on the subsets of S behind the sum. *)
Iterates(weight, S, g) ==
    g = [s \in SUBSET S |-> IF s = {} THEN 0 ELSE weight[First(s)] + g[s \ {First(s)}]]

LEMMA SumIsIteration ==
    ASSUME NEW weight, NEW S
    PROVE  SumOf(weight, S) = (CHOOSE g : Iterates(weight, S, g))[S]
  BY DEF SumOf, MapThenSumSet, MapThenFoldSet, Iterates, First

LEMMA FirstIsMember == \A s : s # {} => First(s) \in s
  BY DEF First

(* A property of finite sets that fails fails for a set all of whose strict   *)
(* subsets have it; T is the set of the counterexamples.                      *)
LEMMA LeastCounterexample ==
    ASSUME NEW D, NEW T, \A s \in T : s \subseteq D /\ IsFiniteSet(s), T # {}
    PROVE  \E s \in T : \A r : r \subseteq s /\ r # s => r \notin T
  <1>1. T \subseteq FiniteSubsetsOf(D)
    BY DEF FiniteSubsetsOf
  <1>2. PICK s \in T : \A r \in T : <<r, s>> \notin StrictSubsetOrdering(D)
    BY <1>1, FS_StrictSubsetOrderingWellFounded, WFMin
  <1>3. \A r \in T : ~(r \subseteq s /\ r # s)
    BY <1>2 DEF StrictSubsetOrdering
  <1>. QED BY <1>2, <1>3

(* Two such functions agree wherever both are defined. *)
LEMMA IterationsAgree ==
    ASSUME NEW weight, NEW R, NEW S, NEW g, NEW h,
           Iterates(weight, R, g), Iterates(weight, S, h),
           IsFiniteSet(R)
    PROVE  \A s \in SUBSET (R \cap S) : g[s] = h[s]
  <1> DEFINE T == {s \in SUBSET (R \cap S) : g[s] # h[s]}
  <1>1. SUFFICES ASSUME T # {} PROVE FALSE
    OBVIOUS
  <1>2. \A s \in T : s \subseteq R /\ IsFiniteSet(s)
    BY FS_Subset
  <1>3. PICK s \in T : \A r : r \subseteq s /\ r # s => r \notin T
    <2>. HIDE DEF T
    <2>. QED BY <1>1, <1>2, LeastCounterexample
  <1>4. /\ g[s] = IF s = {} THEN 0 ELSE weight[First(s)] + g[s \ {First(s)}]
        /\ h[s] = IF s = {} THEN 0 ELSE weight[First(s)] + h[s \ {First(s)}]
    BY DEF Iterates
  <1>5. s # {} => g[s \ {First(s)}] = h[s \ {First(s)}]
    BY <1>3, FirstIsMember
  <1>. QED BY <1>4, <1>5

LEMMA IterationExists ==
    ASSUME NEW weight, NEW S, IsFiniteSet(S)
    PROVE  \E g : Iterates(weight, S, g)
  <1> DEFINE T == {s \in SUBSET S : ~ \E g : Iterates(weight, s, g)}
             It(s) == CHOOSE g : Iterates(weight, s, g)
             Total(s) == It(s)[s]
  <1>1. SUFFICES ASSUME T # {} PROVE FALSE
    OBVIOUS
  <1>2. \A s \in T : s \subseteq S /\ IsFiniteSet(s)
    BY FS_Subset
  <1>3. PICK m \in T : \A r : r \subseteq m /\ r # m => r \notin T
    <2>. HIDE DEF T
    <2>. QED BY <1>1, <1>2, LeastCounterexample
  <1>4. \A u : u \subseteq m /\ u # m => Iterates(weight, u, It(u))
    BY <1>3
  <1> DEFINE g == [s \in SUBSET m |-> IF s = {} THEN 0
                                      ELSE weight[First(s)] + Total(s \ {First(s)})]
  <1>5. ASSUME NEW u, u \subseteq m, u # m
        PROVE  g[u] = Total(u)
    <2>1. CASE u = {}
      <3>1. It(u)[u] = 0
        BY <1>4, <1>5, <2>1 DEF Iterates
      <3>. QED BY <2>1, <3>1
    <2>2. CASE u # {}
      <3> DEFINE v == u \ {First(u)}
      <3>1. /\ v \subseteq m /\ v # m /\ v \subseteq u /\ IsFiniteSet(u)
        BY <1>2, <1>5, <2>2, FirstIsMember, FS_Subset
      <3>2. Iterates(weight, u, It(u)) /\ Iterates(weight, v, It(v))
        BY <1>4, <1>5, <3>1
      <3>3. It(u)[v] = It(v)[v]
        <4>. HIDE DEF It, v
        <4>. QED BY <3>1, <3>2, IterationsAgree
      <3>4. It(u)[u] = weight[First(u)] + It(u)[v]
        <4>. HIDE DEF It
        <4>. QED BY <2>2, <3>2 DEF Iterates
      <3>5. g[u] = weight[First(u)] + Total(v)
        BY <1>5, <2>2
      <3>. QED BY <3>3, <3>4, <3>5
    <2>. QED BY <2>1, <2>2
  <1>6. Iterates(weight, m, g)
    <2>1. ASSUME NEW s \in SUBSET m, s # {}
          PROVE  Total(s \ {First(s)}) = g[s \ {First(s)}]
      <3>. HIDE DEF g, Total
      <3>. QED BY <1>5, <2>1, FirstIsMember
    <2>2. ASSUME NEW s \in SUBSET m
          PROVE  g[s] = IF s = {} THEN 0 ELSE weight[First(s)] + g[s \ {First(s)}]
      <3>1. g[s] = IF s = {} THEN 0 ELSE weight[First(s)] + Total(s \ {First(s)})
        <4>. HIDE DEF Total
        <4>. QED BY <2>2
      <3>. HIDE DEF g, Total
      <3>. QED BY <2>1, <2>2, <3>1
    <2>3. g = [s \in SUBSET m |-> g[s]]
      <3>. HIDE DEF Total
      <3>. QED OBVIOUS
    <2>. HIDE DEF g, Total
    <2>. QED BY <2>2, <2>3 DEF Iterates
  <1>. QED BY <1>3, <1>6

(* The value of the recursive function at a set is the sum over that set. *)
LEMMA IterationIsSum ==
    ASSUME NEW weight, NEW S, NEW R, R \subseteq S, IsFiniteSet(S),
           NEW g, Iterates(weight, S, g)
    PROVE  g[R] = SumOf(weight, R)
  <1>1. IsFiniteSet(R) /\ R \in SUBSET (R \cap S)
    BY FS_Subset
  <1>2. Iterates(weight, R, CHOOSE h : Iterates(weight, R, h))
    BY <1>1, IterationExists
  <1>3. \A h : Iterates(weight, R, h) => h[R] = g[R]
    BY <1>1, IterationsAgree
  <1>. QED BY <1>2, <1>3, SumIsIteration

LEMMA SumEmpty ==
    ASSUME NEW weight
    PROVE  SumOf(weight, {}) = 0
  <1>1. IsFiniteSet({})
    BY FS_EmptySet
  <1>2. PICK g : Iterates(weight, {}, g)
    BY <1>1, IterationExists
  <1>3. g[{}] = 0
    BY <1>2 DEF Iterates
  <1>. QED BY <1>1, <1>2, <1>3, IterationIsSum

(* The equation of the sum: some member is taken out. *)
LEMMA SumStep ==
    ASSUME NEW weight, NEW S, IsFiniteSet(S), S # {}
    PROVE  SumOf(weight, S) = weight[First(S)] + SumOf(weight, S \ {First(S)})
  <1>1. PICK g : Iterates(weight, S, g)
    BY IterationExists
  <1>2. g[S] = weight[First(S)] + g[S \ {First(S)}]
    BY <1>1 DEF Iterates
  <1>3. g[S] = SumOf(weight, S) /\ g[S \ {First(S)}] = SumOf(weight, S \ {First(S)})
    BY <1>1, IterationIsSum
  <1>. QED BY <1>2, <1>3

LEMMA SumType ==
    ASSUME NEW weight, NEW S, IsFiniteSet(S), \A x \in S : weight[x] \in Int
    PROVE  SumOf(weight, S) \in Int
  <1> DEFINE T == {s \in SUBSET S : SumOf(weight, s) \notin Int}
  <1>1. SUFFICES ASSUME T # {} PROVE FALSE
    OBVIOUS
  <1>2. \A s \in T : s \subseteq S /\ IsFiniteSet(s)
    BY FS_Subset
  <1>3. PICK m \in T : \A r : r \subseteq m /\ r # m => r \notin T
    <2>. HIDE DEF T
    <2>. QED BY <1>1, <1>2, LeastCounterexample
  <1>4. m # {}
    BY SumEmpty
  <1>5. SumOf(weight, m \ {First(m)}) \in Int /\ First(m) \in S
    BY <1>3, <1>4, FirstIsMember
  <1>6. SumOf(weight, m) = weight[First(m)] + SumOf(weight, m \ {First(m)})
    BY <1>2, <1>4, SumStep
  <1>. QED BY <1>5, <1>6

(* Whichever member is taken out. *)
LEMMA SumWithout ==
    ASSUME NEW weight, NEW S, IsFiniteSet(S), \A x \in S : weight[x] \in Int,
           NEW c \in S
    PROVE  SumOf(weight, S) = weight[c] + SumOf(weight, S \ {c})
  <1> DEFINE T == {s \in SUBSET S : \E d \in s :
                       SumOf(weight, s) # weight[d] + SumOf(weight, s \ {d})}
  <1>1. SUFFICES ASSUME T # {} PROVE FALSE
    OBVIOUS
  <1>2. \A s \in T : s \subseteq S /\ IsFiniteSet(s)
    BY FS_Subset
  <1>3. PICK m \in T : \A r : r \subseteq m /\ r # m => r \notin T
    <2>. HIDE DEF T
    <2>. QED BY <1>1, <1>2, LeastCounterexample
  <1>4. PICK d \in m : SumOf(weight, m) # weight[d] + SumOf(weight, m \ {d})
    BY <1>3
  <1> DEFINE f == First(m)
             both == m \ {f, d}
  <1>5. f \in m /\ m \subseteq S /\ IsFiniteSet(m)
    BY <1>2, <1>4, FirstIsMember
  <1>6. SumOf(weight, m) = weight[f] + SumOf(weight, m \ {f})
    BY <1>4, <1>5, SumStep
  <1>7. f # d
    BY <1>4, <1>6
  <1>8. m \ {f} \notin T /\ m \ {d} \notin T
    BY <1>3, <1>5
  <1>9. /\ SumOf(weight, m \ {f}) = weight[d] + SumOf(weight, both)
        /\ SumOf(weight, m \ {d}) = weight[f] + SumOf(weight, both)
    <2>1. (m \ {f}) \ {d} = both /\ (m \ {d}) \ {f} = both
      OBVIOUS
    <2>2. d \in m \ {f} /\ f \in m \ {d}
      BY <1>5, <1>7
    <2>. HIDE DEF f, both
    <2>. QED BY <1>5, <1>8, <2>1, <2>2
  <1>10. weight[f] \in Int /\ weight[d] \in Int /\ SumOf(weight, both) \in Int
    <2>1. IsFiniteSet(both)
      BY <1>5, FS_Subset
    <2>. HIDE DEF both
    <2>. QED BY <1>5, <2>1, SumType DEF both
  <1>. HIDE DEF f, both
  <1>. QED BY <1>4, <1>6, <1>9, <1>10

LEMMA SumAdd ==
    ASSUME NEW weight, NEW S, IsFiniteSet(S), NEW c, c \notin S,
           \A x \in S \cup {c} : weight[x] \in Int
    PROVE  SumOf(weight, S \cup {c}) = SumOf(weight, S) + weight[c]
  <1>1. IsFiniteSet(S \cup {c}) /\ (S \cup {c}) \ {c} = S
    BY FS_AddElement
  <1>2. SumOf(weight, S \cup {c}) = weight[c] + SumOf(weight, S)
    BY <1>1, SumWithout
  <1>. QED BY <1>2, SumType

(* Only the weights of the members count. *)
LEMMA SumSame ==
    ASSUME NEW weight, NEW other, NEW S, IsFiniteSet(S),
           \A x \in S : weight[x] = other[x]
    PROVE  SumOf(weight, S) = SumOf(other, S)
  <1> DEFINE T == {s \in SUBSET S : SumOf(weight, s) # SumOf(other, s)}
  <1>1. SUFFICES ASSUME T # {} PROVE FALSE
    OBVIOUS
  <1>2. \A s \in T : s \subseteq S /\ IsFiniteSet(s)
    BY FS_Subset
  <1>3. PICK m \in T : \A r : r \subseteq m /\ r # m => r \notin T
    <2>. HIDE DEF T
    <2>. QED BY <1>1, <1>2, LeastCounterexample
  <1>4. m # {}
    BY SumEmpty
  <1>5. First(m) \in S /\ m \ {First(m)} \notin T
    BY <1>3, <1>4, FirstIsMember
  <1>6. /\ SumOf(weight, m) = weight[First(m)] + SumOf(weight, m \ {First(m)})
        /\ SumOf(other, m) = other[First(m)] + SumOf(other, m \ {First(m)})
    BY <1>2, <1>4, SumStep
  <1>. QED BY <1>3, <1>5, <1>6

(* Members of weight zero may be left out. *)
LEMMA SumZeroes ==
    ASSUME NEW weight, NEW S, NEW R, R \subseteq S, IsFiniteSet(S),
           \A x \in S : weight[x] \in Int, \A x \in S \ R : weight[x] = 0
    PROVE  SumOf(weight, S) = SumOf(weight, R)
  <1> DEFINE T == {s \in SUBSET S : R \subseteq s /\ SumOf(weight, s) # SumOf(weight, R)}
  <1>1. SUFFICES ASSUME T # {} PROVE FALSE
    OBVIOUS
  <1>2. \A s \in T : s \subseteq S /\ IsFiniteSet(s)
    BY FS_Subset
  <1>3. PICK m \in T : \A r : r \subseteq m /\ r # m => r \notin T
    <2>. HIDE DEF T
    <2>. QED BY <1>1, <1>2, LeastCounterexample
  <1>4. PICK d \in m : d \notin R
    BY <1>3
  <1>5. weight[d] = 0 /\ m \ {d} \notin T /\ R \subseteq m \ {d}
    BY <1>3, <1>4
  <1>6. SumOf(weight, m \ {d}) = SumOf(weight, R)
    BY <1>5
  <1>7. SumOf(weight, m) = weight[d] + SumOf(weight, m \ {d})
    BY <1>2, <1>4, SumWithout
  <1>8. SumOf(weight, m \ {d}) \in Int
    BY <1>2, FS_Subset, SumType
  <1>. QED BY <1>3, <1>5, <1>6, <1>7, <1>8

(* When one weight changes, the sum changes by as much. *)
LEMMA SumOneChange ==
    ASSUME NEW weight, NEW other, NEW S, IsFiniteSet(S), NEW c \in S,
           \A x \in S : weight[x] \in Int /\ other[x] \in Int,
           \A x \in S \ {c} : weight[x] = other[x]
    PROVE  SumOf(other, S) = SumOf(weight, S) + (other[c] - weight[c])
  <1>1. IsFiniteSet(S \ {c})
    BY FS_Subset
  <1>2. SumOf(weight, S \ {c}) = SumOf(other, S \ {c})
    BY <1>1, SumSame
  <1>3. SumOf(weight, S \ {c}) \in Int
    BY <1>1, SumType
  <1>4. /\ SumOf(weight, S) = weight[c] + SumOf(weight, S \ {c})
        /\ SumOf(other, S) = other[c] + SumOf(other, S \ {c})
    BY SumWithout
  <1>. QED BY <1>2, <1>3, <1>4
=============================================================================
